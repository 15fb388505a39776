----------------------------- MODULE StoreBytes -----------------------------
(***************************************************************************)
(* The records of the store as the bytes the engine holds.  User keys are  *)
(* any distinct byte strings of RawKeys, which may be prefixes of one      *)
(* another; fields and members are represented by index fields, which have *)
(* their order.                                                            *)
(***************************************************************************)
EXTENDS Store, Encoding

CONSTANT RawKeys

\* The length of a key fits its field: the decoder limits a bulk string to 512 MiB.
ASSUME RawKeysAssumption ==
    \A raw \in RawKeys : raw \in Seq(0 .. Base - 1) /\ Len(raw) < Power[LenBytes]

Namings == {name \in [Keys -> RawKeys] : \A k, l \in Keys : k # l => name[k] # name[l]}

field_bytes(field) == list_index_field(LIST_INITIAL_INDEX + field)

SubBytes(name, r) == subkey(name[r.key], r.ver, field_bytes(r.field))
IdxBytes(name, r) == zscore_key(name[r.key], r.ver, r.score, field_bytes(r.member))

EngineKeys(name) ==
    {meta_key(name[k]) : k \in {k \in Keys : metas[k] # NoMeta}}
        \cup {SubBytes(name, r) : r \in subs} \cup {IdxBytes(name, r) : r \in index}

\* VersionMap::should_keep on the bytes of an engine key.
should_keep_bytes(name, raw) ==
    LET parsed == parse_owner_version(raw) IN
    \/ parsed = Malformed
    \/ \E k \in Keys : name[k] = parsed[1] /\ versions[k] # 0 /\ versions[k] = parsed[2]

\* The value put_meta and the batches store.
MetaBytes(m) ==
    meta_encode(Tags[m.type], m.ver, m.exp,
        CASE m.type = "string" -> <<m.val>>
          [] m.type = "list" -> set_list_bounds(LIST_INITIAL_INDEX + m.head, LIST_INITIAL_INDEX + m.tail)
          [] OTHER -> set_field_count(m.cnt))

UsedVersions == {r.ver : r \in subs} \cup {r.ver : r \in index}

-----------------------------------------------------------------------------
(* A prefix scan of the engine's bytes finds the records of one structure    *)
(* and no others, whatever the other keys and versions are; the index of a   *)
(* sorted set comes in the order of its scores and members.                  *)
ScansExact ==
    \A name \in Namings :
        LET raw == EngineKeys(name) IN
        /\ \A k \in Keys : \A ver \in UsedVersions :
              /\ scan_prefix(raw, subkey_prefix(name[k], ver))
                    = {SubBytes(name, r) : r \in scan(k, ver)}
              /\ scan_prefix(raw, zscore_prefix(name[k], ver))
                    = {IdxBytes(name, r) : r \in scan_index(k, ver)}
              /\ \A r \in scan_index(k, ver) :
                    LET suffix == SubSeq(IdxBytes(name, r), Len(zscore_prefix(name[k], ver)) + 1,
                                         Len(IdxBytes(name, r)))
                    IN  split_score_suffix(suffix) = <<r.score, field_bytes(r.member)>>
              /\ \A r, s \in scan_index(k, ver) :
                    Before(r, s) <=> LexBefore(IdxBytes(name, r), IdxBytes(name, s))
        /\ Cardinality(scan_prefix(raw, <<META_PREFIX>>)) = dbsize
        /\ Cardinality(scan_prefix(raw, <<SUBKEY_PREFIX>>))
              + Cardinality(scan_prefix(raw, <<ZSCORE_PREFIX>>)) = raw_subkey_count

(* The compaction filter, which sees only bytes, decides about each record   *)
(* by its true owner and version, and keeps all metadata.                    *)
FilterReadsOwner ==
    \A name \in Namings :
        /\ \A r \in subs : should_keep_bytes(name, SubBytes(name, r)) <=> should_keep(r)
        /\ \A r \in index : should_keep_bytes(name, IdxBytes(name, r)) <=> should_keep(r)
        /\ \A k \in Keys : should_keep_bytes(name, meta_key(name[k]))

(* What a command or the rebuild reads back from a metadata value is what    *)
(* the last writer stored: type, version, deadline and the count or bounds.  *)
MetaReadsBack ==
    \A k \in Keys : metas[k] # NoMeta =>
        LET m == metas[k]
            read == meta_decode(MetaBytes(m))
        IN  /\ read # Malformed
            /\ <<read[1].tag, read[1].version, read[1].expire>> = <<Tags[m.type], m.ver, m.exp>>
            /\ m.type = "string" => read[1].payload = <<m.val>>
            /\ m.type \in {"hash", "set", "zset"} => field_count(read[1]) = m.cnt
            /\ m.type = "list" =>
                  list_bounds(read[1]) = <<LIST_INITIAL_INDEX + m.head, LIST_INITIAL_INDEX + m.tail>>
=============================================================================
