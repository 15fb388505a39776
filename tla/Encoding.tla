------------------------------ MODULE Encoding ------------------------------
(***************************************************************************)
(* The byte layout of engine keys and metadata values.  A byte string is a *)
(* sequence of integers below Base; integers are stored big-endian, in     *)
(* LenBytes (u32) or WordBytes (u64) bytes.                                *)
(***************************************************************************)
EXTENDS Integers, Sequences, SequencesExt

CONSTANTS Base,        \* 256
          LenBytes,    \* 4
          WordBytes    \* 8

ASSUME WidthsAssumption ==
    Base \in Nat \ {0, 1, 2, 3} /\ LenBytes \in Nat \ {0} /\ WordBytes \in Nat \ {0}

META_PREFIX == 1
SUBKEY_PREFIX == 2
ZSCORE_PREFIX == 3

\* What a parser returns when the bytes do not have its form.
Malformed == <<>>

\* The number of values of n bytes.
Power[n \in Nat] == IF n = 0 THEN 1 ELSE Base * Power[n - 1]

to_be_bytes(n, width) == [i \in 1..width |-> (n \div Power[width - i]) % Base]
from_be_bytes(bytes) ==
    LET value[i \in 0 .. Len(bytes)] == IF i = 0 THEN 0 ELSE value[i - 1] * Base + bytes[i]
    IN  value[Len(bytes)]

Slice(bytes, from, width) == SubSeq(bytes, from, from + width - 1)

-----------------------------------------------------------------------------
(* Keys. *)

meta_key(user_key) == <<META_PREFIX>> \o user_key

\* Fault: the length of the user key is left out.
versioned_prefix_bare(prefix, user_key, version) ==
    <<prefix>> \o user_key \o to_be_bytes(version, WordBytes)

\* The shape subkeys and score-index records share.
versioned_prefix(prefix, user_key, version) ==
    <<prefix>> \o to_be_bytes(Len(user_key), LenBytes) \o user_key
        \o to_be_bytes(version, WordBytes)

subkey_prefix(user_key, version) == versioned_prefix(SUBKEY_PREFIX, user_key, version)
subkey(user_key, version, field) == subkey_prefix(user_key, version) \o field

zscore_prefix(user_key, version) == versioned_prefix(ZSCORE_PREFIX, user_key, version)
zscore_key(user_key, version, code, member) ==
    zscore_prefix(user_key, version) \o to_be_bytes(code, WordBytes) \o member

\* The encoded score and the member of what follows a zscore_prefix.
split_score_suffix(suffix) ==
    IF Len(suffix) < WordBytes THEN Malformed
    ELSE <<from_be_bytes(Slice(suffix, 1, WordBytes)),
           SubSeq(suffix, WordBytes + 1, Len(suffix))>>

\* Indexes of list elements start in the middle of the u64 space.
LIST_INITIAL_INDEX == Power[WordBytes] \div 2
list_index_field(index) == to_be_bytes(index, WordBytes)

\* Fault: the version is taken from the end of the record.
parse_versioned_tail(raw, prefix) ==
    LET klen == from_be_bytes(Slice(raw, 2, LenBytes))
        keyAt == 2 + LenBytes
    IN  IF raw = <<>> \/ raw[1] # prefix \/ Len(raw) < keyAt + klen + WordBytes - 1 THEN Malformed
        ELSE <<Slice(raw, keyAt, klen),
               from_be_bytes(SubSeq(raw, Len(raw) - WordBytes + 1, Len(raw))), <<>>>>

\* The owner, the version and the rest of a versioned record.
parse_versioned(raw, prefix) ==
    LET klen == from_be_bytes(Slice(raw, 2, LenBytes))
        keyAt == 2 + LenBytes
        verAt == keyAt + klen
        restAt == verAt + WordBytes
    IN  IF raw = <<>> \/ raw[1] # prefix \/ Len(raw) < 1 + LenBytes + WordBytes THEN Malformed
        ELSE IF Len(raw) < restAt - 1 THEN Malformed
        ELSE <<Slice(raw, keyAt, klen), from_be_bytes(Slice(raw, verAt, WordBytes)),
               SubSeq(raw, restAt, Len(raw))>>

parse_owner_version(raw) ==
    IF raw = <<>> \/ raw[1] \notin {SUBKEY_PREFIX, ZSCORE_PREFIX} THEN Malformed
    ELSE LET parsed == parse_versioned(raw, raw[1])
         IN  IF parsed = Malformed THEN Malformed ELSE <<parsed[1], parsed[2]>>

-----------------------------------------------------------------------------
(* Scans in the byte order of the engine. *)

LexBefore(a, b) ==
    \/ IsStrictPrefix(a, b)
    \/ \E i \in 1 .. Len(a) :
          i <= Len(b) /\ a[i] < b[i] /\ SubSeq(a, 1, i - 1) = SubSeq(b, 1, i - 1)

\* PrefixScan: from the prefix on, until the first key without it.
scan_prefix(keys, prefix) ==
    {key \in keys :
        /\ ~LexBefore(key, prefix)
        /\ \A other \in keys :
              ~LexBefore(other, prefix) /\ ~LexBefore(key, other) => IsPrefix(prefix, other)}

-----------------------------------------------------------------------------
(* Metadata values: a fixed header and a payload by type. *)

Tags == [string |-> 1, hash |-> 2, set |-> 3, zset |-> 4, list |-> 5]
META_HEADER_LEN == 1 + 2 * WordBytes

set_field_count(n) == to_be_bytes(n, LenBytes)

\* Fault: the bounds are stored in the width of a count.
set_list_bounds_short(head, tail) == to_be_bytes(head, LenBytes) \o to_be_bytes(tail, LenBytes)

set_list_bounds(head, tail) == to_be_bytes(head, WordBytes) \o to_be_bytes(tail, WordBytes)

meta_encode(tag, version, expire, payload) ==
    <<tag>> \o to_be_bytes(version, WordBytes) \o to_be_bytes(expire, WordBytes) \o payload

meta_decode(raw) ==
    IF Len(raw) < META_HEADER_LEN THEN Malformed
    ELSE <<[tag |-> raw[1],
            version |-> from_be_bytes(Slice(raw, 2, WordBytes)),
            expire |-> from_be_bytes(Slice(raw, 2 + WordBytes, WordBytes)),
            payload |-> SubSeq(raw, META_HEADER_LEN + 1, Len(raw))]>>

field_count(meta) ==
    IF meta.tag \in {Tags.hash, Tags.set, Tags.zset} /\ Len(meta.payload) >= LenBytes
    THEN from_be_bytes(Slice(meta.payload, 1, LenBytes)) ELSE 0

list_bounds(meta) ==
    IF meta.tag # Tags.list \/ Len(meta.payload) < 2 * WordBytes THEN Malformed
    ELSE <<from_be_bytes(Slice(meta.payload, 1, WordBytes)),
           from_be_bytes(Slice(meta.payload, WordBytes + 1, WordBytes))>>
=============================================================================
