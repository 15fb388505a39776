-------------------------------- MODULE Codec -------------------------------
(***************************************************************************)
(* RESP values on the wire: the frames of the protocol crate, their        *)
(* version-aware encoder, and the incremental decoder that RespCodec runs  *)
(* on a buffer that may end anywhere. Frames nest, so encode and           *)
(* parse_frame are recursive.                                              *)
(***************************************************************************)
EXTENDS Decoder

CONSTANT MaxDepth          \* Limits::max_depth

ASSUME DepthAssumption == MaxDepth \in Nat

-----------------------------------------------------------------------------
(* Doubles: a sign and a magnitude, integral, infinite or not a number.     *)

Infinite == 10
NotANumber == 11
f64(neg, mag) == [neg |-> neg, mag |-> mag]
is_finite(d) == d.mag < Infinite
is_nan(d) == d.mag = NotANumber

\* Frames. `text` holds the bytes of a string, `num` an integer or a Boolean,
\* `items` what an aggregate holds: a map's keys and values alternate.
Frame(t, text, num, dbl, items) ==
    [t |-> t, text |-> text, num |-> num, dbl |-> dbl, items |-> items]
TextFrame(t, text) == Frame(t, text, 0, f64(FALSE, 0), <<>>)
Simple(s) == TextFrame("simple", s)
ErrorFrame(s) == TextFrame("error", s)
Bulk(b) == TextFrame("bulk", b)
BigNumber(s) == TextFrame("big", s)
BulkError(s) == TextFrame("bulkError", s)
Verbatim(format, data) == TextFrame("verbatim", format \o data)
Null == TextFrame("null", <<>>)
Integer(n) == Frame("integer", <<>>, n, f64(FALSE, 0), <<>>)
Boolean(b) == Frame("boolean", <<>>, IF b THEN 1 ELSE 0, f64(FALSE, 0), <<>>)
Double(d) == Frame("double", <<>>, 0, d, <<>>)
Aggregate(t, items) == Frame(t, <<>>, 0, f64(FALSE, 0), items)
Array(items) == Aggregate("array", items)
SetOf(items) == Aggregate("set", items)
Push(items) == Aggregate("push", items)
MapOf(items) == Aggregate("map", items)

-----------------------------------------------------------------------------
(* encode *)

format_i64(n) ==
    LET abs == IF n < 0 THEN -n ELSE n
        digits[m \in 0..abs] ==
            IF m < 10 THEN <<ToString(m)>> ELSE Append(digits[m \div 10], ToString(m % 10))
    IN  IF n < 0 THEN <<"-">> \o digits[abs] ELSE digits[abs]

put_double(d) ==
    LET sign == IF d.neg THEN <<"-">> ELSE <<>> IN
    CASE is_nan(d) -> <<"nan">>
      [] d.mag = Infinite -> sign \o <<"inf">>
      [] OTHER -> sign \o format_i64(d.mag)

Mark == [simple |-> "+", error |-> "-", integer |-> ":", bulk |-> "$", null |-> "_",
         boolean |-> "#", double |-> ",", big |-> "(", bulkError |-> "!", verbatim |-> "=",
         array |-> "*", set |-> "~", push |-> ">", map |-> "%"]

\* Fault: a map announces its frames, as a flat array would.
put_len_flat(f) == Len(f.items)

\* The number in an aggregate's header.
put_len(f) == IF f.t = "map" THEN Len(f.items) \div 2 ELSE Len(f.items)

RECURSIVE encode(_, _)
encode(f, version) ==
    LET line(b) == <<Mark[f.t]>> \o b \o Crlf
        sized(b) == line(format_i64(Len(b))) \o b \o Crlf
    IN
    CASE f.t \in {"simple", "error", "big"} -> line(f.text)
      [] f.t = "integer" -> line(format_i64(f.num))
      [] f.t = "boolean" -> line(IF f.num = 1 THEN <<"t">> ELSE <<"f">>)
      [] f.t = "double" -> line(put_double(f.dbl))
      [] f.t = "null" -> IF version = 2 THEN <<"$", "-", "1">> \o Crlf ELSE line(<<>>)
      [] f.t \in {"bulk", "bulkError"} -> sized(f.text)
      [] f.t = "verbatim" -> sized(SubSeq(f.text, 1, 3) \o <<":">> \o SubSeq(f.text, 4, Len(f.text)))
      [] OTHER -> line(format_i64(put_len(f)))
                    \o FlattenSeq([i \in DOMAIN f.items |-> encode(f.items[i], version)])

-----------------------------------------------------------------------------
(* decode *)

\* What str::parse::<f64> reads.
is_f64(text) ==
    LET body == Unsigned(text) IN
    body \in {<<"inf">>, <<"nan">>} \/ is_i64(text)
parse_f64(text) ==
    LET body == Unsigned(text) IN
    f64(Head(text) = "-", CASE body = <<"inf">> -> Infinite
                            [] body = <<"nan">> -> NotANumber
                            [] OTHER -> parse_i64(body))

\* A frame whose body is one line, once the line is there and acceptable.
line_frame(input, from, Accepts(_), Make(_)) ==
    LET line == read_line(input, from) IN
    IF line.st = "more" THEN More
    ELSE IF ~Accepts(line.args) THEN Error
    ELSE Parsed(Make(line.args), line.next)

text_line(input, from, kind) == line_frame(input, from, LAMBDA s : TRUE, LAMBDA s : TextFrame(kind, s))
parse_integer(input, from) == line_frame(input, from, is_i64, LAMBDA s : Integer(parse_i64(s)))
parse_null(input, from) == line_frame(input, from, LAMBDA s : s = <<>>, LAMBDA s : Null)
parse_boolean(input, from) ==
    line_frame(input, from, LAMBDA s : s \in {<<"t">>, <<"f">>}, LAMBDA s : Boolean(s = <<"t">>))
parse_double(input, from) == line_frame(input, from, is_f64, LAMBDA s : Double(parse_f64(s)))

\* Fault: the bytes after a payload are skipped unread.
sized_body_unchecked(input, from, least) ==
    LET hdr == read_line(input, from)
        len == parse_i64(hdr.args)
        end == hdr.next + len
    IN  IF hdr.st = "more" THEN More
        ELSE IF ~is_i64(hdr.args) \/ len < least \/ len > MaxBulkLen THEN Error
        ELSE IF Len(input) < end + 1 THEN More
        ELSE Parsed(SubSeq(input, hdr.next, end - 1), end + 2)

\* A payload of at least `least` bytes after its length, closed by a CRLF.
sized_body(input, from, least) ==
    LET hdr == read_line(input, from)
        len == parse_i64(hdr.args)
        end == hdr.next + len
    IN  IF hdr.st = "more" THEN More
        ELSE IF ~is_i64(hdr.args) \/ len < least \/ len > MaxBulkLen THEN Error
        ELSE IF Len(input) < end + 1 THEN More
        ELSE IF SubSeq(input, end, end + 1) # Crlf THEN Error
        ELSE Parsed(SubSeq(input, hdr.next, end - 1), end + 2)

is_minus_one(hdr) == hdr.st = "parsed" /\ is_i64(hdr.args) /\ parse_i64(hdr.args) = -1

parse_bulk(input, from, is_error) ==
    LET hdr == read_line(input, from)
        body == sized_body(input, from, 0)
    IN  IF is_minus_one(hdr) /\ ~is_error THEN Parsed(Null, hdr.next)
        ELSE IF body.st # "parsed" THEN body
        ELSE Parsed(IF is_error THEN BulkError(body.args) ELSE Bulk(body.args), body.next)

parse_verbatim(input, from) ==
    LET body == sized_body(input, from, 4) IN
    IF body.st # "parsed" THEN body
    ELSE IF body.args[4] # ":" THEN Error
    ELSE Parsed(Verbatim(SubSeq(body.args, 1, 3), SubSeq(body.args, 5, Len(body.args))), body.next)

RECURSIVE parse_frame(_, _, _), parse_items(_, _, _, _, _)

\* The next `count` frames from `pos` on.
parse_items(input, pos, depth, count, items) ==
    LET r == parse_frame(input, pos, depth) IN
    IF count = 0 THEN Parsed(items, pos)
    ELSE IF r.st # "parsed" THEN r
    ELSE parse_items(input, r.next, depth, count - 1, Append(items, r.args))

parse_aggregate(input, from, depth, kind) ==
    LET hdr == read_line(input, from)
        count == parse_i64(hdr.args)
        body == parse_items(input, hdr.next, depth + 1, count, <<>>)
    IN  IF hdr.st = "more" THEN More
        ELSE IF ~is_i64(hdr.args) THEN Error
        ELSE IF count = -1 /\ kind = "array" THEN Parsed(Null, hdr.next)
        ELSE IF count < 0 \/ count > MaxArrayLen THEN Error
        ELSE IF body.st # "parsed" THEN body
        ELSE Parsed(Aggregate(kind, body.args), body.next)

\* max_array_len bounds the pairs, not the frames.
parse_map(input, from, depth) ==
    LET hdr == read_line(input, from)
        count == parse_i64(hdr.args)
        body == parse_items(input, hdr.next, depth + 1, 2 * count, <<>>)
    IN  IF hdr.st = "more" THEN More
        ELSE IF ~is_i64(hdr.args) \/ count < 0 \/ count > MaxArrayLen THEN Error
        ELSE IF body.st # "parsed" THEN body
        ELSE Parsed(MapOf(body.args), body.next)

parse_frame(input, from, depth) ==
    LET mark == input[from]
        body == from + 1
    IN
    IF depth > MaxDepth THEN Error
    ELSE IF from > Len(input) THEN More
    ELSE CASE mark = "+" -> text_line(input, body, "simple")
           [] mark = "-" -> text_line(input, body, "error")
           [] mark = "(" -> text_line(input, body, "big")
           [] mark = ":" -> parse_integer(input, body)
           [] mark = "_" -> parse_null(input, body)
           [] mark = "#" -> parse_boolean(input, body)
           [] mark = "," -> parse_double(input, body)
           [] mark = "$" -> parse_bulk(input, body, FALSE)
           [] mark = "!" -> parse_bulk(input, body, TRUE)
           [] mark = "=" -> parse_verbatim(input, body)
           [] mark = "*" -> parse_aggregate(input, body, depth, "array")
           [] mark = "~" -> parse_aggregate(input, body, depth, "set")
           [] mark = ">" -> parse_aggregate(input, body, depth, "push")
           [] mark = "%" -> parse_map(input, body, depth)
           [] OTHER -> Error

\* RespCodec::decode: the frame at the front of the buffer.
decode(buf) == parse_frame(buf, 1, 0)
=============================================================================
