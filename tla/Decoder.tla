------------------------------ MODULE Decoder ------------------------------
(***************************************************************************)
(* The request decoder of the protocol crate: decode_command on a buffer   *)
(* that may end anywhere. A byte is a short string; the bytes below are    *)
(* those the decoder tells apart, any other byte is payload.               *)
(***************************************************************************)
EXTENDS Integers, Sequences, SequencesExt

CONSTANTS MaxBulkLen,      \* Limits::max_bulk_len
          MaxArrayLen,     \* Limits::max_array_len
          MaxInlineLen     \* Limits::max_inline_len

ASSUME LimitsAssumption == MaxBulkLen \in Nat /\ MaxArrayLen \in Nat /\ MaxInlineLen \in Nat

Crlf == <<"CR", "LF">>
DigitAt == <<"0", "1", "2", "3", "4", "5", "6", "7", "8", "9">>
Digits == {DigitAt[n + 1] : n \in 0..9}
DigitValue(b) == CHOOSE n \in 0..9 : DigitAt[n + 1] = b
is_space(b) == b \in {"SP", "TAB", "CR", "LF", "VT", "FF"}

\* str::trim
Trim(arg) ==
    LET ink == {i \in DOMAIN arg : ~is_space(arg[i])} IN
    IF ink = {} THEN <<>> ELSE SubSeq(arg, Min(ink), Max(ink))

\* What a parse step returns: it needs more bytes, it has failed, or it has
\* arguments and the position after them.
Results == [st : {"more", "error", "parsed"}, args : Seq(Seq(STRING)), next : Nat]
More == [st |-> "more", args |-> <<>>, next |-> 0]
Error == [st |-> "error", args |-> <<>>, next |-> 0]
Parsed(args, next) == [st |-> "parsed", args |-> args, next |-> next]

-----------------------------------------------------------------------------
(* Lines and integers. *)

\* The line that starts at `from`, once its CRLF has arrived.
read_line(input, from) ==
    LET ends == {i \in from .. Len(input) - 1 : <<input[i], input[i + 1]>> = Crlf} IN
    IF ends = {} THEN More
    ELSE LET i == Min(ends) IN Parsed(SubSeq(input, from, i - 1), i + 2)

Unsigned(line) ==
    IF line # <<>> /\ Head(line) \in {"+", "-"} THEN Tail(line) ELSE line
is_i64(line) == Unsigned(line) # <<>> /\ \A i \in DOMAIN Unsigned(line) : Unsigned(line)[i] \in Digits
parse_i64(line) ==
    LET digits == Unsigned(line)
        value[i \in 0..Len(digits)] ==
            IF i = 0 THEN 0 ELSE 10 * value[i - 1] + DigitValue(digits[i])
        n == value[Len(digits)]
    IN  IF Head(line) = "-" THEN -n ELSE n

-----------------------------------------------------------------------------
(* Requests as arrays of bulk strings. *)

\* One turn of the loop of parse_multibulk: the argument at acc.next.
parse_argument(input) == [acc \in Results |->
    LET hdr == read_line(input, acc.next + 1)
        len == parse_i64(hdr.args)
        end == hdr.next + len
    IN  IF acc.st # "parsed" THEN acc
        ELSE IF acc.next > Len(input) THEN More
        ELSE IF input[acc.next] # "$" THEN Error
        ELSE IF hdr.st = "more" THEN More
        ELSE IF ~is_i64(hdr.args) \/ len < 0 \/ len > MaxBulkLen THEN Error
        ELSE IF Len(input) < end + 1 THEN More
        ELSE IF SubSeq(input, end, end + 1) # Crlf THEN Error
        ELSE Parsed(Append(acc.args, SubSeq(input, hdr.next, end - 1)), end + 2)]

parse_multibulk(input) ==
    LET hdr == read_line(input, 2)
        count == parse_i64(hdr.args)
        loop[i \in 0..count] == IF i = 0 THEN Parsed(<<>>, hdr.next)
                                ELSE parse_argument(input)[loop[i - 1]]
    IN  IF hdr.st = "more" THEN More
        ELSE IF ~is_i64(hdr.args) THEN Error
        ELSE IF count <= 0 THEN Parsed(<<>>, hdr.next)
        ELSE IF count > MaxArrayLen THEN Error
        ELSE loop[count]

-----------------------------------------------------------------------------
(* Inline requests. *)

\* The byte an escape inside double quotes stands for (the hexadecimal form is
\* left out).
unescape_double(b) ==
    CASE b = "n" -> "LF" [] b = "r" -> "CR" [] b = "t" -> "TAB"
      [] b = "b" -> "BKSP" [] b = "a" -> "BEL" [] OTHER -> b

Opening(b) == CASE b = "DQ" -> "double" [] b = "SQ" -> "single" [] OTHER -> "word"

\* The tokenizer as an automaton: mode, the argument being read, those read.
Modes == {"gap", "word", "double", "escape", "single", "singleEscape", "closed", "bad"}
Tokens == [mode : Modes, cur : Seq(STRING), args : Seq(Seq(STRING))]
Token(mode, cur, args) == [mode |-> mode, cur |-> cur, args |-> args]
Grow(s, b) == Token(s.mode, Append(s.cur, b), s.args)
Close(s, mode) == Token(mode, <<>>, Append(s.args, s.cur))

split_step[s \in Tokens, b \in STRING] ==
    CASE s.mode \in {"gap", "closed"} /\ is_space(b) -> Token("gap", <<>>, s.args)
      [] s.mode = "closed" /\ ~is_space(b) -> Token("bad", <<>>, s.args)
      [] s.mode = "gap" /\ ~is_space(b) ->
            Token(Opening(b), IF Opening(b) = "word" THEN <<b>> ELSE <<>>, s.args)
      [] s.mode = "word" -> IF is_space(b) THEN Close(s, "gap") ELSE Grow(s, b)
      [] s.mode = "double" ->
            (CASE b = "DQ" -> Close(s, "closed")
               [] b = "BS" -> Token("escape", s.cur, s.args)
               [] OTHER -> Grow(s, b))
      [] s.mode = "escape" -> Token("double", Append(s.cur, unescape_double(b)), s.args)
      [] s.mode = "single" ->
            (CASE b = "SQ" -> Close(s, "closed")
               [] b = "BS" -> Token("singleEscape", s.cur, s.args)
               [] OTHER -> Grow(s, b))
      [] s.mode = "singleEscape" ->
            (CASE b = "SQ" -> Token("single", Append(s.cur, "SQ"), s.args)
               [] b = "BS" -> Grow(s, "BS")
               [] OTHER -> Token("single", s.cur \o <<"BS", b>>, s.args))
      [] s.mode = "bad" -> s

split_inline(line) ==
    LET scan[i \in 0..Len(line)] == IF i = 0 THEN Token("gap", <<>>, <<>>)
                                    ELSE split_step[scan[i - 1], line[i]]
        s == scan[Len(line)]
    IN
    CASE s.mode \in {"gap", "closed"} -> Parsed(s.args, 0)
      [] s.mode = "word" -> Parsed(Close(s, "gap").args, 0)
      [] OTHER -> Error      \* unbalanced quotes, or no space after them

parse_inline(input) ==
    LET line == read_line(input, 1)
        split == split_inline(line.args)
    IN  IF line.st = "more"
        THEN IF Len(input) > MaxInlineLen THEN Error ELSE More
        ELSE IF Len(line.args) > MaxInlineLen \/ split.st = "error" THEN Error
        ELSE Parsed(split.args, line.next)

\* Fault: the whole buffer is consumed with the first request.
decode_command_greedy(buf) ==
    LET r == IF buf[1] = "*" THEN parse_multibulk(buf) ELSE parse_inline(buf) IN
    IF buf = <<>> THEN More
    ELSE IF r.st = "parsed" THEN Parsed(r.args, Len(buf) + 1) ELSE r

decode_command(buf) ==
    IF buf = <<>> THEN More
    ELSE IF buf[1] = "*" THEN parse_multibulk(buf) ELSE parse_inline(buf)
=============================================================================
