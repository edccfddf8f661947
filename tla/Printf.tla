------------------------------- MODULE Printf -------------------------------
(* common/libc/printf: __vprintf, one character of the format at a time, and  *)
(* snprintf, which keeps what fits of what it is sent.                        *)
(*                                                                            *)
(* A format is a directive, given by its parts, followed by a plain           *)
(* character; characters are strings of length one.  Integers are bit         *)
(* patterns: int and long have IntBits of them, long long has LongLongBits.   *)
EXTENDS Integers, Sequences, SequencesExt, TLC

CONSTANTS
    IntBits, LongLongBits,      \* 32 and 64
    Directives,   \* records [alt, left, zero, width, size, type]: width a sequence of digits, size 0..2 l's
    Args,         \* records [num, str]: what an argument is, read as a number, a string or a character
    NullStr,      \* the null pointer, as a string argument
    Lens          \* buffer sizes given to snprintf

BitsAssumption == IntBits \in Nat \ {0} /\ LongLongBits \in Nat /\ LongLongBits >= IntBits

NUMBER_BUF_SIZE == (LongLongBits \div 3) + 2

VARIABLES
    dir, arg, len,     \* inputs
    format, i,         \* the format, and the next character of it
    pf,                \* the state PF
    taken,             \* va_arg: how many arguments were retrieved
    sent, charcount,   \* what went to the send function (history), and the count
    digits,            \* the most places of the number buffer used (history)
    buf, bufpos        \* snprintf: the buffer, "?" where nothing was stored

inputs == <<dir, arg, len, format>>
vars == <<inputs, i, pf, taken, sent, charcount, digits, buf, bufpos>>

Digits16 == <<"0", "1", "2", "3", "4", "5", "6", "7", "8", "9", "a", "b", "c", "d", "e", "f">>
Flag(set, ch) == IF set THEN <<ch>> ELSE <<>>
Text(d) ==
    <<"%">> \o Flag(d.alt, "#") \o Flag(d.left, "-") \o Flag(d.zero, "0") \o d.width
            \o [k \in 1 .. d.size |-> "l"] \o <<d.type>> \o <<"z">>

Fresh ==
    [in_pct |-> FALSE, size |-> 0, num |-> 0, sign |-> FALSE, spacing |-> 0, rightspc |-> FALSE,
     fillchar |-> " ", base |-> 0, baseprefix |-> FALSE, altformat |-> FALSE]
__pf_endfield(p) == Fresh

Init ==
    /\ dir \in Directives /\ arg \in Args /\ len \in Lens /\ format = Text(dir)
    /\ i = 1 /\ pf = Fresh /\ taken = 0 /\ sent = <<>> /\ charcount = 0 /\ digits = 0
    /\ buf = [k \in 0 .. len - 1 |-> "?"] /\ bufpos = 0

------------------------------------------------------------------------------
\* Variant: the place of the terminator is used too
buflen_all == len
\* vsnprintf: room is kept for the terminator.
buflen == IF len = 0 THEN 0 ELSE len - 1
\* __pf_print with __snprintf_send: everything counts, what fits is stored.
__pf_print(s) ==
    LET n == IF Len(s) < buflen - bufpos THEN Len(s) ELSE buflen - bufpos
    IN /\ sent' = sent \o s /\ charcount' = charcount + Len(s)
       /\ buf' = [k \in DOMAIN buf |-> IF k >= bufpos /\ k < bufpos + n THEN s[k - bufpos + 1] ELSE buf[k]]
       /\ bufpos' = bufpos + n

__pf_modifier(p, ch) ==
    CASE ch = "#" -> [p EXCEPT !.altformat = TRUE]
      [] ch = "-" -> [p EXCEPT !.rightspc = TRUE]
      [] ch = "l" -> [p EXCEPT !.size = IF p.size = 1 THEN 2 ELSE 1]
      [] ch = "0" -> IF p.spacing > 0 THEN [p EXCEPT !.spacing = @ * 10] ELSE [p EXCEPT !.fillchar = "0"]
      [] OTHER -> [p EXCEPT !.spacing = @ * 10 + SelectInSeq(Digits16, LAMBDA c : c = ch) - 1]

\* __pf_getnum: a signed argument is split into sign and magnitude.
Width(p, ch) == IF ch # "p" /\ p.size = 2 THEN LongLongBits ELSE IntBits
__pf_getnum(p, ch) ==
    LET bits == Width(p, ch)
        n == arg.num % 2^bits
    IN IF ch = "d" /\ n >= 2^(bits - 1)
       THEN [p EXCEPT !.sign = TRUE, !.num = 2^bits - n]
       ELSE [p EXCEPT !.num = n]
__pf_setbase(p, ch) ==
    [p EXCEPT !.base = CASE ch \in {"d", "u"} -> 10 [] ch \in {"x", "p"} -> 16 [] ch = "o" -> 8,
              !.baseprefix = @ \/ p.altformat \/ ch = "p"]

\* __pf_fill and __pf_printstuff.
__pf_fill(p, n) == [k \in 1 .. n |-> p.fillchar]
\* Variant: zeroes are put before the sign
StuffZeroFirst(p, prefix, prefix2, stuff) ==
    LET n == Len(prefix) + Len(prefix2) + Len(stuff)
        spc == IF p.spacing > n THEN p.spacing - n ELSE 0
    IN IF p.rightspc THEN prefix \o prefix2 \o stuff \o __pf_fill(p, spc)
       ELSE __pf_fill(p, spc) \o prefix \o prefix2 \o stuff
__pf_printstuff(p, prefix, prefix2, stuff) ==
    LET n == Len(prefix) + Len(prefix2) + Len(stuff)
        spc == IF p.spacing > n THEN p.spacing - n ELSE 0
    IN IF p.rightspc THEN prefix \o prefix2 \o stuff \o __pf_fill(p, spc)
       ELSE IF p.fillchar # "0" THEN __pf_fill(p, spc) \o prefix \o prefix2 \o stuff
       ELSE prefix \o prefix2 \o __pf_fill(p, spc) \o stuff

\* __pf_printnum: digits from the right, at least one.  Variant: one digit more than needed
ConvertWide(b) ==
    LET f[n \in 0 .. 2^LongLongBits] == IF n = 0 THEN <<"0">> ELSE Append(f[n \div b], Digits16[(n % b) + 1]) IN f
Convert(b) ==
    LET f[n \in 0 .. 2^LongLongBits] ==
            IF n < b THEN <<Digits16[n + 1]>> ELSE Append(f[n \div b], Digits16[(n % b) + 1])
    IN f
__pf_printnum(p) ==
    __pf_printstuff(p, IF p.sign THEN <<"-">> ELSE <<>>,
                    IF p.baseprefix /\ p.base = 16 THEN <<"0", "x">>
                    ELSE IF p.baseprefix /\ p.base = 8 THEN <<"0">> ELSE <<>>,
                    Convert(p.base)[p.num])

\* __pf_send
Modifiers == {"#", "-", "l", "0", "1", "2", "3", "4", "5", "6", "7", "8", "9"}
Integers5 == {"d", "o", "u", "p", "x"}
__pf_send(ch) ==
    \/ /\ ~ pf.in_pct /\ ch # "%" /\ __pf_print(<<ch>>) /\ UNCHANGED <<pf, taken, digits>>
    \/ /\ ~ pf.in_pct /\ ch = "%" /\ pf' = [pf EXCEPT !.in_pct = TRUE]
       /\ UNCHANGED <<taken, sent, charcount, digits, buf, bufpos>>
    \/ /\ pf.in_pct /\ ch \in Modifiers /\ pf' = __pf_modifier(pf, ch)
       /\ UNCHANGED <<taken, sent, charcount, digits, buf, bufpos>>
    \/ /\ pf.in_pct /\ ch \in Integers5
       /\ \E p \in {__pf_setbase(__pf_getnum(pf, ch), ch)} :
             __pf_print(__pf_printnum(p)) /\ digits' = Len(Convert(p.base)[p.num])
       /\ pf' = __pf_endfield(pf) /\ taken' = taken + 1
    \/ /\ pf.in_pct /\ ch = "s"
       /\ __pf_print(__pf_printstuff(pf, <<>>, <<>>,
              IF arg.str = NullStr THEN <<"(", "n", "u", "l", "l", ")">> ELSE arg.str))
       /\ pf' = __pf_endfield(pf) /\ taken' = taken + 1 /\ UNCHANGED digits
    \* %%, %c, or a character that is no type, printed as it is
    \/ /\ pf.in_pct /\ ch \notin Modifiers \cup Integers5 \cup {"s"}
       /\ __pf_print(__pf_printstuff(pf, <<>>, <<>>, IF ch = "c" THEN <<"q">> ELSE <<ch>>))
       /\ pf' = __pf_endfield(pf) /\ taken' = (IF ch = "c" THEN taken + 1 ELSE taken) /\ UNCHANGED digits

Send == i <= Len(format) /\ __pf_send(format[i]) /\ i' = i + 1 /\ UNCHANGED inputs
\* The end of vsnprintf: the terminator.
Terminate ==
    /\ i = Len(format) + 1 /\ i' = i + 1
    /\ buf' = (IF len > 0 THEN [buf EXCEPT ![bufpos] = "NUL"] ELSE buf)
    /\ UNCHANGED <<inputs, pf, taken, sent, charcount, digits, bufpos>>

Next == Send \/ Terminate
Spec == Init /\ [][Next]_vars

------------------------------------------------------------------------------
(* Reference: what a directive prints, by its meaning. *)

Ended == i = Len(format) + 2
Value == LET bits == IF dir.type # "p" /\ dir.size = 2 THEN LongLongBits ELSE IntBits
             n == arg.num % 2^bits
         IN IF dir.type = "d" /\ n >= 2^(bits - 1) THEN n - 2^bits ELSE n
Radix == CASE dir.type \in {"d", "u"} -> 10 [] dir.type \in {"x", "p"} -> 16 [] OTHER -> 8
Numeral(n) ==
    LET places == CHOOSE k \in 1 .. LongLongBits + 1 : n < Radix^k /\ (k = 1 \/ n >= Radix^(k - 1))
    IN [k \in 1 .. places |-> Digits16[((n \div (Radix^(places - k))) % Radix) + 1]]
Body ==
    CASE dir.type \in Integers5 -> Numeral(IF Value < 0 THEN 0 - Value ELSE Value)
      [] dir.type = "s" -> IF arg.str = NullStr THEN <<"(", "n", "u", "l", "l", ")">> ELSE arg.str
      [] dir.type = "c" -> <<"q">>
      [] OTHER -> <<dir.type>>
Prefix ==
    IF dir.type \notin Integers5 THEN <<>>
    ELSE (IF Value < 0 THEN <<"-">> ELSE <<>>) \o
         (IF ~ (dir.alt \/ dir.type = "p") THEN <<>>
          ELSE CASE Radix = 16 -> <<"0", "x">> [] Radix = 8 -> <<"0">> [] OTHER -> <<>>)
FieldWidth == FoldLeft(LAMBDA a, c : a * 10 + SelectInSeq(Digits16, LAMBDA x : x = c) - 1, 0, dir.width)
Padding ==
    LET n == FieldWidth - Len(Prefix \o Body)
    IN [k \in 1 .. (IF n > 0 THEN n ELSE 0) |-> IF dir.zero THEN "0" ELSE " "]
Field ==
    IF dir.left THEN Prefix \o Body \o Padding
    ELSE IF dir.zero THEN Prefix \o Padding \o Body ELSE Padding \o Prefix \o Body

------------------------------------------------------------------------------
(* Properties *)

\* The parser's state is back at its start after a directive; counts fit.
TypeOK ==
    /\ bufpos \in 0 .. len /\ charcount \in Nat /\ taken \in 0 .. 1
    /\ i > Len(format) => pf = Fresh

\* The text sent is the one the directive means, for every combination of
\* flags, width, size and type.
FieldRight == Ended => sent = Append(Field, "z") /\ charcount = Len(sent)

\* The number buffer holds the longest numeral and its terminator.
NumberFits == digits + 1 <= NUMBER_BUF_SIZE

\* snprintf stores the longest beginning of the text that leaves room for the
\* terminator, which is always there, and touches nothing after it.
Truncated ==
    (Ended /\ len > 0) =>
        LET n == IF Len(sent) < len - 1 THEN Len(sent) ELSE len - 1
        IN /\ \A k \in 0 .. n - 1 : buf[k] = sent[k + 1]
           /\ buf[n] = "NUL"
           /\ \A k \in n + 1 .. len - 1 : buf[k] = "?"

=============================================================================
