------------------------------- MODULE Stored -------------------------------
(* Instants as the store writes them: formatTime (store/sqlite.go) in the   *)
(* zone of the process.  An instant is a number of hundredths of a second;  *)
(* a stored one is the local time to the second and what follows it, which  *)
(* is what the text order of two of them depends on.                       *)
EXTENDS Integers, Sequences, SequencesExt

(* The characters of RFC3339Nano that can follow the seconds.               *)
Plus == 43
Minus == 45
Dot == 46
Digit(d) == 48 + d
Zulu == 90

(* Trailing zeros of the fraction are dropped, with the dot if none is left. *)
Fraction(hundredths) ==
    LET tens == hundredths \div 10
        ones == hundredths % 10
    IN  IF hundredths = 0 THEN <<>>
        ELSE <<Dot, Digit(tens)>> \o (IF ones = 0 THEN <<>> ELSE <<Digit(ones)>>)

(* The digits of an offset, of fixed width, stand as one number.            *)
Suffix(offset) ==
    IF offset = 0 THEN <<Zulu>>
    ELSE IF offset > 0 THEN <<Plus, offset>> ELSE <<Minus, -offset>>

FormatTime(instant, offset) ==
    [seconds |-> instant \div 100 + offset,
     rest |-> Fraction(instant % 100) \o Suffix(offset)]

(* The order of ORDER BY: the text, byte by byte.                          *)
Precedes(s, t) ==
    \/ IsStrictPrefix(s, t)
    \/ \E i \in DOMAIN s \cap DOMAIN t :
         s[i] < t[i] /\ \A j \in 1..(i - 1) : s[j] = t[j]

Before(a, b) ==
    a.seconds < b.seconds \/ (a.seconds = b.seconds /\ Precedes(a.rest, b.rest))
=============================================================================
