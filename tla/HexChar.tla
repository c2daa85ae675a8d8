-------------------------------- MODULE HexChar --------------------------------
(***************************************************************************)
(* The conversions of utility/hexChar.c, as operators on sequences of      *)
(* character codes.                                                        *)
(***************************************************************************)
EXTENDS Integers, Sequences, SequencesExt

SupperToLower(in) == IF in \in 65..90 THEN in + 32 ELSE in
LowerToSupper(in) == IF in \in 97..122 THEN in - 32 ELSE in

(* "0123456789ABCDEF" *)
tohex == [d \in 0..15 |-> IF d < 10 THEN 48 + d ELSE 55 + d]

CharToHex(pchIn) ==
    [k \in 1..(2 * Len(pchIn)) |->
        LET c == pchIn[(k + 1) \div 2]
        IN  tohex[IF k % 2 = 1 THEN c \div 16 ELSE c % 16]]

(* The value of one digit: the comparison ignores case, the subtraction does *)
(* not.                                                                      *)
Digit_Upper(ch) == IF LowerToSupper(ch) \in 65..70 THEN LowerToSupper(ch) - 65 + 10 ELSE ch - 48
Digit(ch)       == IF LowerToSupper(ch) \in 65..70 THEN ch - 65 + 10 ELSE ch - 48

(***************************************************************************)
(* HexToChar's loop runs q down from the last character; its condition     *)
(* "q >= 0,st >= 0" is st >= 0 alone.  A byte is stored in the round after *)
(* its second digit, so the first byte of an even length needs a round     *)
(* with q = -1, which reads the character before pchIn.  out[i] is         *)
(* pchOut[i - 1] (-1 if never written), reads the positions read.          *)
(***************************************************************************)
Goes_Both(s, q) == q >= 0 /\ s.st >= 0
Goes(s, q)      == s.st >= 0

Round(pchIn, s, q) ==
    LET t == IF s.kk = 2
             THEN [s EXCEPT !.out[s.st + 1] = s.num % 256, !.st = @ - 1,
                            !.num = 0, !.an = 1, !.kk = 0]
             ELSE s
        ch == IF q < 0 THEN 0 ELSE pchIn[q + 1]
    IN  [t EXCEPT !.num = @ + t.an * Digit(ch), !.an = @ * 16, !.kk = @ + 1,
                  !.reads = @ \cup {q}]

HexToChar(pchIn) ==
    LET n  == Len(pchIn)
        s0 == [st |-> n \div 2 - 1, num |-> 0, an |-> 1, kk |-> 0,
               out |-> [i \in 1..(n \div 2) |-> -1], reads |-> {}]
    IN  FoldLeft(LAMBDA s, k : IF Goes(s, n - k) THEN Round(pchIn, s, n - k) ELSE s,
                 s0, [k \in 1..(n + 1) |-> k])
===============================================================================
