----------------------------- MODULE ProtocolProofs -----------------------------
(***************************************************************************)
(* Lemmas about the messages of module Protocol, for any number of values  *)
(* of a byte: what memcpy stores it loads again, and what the make         *)
(* operators put into a message the parse operators find there.            *)
(***************************************************************************)
EXTENDS Protocol, TLAPS, SequenceTheorems

Uints == 0..(UintMod - 1)

(***************************************************************************)
(* Unsigned ints and their bytes.                                          *)
(***************************************************************************)
LEMMA Product ==
    ASSUME NEW a \in Nat, NEW b \in Nat, a > 0, b > 0
    PROVE  a * b \in Nat /\ a * b > 0
OBVIOUS

LEMMA UintModNat == UintMod \in Nat /\ UintMod > 0
<1>1. Base \in Nat /\ Base > 0 BY BaseAssumption
<1>2. Base * Base \in Nat /\ Base * Base > 0 BY <1>1, Product
<1>3. Base * Base * Base \in Nat /\ Base * Base * Base > 0 BY <1>1, <1>2, Product
<1> QED BY <1>1, <1>3, Product DEF UintMod

LEMMA DivMod ==
    ASSUME NEW n \in Nat, NEW b \in Nat, b > 0
    PROVE  /\ n \div b \in Nat /\ n % b \in 0..(b - 1)
           /\ n = (n % b) + b * (n \div b)
OBVIOUS

LEMMA DivBound ==
    ASSUME NEW n \in Nat, NEW b \in Nat, b > 0, NEW m \in Nat, n < b * m
    PROVE  n \div b < m
<1> DEFINE q == n \div b
<1>1. q \in Nat /\ b * q <= n
  BY DivMod
<1> HIDE DEF q
<1>2. CASE m <= q
  <2>1. b * m <= b * q BY <1>1, <1>2
  <2> QED BY <1>1, <2>1
<1>3. CASE ~(m <= q) BY <1>1, <1>3 DEF q
<1> QED BY <1>2, <1>3

LEMMA BytesSeq ==
    ASSUME NEW n \in Nat
    PROVE  Bytes(n) \in Seq(Byte) /\ Len(Bytes(n)) = 4
<1>1. Base \in Nat /\ Base > 0
  BY BaseAssumption
<1>2. n \div Base \in Nat /\ n % Base \in Byte
  BY <1>1, DivMod DEF Byte
<1>3. (n \div Base) \div Base \in Nat /\ (n \div Base) % Base \in Byte
  BY <1>1, <1>2, DivMod DEF Byte
<1>4. /\ ((n \div Base) \div Base) \div Base \in Nat
      /\ ((n \div Base) \div Base) % Base \in Byte
  BY <1>1, <1>3, DivMod DEF Byte
<1>5. (((n \div Base) \div Base) \div Base) % Base \in Byte
  BY <1>1, <1>4, DivMod DEF Byte
<1> QED BY <1>2, <1>3, <1>4, <1>5 DEF Bytes

LEMMA UintBytes ==
    ASSUME NEW n \in Uints
    PROVE  /\ Bytes(n) \in Seq(Byte) /\ Len(Bytes(n)) = 4
           /\ Uint(Bytes(n)) = n
<1> DEFINE n1 == n \div Base
           n2 == n1 \div Base
           n3 == n2 \div Base
<1>1. Base \in Nat /\ Base > 0
  BY BaseAssumption
<1>2. /\ Base * Base \in Nat /\ Base * Base * Base \in Nat
      /\ UintMod = Base * (Base * Base * Base)
      /\ Base * Base * Base = Base * (Base * Base)
  BY <1>1 DEF UintMod
<1>3. n \in Nat /\ n < UintMod
  BY UintModNat DEF Uints
<1>4. n1 \in Nat /\ n % Base \in Byte /\ n = (n % Base) + Base * n1 /\ n1 < Base * Base * Base
  BY <1>1, <1>2, <1>3, DivMod, DivBound DEF Byte
<1> HIDE DEF n1
<1>5. n2 \in Nat /\ n1 % Base \in Byte /\ n1 = (n1 % Base) + Base * n2 /\ n2 < Base * Base
  BY <1>1, <1>2, <1>4, DivMod, DivBound DEF Byte
<1> HIDE DEF n2
<1>6. n3 \in Nat /\ n2 % Base \in Byte /\ n2 = (n2 % Base) + Base * n3 /\ n3 < Base
  BY <1>1, <1>5, DivMod, DivBound DEF Byte
<1> HIDE DEF n3
<1>7. n3 % Base = n3 /\ n3 \in Byte
  BY <1>1, <1>6 DEF Byte
<1>8. Bytes(n) = <<n % Base, n1 % Base, n2 % Base, n3 % Base>>
  BY DEF Bytes, n1, n2, n3
<1>9. /\ Bytes(n) \in Seq(Byte) /\ Len(Bytes(n)) = 4
      /\ Bytes(n)[1] = n % Base /\ Bytes(n)[2] = n1 % Base
      /\ Bytes(n)[3] = n2 % Base /\ Bytes(n)[4] = n3
  BY <1>4, <1>5, <1>6, <1>7, <1>8
<1>10. Uint(Bytes(n)) = (n % Base) + Base * ((n1 % Base) + Base * ((n2 % Base) + Base * n3))
  BY <1>9 DEF Uint
<1> QED BY <1>4, <1>5, <1>6, <1>9, <1>10

LEMMA UintRange ==
    ASSUME NEW b, \A j \in 1..4 : b[j] \in Byte
    PROVE  Uint(b) \in Uints
<1>1. /\ Base \in Nat /\ Base > 0
      /\ b[1] \in 0..(Base - 1) /\ b[2] \in 0..(Base - 1)
      /\ b[3] \in 0..(Base - 1) /\ b[4] \in 0..(Base - 1)
  BY BaseAssumption DEF Byte
<1>2. ASSUME NEW d \in 0..(Base - 1), NEW m \in Nat, NEW x \in 0..(m - 1)
      PROVE  d + Base * x \in 0..(Base * m - 1)
  <2>1. x \in Nat /\ x + 1 <= m /\ d \in Nat /\ d <= Base - 1
    BY <1>1
  <2>2. Base * x \in Nat /\ Base * (x + 1) <= Base * m /\ Base * (x + 1) = Base * x + Base
        /\ Base * m \in Nat
    BY <1>1, <2>1
  <2> QED BY <1>1, <2>1, <2>2
<1>3. Base * Base \in Nat /\ Base * (Base * Base) \in Nat
  BY <1>1
<1>4. b[3] + Base * b[4] \in 0..(Base * Base - 1)
  BY <1>1, <1>2
<1>5. b[2] + Base * (b[3] + Base * b[4]) \in 0..(Base * (Base * Base) - 1)
  BY <1>1, <1>2, <1>3, <1>4
<1>6. Uint(b) \in 0..(Base * (Base * (Base * Base)) - 1)
  BY <1>1, <1>2, <1>3, <1>5 DEF Uint
<1>7. UintMod = Base * (Base * (Base * Base))
  BY <1>1, <1>3 DEF UintMod
<1> QED BY <1>6, <1>7 DEF Uints

(***************************************************************************)
(* Messages.                                                               *)
(***************************************************************************)
LEMMA Joined ==
    ASSUME NEW s \in Seq(Byte), NEW t \in Seq(Byte)
    PROVE  /\ s \o t \in Seq(Byte) /\ Len(s \o t) = Len(s) + Len(t)
           /\ \A j \in 1..Len(s) : (s \o t)[j] = s[j]
           /\ \A j \in 1..Len(t) : (s \o t)[Len(s) + j] = t[j]
<1>1. /\ s \o t \in Seq(Byte) /\ Len(s \o t) = Len(s) + Len(t)
      /\ Len(s) \in Nat /\ Len(t) \in Nat
      /\ \A i \in 1..(Len(s) + Len(t)) :
           (s \o t)[i] = IF i <= Len(s) THEN s[i] ELSE t[i - Len(s)]
  BY ConcatProperties
<1>2. ASSUME NEW j \in 1..Len(s) PROVE (s \o t)[j] = s[j]
  BY <1>1
<1>3. ASSUME NEW j \in 1..Len(t) PROVE (s \o t)[Len(s) + j] = t[j]
  <2>1. /\ Len(s) + j \in 1..(Len(s) + Len(t)) /\ ~(Len(s) + j <= Len(s))
        /\ (Len(s) + j) - Len(s) = j
    BY <1>1
  <2> QED BY <1>1, <2>1
<1> QED BY <1>1, <1>2, <1>3

(* Four unsigned ints in a row. *)
IsUint(b) == b \in Seq(Byte) /\ Len(b) = 4
Row(s, a, b, c, d) ==
    /\ s \in Seq(Byte) /\ Len(s) = 16
    /\ \A j \in 1..4 : s[j] = a[j] /\ s[4 + j] = b[j] /\ s[8 + j] = c[j] /\ s[12 + j] = d[j]

LEMMA Joined4 ==
    ASSUME NEW a, NEW b, NEW c, NEW d, IsUint(a), IsUint(b), IsUint(c), IsUint(d)
    PROVE  Row(a \o b \o c \o d, a, b, c, d)
<1>0. /\ a \in Seq(Byte) /\ b \in Seq(Byte) /\ c \in Seq(Byte) /\ d \in Seq(Byte)
      /\ Len(a) = 4 /\ Len(b) = 4 /\ Len(c) = 4 /\ Len(d) = 4
  BY DEF IsUint
<1> DEFINE ab == a \o b
           abc == ab \o c
           abcd == abc \o d
<1>1. /\ ab \in Seq(Byte) /\ Len(ab) = Len(a) + Len(b)
      /\ \A j \in 1..Len(a) : ab[j] = a[j]
      /\ \A j \in 1..Len(b) : ab[Len(a) + j] = b[j]
  BY <1>0, Joined
<1> HIDE DEF ab
<1>2. /\ abc \in Seq(Byte) /\ Len(abc) = Len(ab) + Len(c)
      /\ \A j \in 1..Len(ab) : abc[j] = ab[j]
      /\ \A j \in 1..Len(c) : abc[Len(ab) + j] = c[j]
  BY <1>0, <1>1, Joined
<1> HIDE DEF abc
<1>3. /\ abcd \in Seq(Byte) /\ Len(abcd) = Len(abc) + Len(d)
      /\ \A j \in 1..Len(abc) : abcd[j] = abc[j]
      /\ \A j \in 1..Len(d) : abcd[Len(abc) + j] = d[j]
  BY <1>0, <1>2, Joined
<1>7. abcd = a \o b \o c \o d
  BY DEF abc, ab
<1> HIDE DEF abcd
<1>4. Len(ab) = 8 /\ Len(abc) = 12 /\ Len(abcd) = 16
  BY <1>0, <1>1, <1>2, <1>3
<1>5. ASSUME NEW j \in 1..4
      PROVE  abcd[j] = a[j] /\ abcd[4 + j] = b[j] /\ abcd[8 + j] = c[j] /\ abcd[12 + j] = d[j]
  <2>1. /\ j \in 1..8 /\ j \in 1..12 /\ 4 + j \in 1..8 /\ 4 + j \in 1..12 /\ 8 + j \in 1..12
    OBVIOUS
  <2>2. ab[j] = a[j] /\ ab[4 + j] = b[j]
    BY <1>0, <1>1
  <2>3. abc[j] = ab[j] /\ abc[4 + j] = ab[4 + j] /\ abc[8 + j] = c[j]
    BY <1>0, <1>2, <1>4, <2>1
  <2>4. abcd[j] = abc[j] /\ abcd[4 + j] = abc[4 + j] /\ abcd[8 + j] = abc[8 + j]
    BY <1>3, <1>4, <2>1
  <2>5. abcd[12 + j] = d[j]
    BY <1>0, <1>3, <1>4
  <2> QED BY <2>2, <2>3, <2>4, <2>5, Zenon
<1>6. Row(abcd, a, b, c, d)
  BY <1>3, <1>4, <1>5 DEF Row
<1> QED BY <1>6, <1>7, Zenon

(* A field holds the number whose bytes were copied there. *)
LEMMA FieldBytes ==
    ASSUME NEW buf, NEW i \in Nat, NEW n \in Uints,
           buf[4 * i + 1] = Bytes(n)[1], buf[4 * i + 2] = Bytes(n)[2],
           buf[4 * i + 3] = Bytes(n)[3], buf[4 * i + 4] = Bytes(n)[4]
    PROVE  Field(buf, i) = n
<1> DEFINE b == [j \in 1..4 |-> buf[4 * i + j]]
<1>1. b[1] = Bytes(n)[1] /\ b[2] = Bytes(n)[2] /\ b[3] = Bytes(n)[3] /\ b[4] = Bytes(n)[4]
  OBVIOUS
<1>2. Field(buf, i) = Uint(b)
  BY DEF Field, UintSize
<1> HIDE DEF b
<1>3. Uint(b) = Uint(Bytes(n))
  BY <1>1 DEF Uint
<1> QED BY <1>2, <1>3, UintBytes

LEMMA FieldsAt ==
    ASSUME NEW msg, NEW f0 \in Uints, NEW f1 \in Uints, NEW f2 \in Uints, NEW f3 \in Uints,
           \A j \in 1..4 : /\ msg[j] = Bytes(f0)[j] /\ msg[4 + j] = Bytes(f1)[j]
                           /\ msg[8 + j] = Bytes(f2)[j] /\ msg[12 + j] = Bytes(f3)[j]
    PROVE  Field(msg, 0) = f0 /\ Field(msg, 1) = f1 /\ Field(msg, 2) = f2 /\ Field(msg, 3) = f3
<1>1. Field(msg, 0) = f0
  <2>1. /\ msg[4 * 0 + 1] = Bytes(f0)[1] /\ msg[4 * 0 + 2] = Bytes(f0)[2]
        /\ msg[4 * 0 + 3] = Bytes(f0)[3] /\ msg[4 * 0 + 4] = Bytes(f0)[4]
    OBVIOUS
  <2> QED BY <2>1, FieldBytes
<1>2. Field(msg, 1) = f1
  <2>1. /\ msg[4 * 1 + 1] = Bytes(f1)[1] /\ msg[4 * 1 + 2] = Bytes(f1)[2]
        /\ msg[4 * 1 + 3] = Bytes(f1)[3] /\ msg[4 * 1 + 4] = Bytes(f1)[4]
    OBVIOUS
  <2> QED BY <2>1, FieldBytes
<1>3. Field(msg, 2) = f2
  <2>1. /\ msg[4 * 2 + 1] = Bytes(f2)[1] /\ msg[4 * 2 + 2] = Bytes(f2)[2]
        /\ msg[4 * 2 + 3] = Bytes(f2)[3] /\ msg[4 * 2 + 4] = Bytes(f2)[4]
    OBVIOUS
  <2> QED BY <2>1, FieldBytes
<1>4. Field(msg, 3) = f3
  <2>1. /\ msg[4 * 3 + 1] = Bytes(f3)[1] /\ msg[4 * 3 + 2] = Bytes(f3)[2]
        /\ msg[4 * 3 + 3] = Bytes(f3)[3] /\ msg[4 * 3 + 4] = Bytes(f3)[4]
    OBVIOUS
  <2> QED BY <2>1, FieldBytes
<1> QED BY <1>1, <1>2, <1>3, <1>4

(* The four fields that every message begins with. *)
Header(f0, f1, f2, f3) == Bytes(f0) \o Bytes(f1) \o Bytes(f2) \o Bytes(f3)

LEMMA HeaderRow ==
    ASSUME NEW f0 \in Nat, NEW f1 \in Nat, NEW f2 \in Nat, NEW f3 \in Nat
    PROVE  Row(Header(f0, f1, f2, f3), Bytes(f0), Bytes(f1), Bytes(f2), Bytes(f3))
<1>1. IsUint(Bytes(f0)) /\ IsUint(Bytes(f1)) /\ IsUint(Bytes(f2)) /\ IsUint(Bytes(f3))
  BY BytesSeq DEF IsUint
<1> QED BY <1>1, Joined4, Zenon DEF Header

LEMMA HeaderSeq ==
    ASSUME NEW f0 \in Nat, NEW f1 \in Nat, NEW f2 \in Nat, NEW f3 \in Nat
    PROVE  Header(f0, f1, f2, f3) \in Seq(Byte) /\ Len(Header(f0, f1, f2, f3)) = 16
BY HeaderRow DEF Row

(* A message of these fields and what follows them. *)
IsMessage(m, f0, f1, f2, f3, rest) ==
    /\ m \in Seq(Byte) /\ Len(m) = 16 + Len(rest)
    /\ Field(m, 0) = f0 /\ Field(m, 1) = f1 /\ Field(m, 2) = f2 /\ Field(m, 3) = f3
    /\ \A j \in 1..Len(rest) : m[16 + j] = rest[j]

LEMMA HeaderFields ==
    ASSUME NEW f0 \in Uints, NEW f1 \in Uints, NEW f2 \in Uints, NEW f3 \in Uints,
           NEW rest \in Seq(Byte)
    PROVE  IsMessage(Header(f0, f1, f2, f3) \o rest, f0, f1, f2, f3, rest)
<1> DEFINE h == Header(f0, f1, f2, f3)
<1>0. f0 \in Nat /\ f1 \in Nat /\ f2 \in Nat /\ f3 \in Nat
  BY DEF Uints
<1>1. /\ h \in Seq(Byte) /\ Len(h) = 16
      /\ \A j \in 1..4 : /\ h[j] = Bytes(f0)[j] /\ h[4 + j] = Bytes(f1)[j]
                          /\ h[8 + j] = Bytes(f2)[j] /\ h[12 + j] = Bytes(f3)[j]
  BY <1>0, HeaderRow DEF Row
<1> HIDE DEF h
<1>2. /\ h \o rest \in Seq(Byte) /\ Len(h \o rest) = Len(h) + Len(rest)
      /\ \A j \in 1..Len(h) : (h \o rest)[j] = h[j]
      /\ \A j \in 1..Len(rest) : (h \o rest)[Len(h) + j] = rest[j]
  BY <1>1, Joined
<1>4. PICK m : m = h \o rest
  OBVIOUS
<1>5. /\ m \in Seq(Byte) /\ Len(m) = 16 + Len(rest)
      /\ \A j \in 1..16 : m[j] = h[j]
      /\ \A j \in 1..Len(rest) : m[16 + j] = rest[j]
  BY <1>1, <1>2, <1>4
<1>6. \A j \in 1..4 : /\ m[j] = Bytes(f0)[j] /\ m[4 + j] = Bytes(f1)[j]
                      /\ m[8 + j] = Bytes(f2)[j] /\ m[12 + j] = Bytes(f3)[j]
  <2>1. \A j \in 1..4 : j \in 1..16 /\ 4 + j \in 1..16 /\ 8 + j \in 1..16 /\ 12 + j \in 1..16
    OBVIOUS
  <2>2. \A j \in 1..4 : /\ m[j] = h[j] /\ m[4 + j] = h[4 + j]
                        /\ m[8 + j] = h[8 + j] /\ m[12 + j] = h[12 + j]
    BY <1>5, <2>1, Zenon
  <2> QED BY <1>1, <2>2, Zenon
<1>7. Field(m, 0) = f0 /\ Field(m, 1) = f1 /\ Field(m, 2) = f2 /\ Field(m, 3) = f3
  BY <1>6, FieldsAt
<1>8. IsMessage(m, f0, f1, f2, f3, rest)
  BY <1>5, <1>7 DEF IsMessage
<1> QED BY <1>4, <1>8 DEF h

(***************************************************************************)
(* What the make operators make.                                           *)
(***************************************************************************)
LEMMA Whole ==
    ASSUME NEW s \in Seq(Byte), NEW n, n = Len(s)
    PROVE  Filled(n, s) = [ret |-> 0, msg |-> s, past |-> 0]
<1>1. SubSeq(s, 1, Len(s)) = s /\ Len(s) \in Nat
  BY SubSeqFull, LenProperties
<1> QED BY <1>1 DEF Filled

(* What lies behind the first k bytes. *)
LEMMA Rest ==
    ASSUME NEW s \in Seq(Byte), NEW rest \in Seq(Byte), NEW k \in Nat, Len(s) = k + Len(rest),
           \A j \in 1..Len(rest) : s[k + j] = rest[j]
    PROVE  SubSeq(s, k + 1, Len(s)) = rest
<1>1. Len(rest) \in Nat /\ rest = [j \in 1..Len(rest) |-> rest[j]]
  BY LenProperties
<1> DEFINE u == SubSeq(s, k + 1, Len(s))
<1>2. /\ k + 1 \in 1..(Len(s) + 1) /\ Len(s) \in Nat
      /\ Len(s) - (k + 1) + 1 = Len(rest) /\ (~(k + 1 <= Len(s)) => Len(rest) = 0)
  BY <1>1
<1>3. /\ u \in Seq(Byte) /\ Len(u) = Len(rest)
      /\ \A j \in 1..(Len(s) - (k + 1) + 1) : u[j] = s[(k + 1) + j - 1]
  <2>1. \A i \in (k + 1)..Len(s) : s[i] \in Byte
    BY <1>2, ElementOfSeq
  <2>2. k + 1 \in Int /\ Len(s) \in Int
    BY <1>2
  <2>3. /\ u \in Seq(Byte) /\ Len(u) = IF k + 1 <= Len(s) THEN Len(s) - (k + 1) + 1 ELSE 0
        /\ \A j \in 1..(Len(s) - (k + 1) + 1) : u[j] = s[(k + 1) + j - 1]
    BY <2>1, <2>2, SubSeqProperties
  <2> QED BY <1>2, <2>3
<1> HIDE DEF u
<1>4. \A j \in 1..Len(rest) : u[j] = rest[j]
  <2> TAKE j \in 1..Len(rest)
  <2>1. (k + 1) + j - 1 = k + j BY <1>1
  <2>2. u[j] = s[(k + 1) + j - 1] BY <1>2, <1>3
  <2> QED BY <2>1, <2>2
<1>5. u = rest
  BY <1>3, <1>4, SeqEqual
<1> QED BY <1>5 DEF u

(* makeAPIRequest for any data: how many bytes it makes, and writes behind them. *)
LEMMA RequestPast ==
    ASSUME NEW id \in Uints, NEW cmd \in Uints, NEW data \in Seq(Byte), data # <<>>
    PROVE  makeAPIRequest(id, cmd, data).past = (16 + Len(data)) - ((16 + Len(data)) % UintMod)
<1> DEFINE n == 16 + Len(data)
           total == n % UintMod
           h == Header(total, id, cmd, Len(data))
<1>1. n \in Nat /\ Len(data) \in Nat
  BY LenProperties
<1>2. total \in Nat
  BY <1>1, UintModNat, DivMod
<1>3. id \in Nat /\ cmd \in Nat
  BY DEF Uints
<1>4. h \in Seq(Byte) /\ Len(h) = 16
  BY <1>1, <1>2, <1>3, HeaderSeq
<1>5. makeAPIRequest(id, cmd, data).past = Len(h \o data) - total
  BY DEF makeAPIRequest, Filled, Header, UintSize
<1> HIDE DEF h
<1>6. Len(h \o data) = Len(h) + Len(data)
  BY <1>4, Joined, Zenon
<1>7. Len(h \o data) = n
  BY <1>4, <1>6
<1> QED BY <1>5, <1>7

(* One that fits in 32 bits. *)
LEMMA RequestMade ==
    ASSUME NEW id \in Uints, NEW cmd \in Uints, NEW data \in Seq(Byte), data # <<>>,
           16 + Len(data) < UintMod, NEW req, req = makeAPIRequest(id, cmd, data)
    PROVE  /\ req.ret = 0 /\ req.past = 0
           /\ req.msg \in Seq(Byte) /\ Len(req.msg) = 16 + Len(data)
           /\ Field(req.msg, 0) = Len(req.msg)
           /\ SubSeq(req.msg, 17, Len(req.msg)) = data
           /\ parseRequest(req.msg) = [ret |-> 0, msgId |-> id, cmd |-> cmd,
                                       cmdDataLen |-> Len(data), cmdData |-> 16]
<1> DEFINE n == 16 + Len(data)
           h == Header(n, id, cmd, Len(data))
<1>1. n \in Uints /\ Len(data) \in Uints /\ Len(data) \in Nat
  BY LenProperties, UintModNat DEF Uints
<1>2. n % UintMod = n
  BY <1>1, UintModNat DEF Uints
<1>3. PICK m : m = h \o data
  OBVIOUS
<1>4. req = Filled(n, h \o data)
  BY <1>2 DEF makeAPIRequest, Header, UintSize
<1>5. /\ m \in Seq(Byte) /\ Len(m) = 16 + Len(data)
      /\ Field(m, 0) = n /\ Field(m, 1) = id /\ Field(m, 2) = cmd /\ Field(m, 3) = Len(data)
      /\ \A j \in 1..Len(data) : m[16 + j] = data[j]
  <2>1. m = Header(n, id, cmd, Len(data)) \o data
    BY <1>3
  <2> HIDE DEF n, h
  <2>2. IsMessage(m, n, id, cmd, Len(data), data)
    BY <1>1, <2>1, HeaderFields
  <2> QED BY <2>2 DEF IsMessage
<1>6. req = [ret |-> 0, msg |-> m, past |-> 0]
  BY <1>3, <1>4, <1>5, Whole
<1>7. SubSeq(m, 16 + 1, Len(m)) = data
  BY <1>5, Rest
<1>8. parseRequest(m) = [ret |-> 0, msgId |-> id, cmd |-> cmd,
                         cmdDataLen |-> Len(data), cmdData |-> 16]
  BY <1>1, <1>5 DEF parseRequest, UintSize
<1>9. req.ret = 0 /\ req.past = 0 /\ req.msg = m
  BY <1>6
<1> HIDE DEF n, h
<1>10. 16 + 1 = 17
  OBVIOUS
<1>11. Field(m, 0) = Len(m)
  BY <1>5 DEF n
<1> QED BY <1>5, <1>7, <1>8, <1>9, <1>10, <1>11

(* makeAPIResponse has one field more, the length of the data. *)
LEMMA ResponseBytes ==
    ASSUME NEW id \in Uints, NEW cmd \in Uints, NEW data \in Seq(Byte)
    PROVE  LET total == (20 + Len(data)) % UintMod IN
           makeAPIResponse(id, cmd, data)
             = Filled(total, Header(total, id, cmd, 0) \o (Bytes(Len(data)) \o data))
<1> DEFINE total == (20 + Len(data)) % UintMod
           h == Header(total, id, cmd, 0)
<1>1. Len(data) \in Nat /\ 20 + Len(data) \in Nat
  BY LenProperties
<1>2. total \in Nat
  BY <1>1, UintModNat, DivMod
<1>3. id \in Nat /\ cmd \in Nat /\ 0 \in Nat
  BY DEF Uints
<1>4. h \in Seq(Byte) /\ Bytes(Len(data)) \in Seq(Byte)
  <2> HIDE DEF total
  <2>1. h \in Seq(Byte)
    BY <1>2, <1>3, HeaderSeq, Zenon
  <2>2. Bytes(Len(data)) \in Seq(Byte)
    BY <1>1, BytesSeq, Zenon
  <2> QED BY <2>1, <2>2
<1>5. makeAPIResponse(id, cmd, data) = Filled(total, (h \o Bytes(Len(data))) \o data)
  BY DEF makeAPIResponse, RespSize, Header, UintSize
<1> HIDE DEF h, total
<1>6. (h \o Bytes(Len(data))) \o data = h \o (Bytes(Len(data)) \o data)
  BY <1>4, ConcatAssociative
<1> QED BY <1>5, <1>6 DEF h, total

LEMMA ResponsePast ==
    ASSUME NEW id \in Uints, NEW cmd \in Uints, NEW data \in Seq(Byte)
    PROVE  makeAPIResponse(id, cmd, data).past = (20 + Len(data)) - ((20 + Len(data)) % UintMod)
<1> DEFINE n == 20 + Len(data)
           total == n % UintMod
           h == Header(total, id, cmd, 0)
           b == Bytes(Len(data))
<1>1. n \in Nat /\ Len(data) \in Nat
  BY LenProperties
<1>2. total \in Nat
  BY <1>1, UintModNat, DivMod
<1>3. id \in Nat /\ cmd \in Nat /\ 0 \in Nat
  BY DEF Uints
<1>4. h \in Seq(Byte) /\ Len(h) = 16 /\ b \in Seq(Byte) /\ Len(b) = 4
  <2> HIDE DEF total, n
  <2>1. h \in Seq(Byte) /\ Len(h) = 16
    BY <1>2, <1>3, HeaderSeq, Zenon
  <2>2. b \in Seq(Byte) /\ Len(b) = 4
    BY <1>1, BytesSeq, Zenon
  <2> QED BY <2>1, <2>2
<1>5. makeAPIResponse(id, cmd, data).past = Len(h \o (b \o data)) - total
  BY ResponseBytes DEF Filled
<1> HIDE DEF h, b
<1>6. b \o data \in Seq(Byte) /\ Len(b \o data) = Len(b) + Len(data)
  BY <1>4, Joined, Zenon
<1>7. Len(h \o (b \o data)) = Len(h) + Len(b \o data)
  <2>1. PICK r : r = b \o data
    OBVIOUS
  <2>2. r \in Seq(Byte)
    BY <1>6, <2>1
  <2>3. Len(h \o r) = Len(h) + Len(r)
    BY <1>4, <2>2, Joined
  <2> QED BY <2>1, <2>3, Zenon
<1>8. Len(h \o (b \o data)) = n
  BY <1>1, <1>4, <1>6, <1>7
<1> QED BY <1>5, <1>8

LEMMA ResponseMade ==
    ASSUME NEW id \in Uints, NEW cmd \in Uints, NEW data \in Seq(Byte),
           20 + Len(data) < UintMod, NEW resp, resp = makeAPIResponse(id, cmd, data), NEW junk
    PROVE  /\ resp.ret = 0 /\ resp.past = 0
           /\ resp.msg \in Seq(Byte) /\ Len(resp.msg) = 20 + Len(data)
           /\ Field(resp.msg, 0) = Len(resp.msg)
           /\ SubSeq(resp.msg, 21, Len(resp.msg)) = data
           /\ junk \in Seq(Byte) =>
                parseResponse(resp.msg, junk)
                  = [ret |-> 0, msgId |-> id, cmd |-> cmd, result |-> 0,
                     cmdDataLen |-> Len(data), cmdData |-> 20]
<1> DEFINE n == 20 + Len(data)
           h == Header(n, id, cmd, 0)
           b == Bytes(Len(data))
<1>1. /\ n \in Uints /\ Len(data) \in Uints /\ Len(data) \in Nat /\ 0 \in Uints
      /\ n % UintMod = n
  BY LenProperties, UintModNat DEF Uints
<1>2. b \in Seq(Byte) /\ Len(b) = 4
  BY <1>1, BytesSeq
<1>3. PICK r : r = b \o data
  OBVIOUS
<1>4. /\ r \in Seq(Byte) /\ Len(r) = 4 + Len(data)
      /\ \A j \in 1..4 : r[j] = b[j]
      /\ \A j \in 1..Len(data) : r[4 + j] = data[j]
  <2> HIDE DEF b
  <2>1. /\ b \o data \in Seq(Byte) /\ Len(b \o data) = Len(b) + Len(data)
        /\ \A j \in 1..Len(b) : (b \o data)[j] = b[j]
        /\ \A j \in 1..Len(data) : (b \o data)[Len(b) + j] = data[j]
    BY <1>2, Joined
  <2> QED BY <1>2, <1>3, <2>1
<1>5. PICK m : m = h \o r
  OBVIOUS
<1>6. /\ m \in Seq(Byte) /\ Len(m) = 16 + Len(r)
      /\ Field(m, 0) = n /\ Field(m, 1) = id /\ Field(m, 2) = cmd /\ Field(m, 3) = 0
      /\ \A j \in 1..Len(r) : m[16 + j] = r[j]
  <2>1. m = Header(n, id, cmd, 0) \o r
    BY <1>5
  <2> HIDE DEF n, h
  <2>2. IsMessage(m, n, id, cmd, 0, r)
    BY <1>1, <1>4, <2>1, HeaderFields
  <2> QED BY <2>2 DEF IsMessage
<1>7. resp = Filled(n, m)
  BY <1>1, <1>3, <1>5, ResponseBytes
<1> HIDE DEF h
<1>8. Len(m) = n /\ n = 20 + Len(data) /\ n >= 20
  BY <1>1, <1>4, <1>6
<1>9. resp = [ret |-> 0, msg |-> m, past |-> 0]
  BY <1>6, <1>7, <1>8, Whole
<1>10. \A j \in 1..Len(data) : m[20 + j] = data[j]
  <2> TAKE j \in 1..Len(data)
  <2>1. 4 + j \in 1..Len(r) /\ 16 + (4 + j) = 20 + j
    BY <1>1, <1>4
  <2> QED BY <1>4, <1>6, <2>1
<1>11. SubSeq(m, 20 + 1, Len(m)) = data
  BY <1>6, <1>8, <1>10, Rest
<1>12. ASSUME junk \in Seq(Byte)
       PROVE  Field(m \o junk, 4) = Len(data)
  <2>1. PICK w : w = m \o junk
    OBVIOUS
  <2>2. \A j \in 1..Len(m) : w[j] = m[j]
    BY <1>6, <1>12, <2>1, Joined
  <2>3. \A j \in 1..4 : w[16 + j] = b[j]
    <3> TAKE j \in 1..4
    <3>1. 16 + j \in 1..Len(m) /\ j \in 1..Len(r)
      BY <1>1, <1>4, <1>8
    <3> QED BY <1>4, <1>6, <2>2, <3>1
  <2>4. /\ w[4 * 4 + 1] = b[1] /\ w[4 * 4 + 2] = b[2]
        /\ w[4 * 4 + 3] = b[3] /\ w[4 * 4 + 4] = b[4]
    <3> HIDE DEF b
    <3> QED BY <2>3
  <2>5. Field(w, 4) = Len(data)
    BY <1>1, <2>4, FieldBytes
  <2> QED BY <2>1, <2>5
<1>13. ASSUME junk \in Seq(Byte)
       PROVE  parseResponse(m, junk)
                = [ret |-> 0, msgId |-> id, cmd |-> cmd, result |-> 0,
                   cmdDataLen |-> Len(data), cmdData |-> 20]
  <2>1. ~(Len(m) < UintSize * 4) /\ UintSize * 5 = 20
    BY <1>8 DEF UintSize
  <2> QED BY <1>6, <1>12, <1>13, <2>1 DEF parseResponse
<1>14. resp.ret = 0 /\ resp.past = 0 /\ resp.msg = m
  BY <1>9
<1> HIDE DEF n
<1>15. 20 + 1 = 21
  OBVIOUS
<1> QED BY <1>6, <1>8, <1>11, <1>13, <1>14, <1>15

(* An error response is the four fields alone. *)
IsError(err, id, cmd, errCode) ==
    /\ err.ret = 0 /\ err.past = 0
    /\ Len(err.msg) = 16 /\ Field(err.msg, 0) = 16
    /\ \A junk : parseResponse(err.msg, junk)
                   = [ret |-> 0, msgId |-> id, cmd |-> cmd, result |-> errCode,
                      cmdDataLen |-> 0, cmdData |-> 0]

LEMMA ErrorMade ==
    ASSUME NEW id \in Uints, NEW cmd \in Uints, NEW errCode \in Uints \ {0}, 16 < UintMod
    PROVE  IsError(makeErrResponse(id, cmd, errCode), id, cmd, errCode)
<1> DEFINE err == makeErrResponse(id, cmd, errCode)
<1>1. 16 \in Uints
  BY UintModNat DEF Uints
<1>2. PICK m : m = Header(16, id, cmd, errCode)
  OBVIOUS
<1>3. m \in Seq(Byte) /\ Len(m) = 16
  BY <1>2, HeaderSeq, UintModNat DEF Uints
<1>4. <<>> \in Seq(Byte) /\ m \o <<>> = m
  BY <1>3, ConcatEmptySeq
<1>5. IsMessage(m \o <<>>, 16, id, cmd, errCode, <<>>)
  BY <1>1, <1>2, <1>4, HeaderFields
<1>6. Field(m, 0) = 16 /\ Field(m, 1) = id /\ Field(m, 2) = cmd /\ Field(m, 3) = errCode
  BY <1>4, <1>5 DEF IsMessage
<1>7. err = Filled(16, m)
  BY <1>2 DEF makeErrResponse, Header, UintSize
<1>8. err = [ret |-> 0, msg |-> m, past |-> 0]
  BY <1>3, <1>7, Whole
<1>9. \A junk : parseResponse(m, junk)
                   = [ret |-> 0, msgId |-> id, cmd |-> cmd, result |-> errCode,
                      cmdDataLen |-> 0, cmdData |-> 0]
  BY <1>3, <1>6 DEF parseResponse, UintSize
<1> HIDE DEF err
<1>10. IsError(err, id, cmd, errCode)
  BY <1>3, <1>6, <1>8, <1>9 DEF IsError
<1> QED BY <1>10 DEF err
===============================================================================
