--------------------------- MODULE ClientAnswerProofs ---------------------------
(***************************************************************************)
(* Proofs about what doConnect receives, for every number of threads, any  *)
(* request and answer that fit in 32 bits, any buffer size and all faults. *)
(***************************************************************************)
EXTENDS ClientProofs, ProtocolProofs

(***************************************************************************)
(* The server's answer.                                                    *)
(***************************************************************************)
Full(n) == makeAPIResponse(n, EAC_API1, Answer).msg

LEMMA WordSizes ==
    /\ UintMod \in Nat /\ UintMod > 20 /\ EAC_API1 \in Uints /\ Uints \subseteq Nat
    /\ SizeMod \in Nat /\ SizeMod >= 2 * UintMod
<1>1. UintMod \in Nat
  BY UintModNat
<1>2. Len(Answer) \in Nat
  BY ClientAssumption
<1>3. UintMod > 20
  BY <1>1, <1>2, ClientAssumption DEF UintSize
<1>4. \A a \in Nat : a > 20 => a * a >= 2 * a /\ a * a \in Nat
  OBVIOUS
<1>5. SizeMod \in Nat /\ SizeMod >= 2 * UintMod
  BY <1>1, <1>3, <1>4 DEF SizeMod
<1> QED BY <1>1, <1>3, <1>5 DEF EAC_API1, Uints

LEMMA FullAnswer ==
    ASSUME NEW n \in Uints
    PROVE  /\ Full(n) \in Seq(Byte) /\ Len(Full(n)) = 20 + Len(Answer)
           /\ Field(Full(n), 0) = Len(Full(n))
           /\ \A junk \in Seq(Byte) :
                parseResponse(Full(n), junk)
                  = [ret |-> 0, msgId |-> n, cmd |-> EAC_API1, result |-> 0,
                     cmdDataLen |-> Len(Answer), cmdData |-> 20]
<1> DEFINE r == makeAPIResponse(n, EAC_API1, Answer)
<1>1. Answer \in Seq(Byte) /\ 20 + Len(Answer) < UintMod /\ EAC_API1 \in Uints
  BY ClientAssumption, WordSizes DEF UintSize
<1>2. ASSUME NEW junk \in Seq(Byte)
      PROVE  /\ r.ret = 0 /\ r.past = 0
             /\ r.msg \in Seq(Byte) /\ Len(r.msg) = 20 + Len(Answer)
             /\ Field(r.msg, 0) = Len(r.msg)
             /\ SubSeq(r.msg, 21, Len(r.msg)) = Answer
             /\ junk \in Seq(Byte) =>
                  parseResponse(r.msg, junk)
                    = [ret |-> 0, msgId |-> n, cmd |-> EAC_API1, result |-> 0,
                       cmdDataLen |-> Len(Answer), cmdData |-> 20]
  BY <1>1, ResponseMade
<1>3. \E junk : junk \in Seq(Byte)
  BY <1>1
<1> QED BY <1>2, <1>3 DEF Full

(* The server parses the id the thread put into its request. *)
LEMMA ServedFull ==
    ASSUME NEW t, id[t] \in Uints
    PROVE  Served(Req(t)) = Full(id[t])
<1> DEFINE q == makeAPIRequest(id[t], EAC_API1, CmdData)
<1>1. /\ CmdData \in Seq(Byte) /\ CmdData # <<>> /\ 16 + Len(CmdData) < UintMod
      /\ EAC_API1 \in Uints
  BY ClientAssumption, WordSizes DEF UintSize
<1>2. /\ q.ret = 0 /\ q.past = 0
      /\ q.msg \in Seq(Byte) /\ Len(q.msg) = 16 + Len(CmdData)
      /\ Field(q.msg, 0) = Len(q.msg)
      /\ SubSeq(q.msg, 17, Len(q.msg)) = CmdData
      /\ parseRequest(q.msg) = [ret |-> 0, msgId |-> id[t], cmd |-> EAC_API1,
                                cmdDataLen |-> Len(CmdData), cmdData |-> 16]
  BY <1>1, RequestMade
<1>3. Req(t) = q.msg
  BY DEF Req
<1> HIDE DEF q
<1> QED BY <1>2, <1>3 DEF Served, Full

(***************************************************************************)
(* A round of the receive loop.                                            *)
(***************************************************************************)
Ack(buf) == Uint(SubSeq(buf \o <<0, 0, 0, 0>>, 1, UintSize))

LEMMA AckRange ==
    ASSUME NEW buf \in Seq(Byte)
    PROVE  /\ Ack(buf) \in Uints
           /\ Len(buf) >= 4 => Ack(buf) = Field(buf, 0)
           /\ buf = <<>> => Ack(buf) = 0
<1> DEFINE z == <<0, 0, 0, 0>>
<1>1. z \in Seq(Byte) /\ Len(z) = 4 /\ \A j \in 1..4 : z[j] = 0
  BY BaseAssumption DEF Byte
<1> HIDE DEF z
<1>2. PICK w : w = buf \o z
  OBVIOUS
<1>3. /\ w \in Seq(Byte) /\ Len(w) = Len(buf) + Len(z) /\ Len(buf) \in Nat
      /\ \A j \in 1..Len(buf) : w[j] = buf[j]
      /\ \A j \in 1..Len(z) : w[Len(buf) + j] = z[j]
  BY <1>1, <1>2, Joined, LenProperties
<1>4. PICK u : u = SubSeq(w, 1, 4)
  OBVIOUS
<1>5. \A j \in 1..4 : w[j] \in Byte
  BY <1>1, <1>3, ElementOfSeq
<1>6. \A j \in 1..4 : u[j] = w[j]
  <2>1. \A i \in 1..(4 - 1 + 1) : u[i] = w[1 + i - 1]
    BY <1>4, <1>5, SubSeqProperties
  <2> QED BY <2>1
<1>7. Ack(buf) = Uint(u)
  BY <1>2, <1>4 DEF Ack, UintSize, z
<1>8. Uint(u) \in Uints
  BY <1>5, <1>6, UintRange
<1>9. ASSUME Len(buf) >= 4 PROVE Uint(u) = Field(buf, 0)
  <2>1. u[1] = buf[1] /\ u[2] = buf[2] /\ u[3] = buf[3] /\ u[4] = buf[4]
    BY <1>3, <1>6, <1>9
  <2>2. PICK f : f = [j \in 1..4 |-> buf[4 * 0 + j]]
    OBVIOUS
  <2>3. f[1] = buf[1] /\ f[2] = buf[2] /\ f[3] = buf[3] /\ f[4] = buf[4]
    BY <2>2
  <2>4. Field(buf, 0) = Uint(f)
    BY <2>2 DEF Field, UintSize
  <2> QED BY <2>1, <2>3, <2>4 DEF Uint
<1>10. ASSUME buf = <<>> PROVE Uint(u) = 0
  <2>1. Len(buf) = 0
    BY <1>10
  <2>2. u[1] = 0 /\ u[2] = 0 /\ u[3] = 0 /\ u[4] = 0
    BY <1>1, <1>3, <1>6, <2>1
  <2>3. Base \in Nat
    BY BaseAssumption
  <2> QED BY <2>2, <2>3 DEF Uint
<1> QED BY <1>7, <1>8, <1>9, <1>10

(* Zeroes for the bytes that are not there make it no longer. *)
LEMMA AckBound ==
    ASSUME NEW s \in Seq(Byte), Len(s) >= 4, NEW n \in Nat, n <= Len(s),
           NEW buf \in Seq(Byte), Len(buf) = n, \A j \in 1..n : buf[j] = s[j]
    PROVE  Ack(buf) <= Field(s, 0)
<1> DEFINE z == <<0, 0, 0, 0>>
<1>1. z \in Seq(Byte) /\ Len(z) = 4 /\ \A j \in 1..4 : z[j] = 0
  BY BaseAssumption DEF Byte
<1> HIDE DEF z
<1>2. PICK w : w = buf \o z
  OBVIOUS
<1>3. /\ w \in Seq(Byte) /\ Len(w) = Len(buf) + Len(z)
      /\ \A j \in 1..Len(buf) : w[j] = buf[j]
      /\ \A j \in 1..Len(z) : w[Len(buf) + j] = z[j]
  BY <1>1, <1>2, Joined
<1>4. PICK u : u = SubSeq(w, 1, 4)
  OBVIOUS
<1>5. ASSUME NEW j \in 1..4 PROVE w[j] \in Byte /\ s[j] \in Byte
  <2>1. Len(s) \in Nat
    BY LenProperties
  <2>2. j \in 1..Len(w) /\ j \in 1..Len(s)
    BY <1>1, <1>3, <2>1
  <2> QED BY <1>3, <2>2, ElementOfSeq
<1>6. \A j \in 1..4 : u[j] = w[j]
  <2>1. \A i \in 1..(4 - 1 + 1) : u[i] = w[1 + i - 1]
    BY <1>4, <1>5, SubSeqProperties
  <2> QED BY <2>1
<1>7. Ack(buf) = Uint(u)
  BY <1>2, <1>4 DEF Ack, UintSize, z
<1>8. ASSUME NEW j \in 1..4 PROVE u[j] \in Nat /\ s[j] \in Nat /\ u[j] <= s[j]
  <2>1. u[j] \in Nat /\ s[j] \in Nat
    <3>1. u[j] \in Byte /\ s[j] \in Byte
      BY <1>5, <1>6
    <3> QED BY <3>1, BaseAssumption DEF Byte
  <2>2. CASE j <= n
    BY <1>3, <1>6, <2>1, <2>2
  <2>3. CASE ~(j <= n)
    <3>1. PICK i \in 1..4 : j = n + i
      <4>1. j - n \in 1..4 /\ j = n + (j - n)
        BY <2>3
      <4> QED BY <4>1
    <3>2. w[n + i] = 0
      BY <1>1, <1>3, <3>1
    <3> QED BY <1>6, <2>1, <3>1, <3>2
  <2> QED BY <2>2, <2>3
<1>9. PICK f : f = [j \in 1..4 |-> s[4 * 0 + j]]
  OBVIOUS
<1>10. f[1] = s[1] /\ f[2] = s[2] /\ f[3] = s[3] /\ f[4] = s[4]
  BY <1>9
<1>11. Field(s, 0) = Uint(f)
  BY <1>9 DEF Field, UintSize
<1>12. Base \in Nat
  BY BaseAssumption
<1>13. ASSUME NEW d \in Nat, NEW e \in Nat, d <= e, NEW x \in Nat, NEW y \in Nat, x <= y
       PROVE  d + Base * x \in Nat /\ e + Base * y \in Nat /\ d + Base * x <= e + Base * y
  <2>1. Base * x \in Nat /\ Base * y \in Nat /\ Base * x <= Base * y
    BY <1>12, <1>13
  <2> QED BY <1>13, <2>1
<1>14. /\ u[1] \in Nat /\ s[1] \in Nat /\ u[1] <= s[1]
       /\ u[2] \in Nat /\ s[2] \in Nat /\ u[2] <= s[2]
       /\ u[3] \in Nat /\ s[3] \in Nat /\ u[3] <= s[3]
       /\ u[4] \in Nat /\ s[4] \in Nat /\ u[4] <= s[4]
  BY <1>8
<1>15. PICK x3, y3 : x3 = u[3] + Base * u[4] /\ y3 = s[3] + Base * s[4]
  OBVIOUS
<1>16. PICK x2, y2 : x2 = u[2] + Base * x3 /\ y2 = s[2] + Base * y3
  OBVIOUS
<1>17. x3 \in Nat /\ y3 \in Nat /\ x3 <= y3
  BY <1>13, <1>14, <1>15
<1>18. x2 \in Nat /\ y2 \in Nat /\ x2 <= y2
  BY <1>13, <1>14, <1>16, <1>17
<1>19. u[1] + Base * x2 <= s[1] + Base * y2
  BY <1>13, <1>14, <1>18
<1>20. Uint(u) = u[1] + Base * x2 /\ Uint(f) = s[1] + Base * y2
  BY <1>10, <1>15, <1>16 DEF Uint
<1> QED BY <1>7, <1>11, <1>19, <1>20

(* What recv has left in a thread's hands.  The server sends one answer, to  *)
(* the id the thread sent.  A response of which more is expected is as long  *)
(* as what recv returned so far, and the length it is to have, wherever the  *)
(* four bytes of that length were cut, is no longer than the answer.         *)
RespOK(t) ==
    /\ pc[t] \notin Replied => reply[t] = <<>> /\ pos[t] = 0 /\ ackLen[t] = 0
    /\ reply[t] = <<>> \/ reply[t] = Full(id[t])
    /\ pc[t] = "recv" /\ ackLen[t] = 0 => pos[t] = 0
    /\ pc[t] = "throw" => ackLen[t] # 0
    /\ ackLen[t] # 0 => /\ Len(resp[t]) = pos[t] /\ 1 <= pos[t]
                        /\ pos[t] < ackLen[t] /\ ackLen[t] <= Len(reply[t])

TypeInv == TypeOK /\ \A t \in Thread : RespOK(t)

(* A step of one thread leaves the others' alone. *)
Others(t) == \A u \in Thread \ {t} :
    /\ pc'[u] = pc[u] /\ id'[u] = id[u] /\ reply'[u] = reply[u] /\ pos'[u] = pos[u]
    /\ ackLen'[u] = ackLen[u] /\ resp'[u] = resp[u] /\ parsed'[u] = parsed[u]

LEMMA RespByThread ==
    ASSUME TypeInv, NEW t \in Thread, Others(t), RespOK(t)', TypeOK'
    PROVE  TypeInv'
<1>1. ASSUME NEW u \in Thread, u # t PROVE RespOK(u)'
  <2>1. /\ pc'[u] = pc[u] /\ id'[u] = id[u] /\ reply'[u] = reply[u] /\ pos'[u] = pos[u]
        /\ ackLen'[u] = ackLen[u] /\ resp'[u] = resp[u] /\ parsed'[u] = parsed[u]
    BY <1>1 DEF Others
  <2>2. RespOK(u)
    BY DEF TypeInv
  <2> QED BY <2>1, <2>2 DEF RespOK
<1> QED BY <1>1 DEF TypeInv

LEMMA ReplyLen ==
    ASSUME TypeInv, NEW t \in Thread
    PROVE  reply[t] \in Seq(Byte) /\ Len(reply[t]) \in Nat /\ Len(reply[t]) < UintMod
<1>1. id[t] \in Uints /\ reply[t] \in Seq(Byte) /\ (reply[t] = <<>> \/ reply[t] = Full(id[t]))
  BY DEF TypeInv, TypeOK, RespOK, Uints
<1>2. Len(Answer) \in Nat /\ 20 + Len(Answer) < UintMod
  BY ClientAssumption, WordSizes DEF UintSize
<1>3. Len(Full(id[t])) = 20 + Len(Answer)
  BY <1>1, FullAnswer
<1>4. CASE reply[t] = <<>> BY <1>1, <1>4, WordSizes
<1>5. CASE reply[t] = Full(id[t]) BY <1>1, <1>2, <1>3, <1>5
<1> QED BY <1>1, <1>4, <1>5

(* The sums of a round do not wrap, except that of an empty response and -1. *)
LEMMA NoWrap ==
    ASSUME NEW k \in Nat, k < 2 * UintMod
    PROVE  k % SizeMod = k
<1>1. SizeMod \in Nat /\ k < SizeMod
  BY WordSizes
<1> QED BY <1>1

(* What recv returned, and what it is put behind. *)
Piece(t, n) == SubSeq(reply[t], pos[t] + 1, pos[t] + n)
Held(t)     == IF ackLen[t] = 0 THEN <<>> ELSE resp[t]
Total(t, n) == IF ackLen[t] = 0 THEN Ack(Piece(t, n)) ELSE ackLen[t]

LEMMA PieceSeq ==
    ASSUME NEW s \in Seq(Byte), NEW p \in Nat, NEW n \in Nat, p + n <= Len(s)
    PROVE  /\ SubSeq(s, p + 1, p + n) \in Seq(Byte)
           /\ Len(SubSeq(s, p + 1, p + n)) = n
           /\ \A j \in 1..n : SubSeq(s, p + 1, p + n)[j] = s[p + j]
<1> DEFINE u == SubSeq(s, p + 1, p + n)
<1>1. Len(s) \in Nat
  BY LenProperties
<1>2. p + 1 \in Int /\ p + n \in Int /\ \A i \in (p + 1)..(p + n) : s[i] \in Byte
  BY <1>1, ElementOfSeq
<1>3. /\ u \in Seq(Byte)
      /\ Len(u) = IF p + 1 <= p + n THEN (p + n) - (p + 1) + 1 ELSE 0
      /\ \A i \in 1..((p + n) - (p + 1) + 1) : u[i] = s[(p + 1) + i - 1]
  BY <1>2, SubSeqProperties
<1> HIDE DEF u
<1>4. (p + n) - (p + 1) + 1 = n /\ (p + 1 <= p + n <=> n >= 1)
  OBVIOUS
<1>5. Len(u) = n
  BY <1>3, <1>4
<1>6. ASSUME NEW j \in 1..n PROVE u[j] = s[p + j]
  <2>1. (p + 1) + j - 1 = p + j
    OBVIOUS
  <2> QED BY <1>3, <1>4, <2>1
<1> QED BY <1>3, <1>5, <1>6 DEF u

LEMMA DataRound ==
    ASSUME TypeInv, NEW t \in Thread, NEW n \in 1..SOCKETBUFFER_SIZE, RecvData(t, n)
    PROVE  /\ pc[t] = "recv" /\ n \in Nat /\ n >= 1
           /\ pos[t] \in Nat /\ pos[t] + n <= Len(reply[t])
           /\ SplitHeader \/ pos[t] > 0 \/ n >= 4
           /\ Piece(t, n) \in Seq(Byte) /\ Len(Piece(t, n)) = n
           /\ Held(t) \in Seq(Byte) /\ Total(t, n) \in Uints
           /\ pos' = [pos EXCEPT ![t] = pos[t] + n]
           /\ \/ /\ Len(Held(t)) + n < Total(t, n)
                 /\ pc' = [pc EXCEPT ![t] = "recv"]
                 /\ resp' = [resp EXCEPT ![t] = Held(t) \o Piece(t, n)]
                 /\ ackLen' = [ackLen EXCEPT ![t] = Total(t, n)]
              \/ /\ Len(Held(t)) + n >= Total(t, n)
                 /\ pc' = [pc EXCEPT ![t] = "close"]
                 /\ resp' = [resp EXCEPT ![t] =
                               Held(t) \o SubSeq(Piece(t, n), 1, Total(t, n) - Len(Held(t)))]
                 /\ ackLen' = [ackLen EXCEPT ![t] = 0]
           /\ UNCHANGED <<main, object, ids, open, reply, parsed>>
<1>1. SOCKETBUFFER_SIZE \in Nat
  BY ClientAssumption
<1>2. n \in Nat /\ n >= 1 /\ ~(n < 0)
  BY <1>1
<1>3. /\ pos[t] \in Nat /\ resp[t] \in Seq(Byte) /\ ackLen[t] \in Uints
      /\ (ackLen[t] # 0 => Len(resp[t]) < ackLen[t])
  BY DEF TypeInv, TypeOK, RespOK, Uints
<1>4. /\ pos[t] + n <= Len(reply[t]) /\ Round(t, Piece(t, n), n)
      /\ pos' = [pos EXCEPT ![t] = pos[t] + n]
      /\ SplitHeader \/ pos[t] > 0 \/ n >= 4
      /\ UNCHANGED <<main, object, ids, open, reply, parsed>>
  BY DEF RecvData, Piece, UintSize
<1>5. Piece(t, n) \in Seq(Byte) /\ Len(Piece(t, n)) = n
  BY <1>2, <1>3, <1>4, ReplyLen, PieceSeq DEF Piece
<1>6. Held(t) \in Seq(Byte) /\ Total(t, n) \in Uints /\ Len(Held(t)) \in Nat
  BY <1>3, <1>5, AckRange DEF Held, Total
<1>7. Len(Held(t)) < UintMod /\ n < UintMod
  <2>1. Len(reply[t]) \in Nat /\ Len(reply[t]) < UintMod
    BY ReplyLen
  <2>2. n < UintMod
    BY <1>2, <1>3, <1>4, <2>1, WordSizes
  <2>3. CASE ackLen[t] = 0
    <3>1. Held(t) = <<>>
      BY <2>3 DEF Held
    <3> QED BY <2>2, <3>1, WordSizes
  <2>4. CASE ackLen[t] # 0
    <3>1. Held(t) = resp[t] /\ Len(resp[t]) \in Nat /\ Len(resp[t]) < ackLen[t]
      BY <1>3, <2>4 DEF Held
    <3>2. ackLen[t] < UintMod /\ ackLen[t] \in Nat
      BY <1>3, WordSizes DEF Uints
    <3> QED BY <2>2, <3>1, <3>2, WordSizes
  <2> QED BY <2>3, <2>4
<1>8. Again(Held(t), n, Total(t, n)) <=> Len(Held(t)) + n < Total(t, n)
  <2>1. Len(Held(t)) + n \in Nat /\ Len(Held(t)) + n < 2 * UintMod
    BY <1>2, <1>6, <1>7, WordSizes
  <2>2. (Len(Held(t)) + n) % SizeMod = Len(Held(t)) + n
    BY <2>1, NoWrap
  <2> QED BY <2>2 DEF Again
<1>9. /\ pc[t] = "recv"
      /\ IF Again(Held(t), n, Total(t, n))
         THEN /\ pc' = [pc EXCEPT ![t] = "recv"]
              /\ resp' = [resp EXCEPT ![t] = Held(t) \o Piece(t, n)]
              /\ ackLen' = [ackLen EXCEPT ![t] = Total(t, n)]
         ELSE /\ pc' = [pc EXCEPT ![t] = "close"]
              /\ resp' = [resp EXCEPT ![t] =
                            Held(t) \o SubSeq(Piece(t, n), 1, Total(t, n) - Len(Held(t)))]
              /\ ackLen' = [ackLen EXCEPT ![t] = 0]
  BY <1>2, <1>4 DEF Round, Goto, Held, Total, Ack
<1>10. Total(t, n) \in Nat
  BY <1>6, WordSizes
<1>11. Again(Held(t), n, Total(t, n)) \/ Len(Held(t)) + n >= Total(t, n)
  BY <1>2, <1>6, <1>8, <1>10
<1>12. CASE Again(Held(t), n, Total(t, n))
  BY <1>2, <1>3, <1>4, <1>5, <1>6, <1>8, <1>9, <1>12, Zenon
<1>13. CASE ~Again(Held(t), n, Total(t, n))
  BY <1>2, <1>3, <1>4, <1>5, <1>6, <1>9, <1>11, <1>13, Zenon
<1> QED BY <1>12, <1>13

LEMMA ErrorRound ==
    ASSUME TypeInv, NEW t \in Thread, RecvError(t)
    PROVE  /\ pc[t] = "recv"
           /\ \/ /\ ackLen[t] = 0
                 /\ pc' = [pc EXCEPT ![t] = "close"]
                 /\ resp' = [resp EXCEPT ![t] = <<>>]
                 /\ ackLen' = [ackLen EXCEPT ![t] = 0]
              \/ /\ ackLen[t] # 0
                 /\ pc' = [pc EXCEPT ![t] = "throw"]
                 /\ resp' = resp
                 /\ ackLen' = [ackLen EXCEPT ![t] = ackLen[t]]
           /\ UNCHANGED <<main, object, ids, open, reply, pos, parsed>>
<1>1. /\ resp[t] \in Seq(Byte) /\ ackLen[t] \in Uints
      /\ (ackLen[t] # 0 => 1 <= Len(resp[t]) /\ Len(resp[t]) < ackLen[t])
  BY DEF TypeInv, TypeOK, RespOK, Uints
<1>2. Round(t, <<>>, -1) /\ UNCHANGED <<main, object, ids, open, reply, pos, parsed>>
  BY DEF RecvError
<1>3. CASE ackLen[t] = 0
  <2>0. <<>> \in Seq(Byte)
    OBVIOUS
  <2>1. Ack(<<>>) = 0 /\ Len(<<>>) = 0
    BY <2>0, AckRange
  <2>2. (0 + -1) % SizeMod = SizeMod - 1
    <3>1. \A m \in Nat : m > 0 => (0 + -1) % m = m - 1
      OBVIOUS
    <3> QED BY <3>1, WordSizes
  <2>3. ~Again(<<>>, -1, 0)
    BY <2>1, <2>2, WordSizes DEF Again
  <2>4. SubSeq(<<>>, 1, 0 - 0) = <<>> /\ <<>> \o <<>> = <<>>
    OBVIOUS
  <2>5. /\ pc[t] = "recv"
        /\ pc' = [pc EXCEPT ![t] = "close"]
        /\ resp' = [resp EXCEPT ![t] = <<>> \o SubSeq(<<>>, 1, 0 - 0)]
        /\ ackLen' = [ackLen EXCEPT ![t] = 0]
    BY <1>2, <1>3, <2>1, <2>3 DEF Round, Goto, Ack
  <2> QED BY <1>2, <1>3, <2>4, <2>5
<1>4. CASE ackLen[t] # 0
  <2>1. Len(resp[t]) \in Nat /\ ackLen[t] \in Nat /\ ackLen[t] < UintMod
    BY <1>1, WordSizes DEF Uints
  <2>2. Len(resp[t]) + -1 \in Nat /\ Len(resp[t]) + -1 < 2 * UintMod /\ Len(resp[t]) + -1 < ackLen[t]
    BY <1>1, <1>4, <2>1, WordSizes
  <2>3. (Len(resp[t]) + -1) % SizeMod = Len(resp[t]) + -1
    BY <2>2, NoWrap
  <2>4. Again(resp[t], -1, ackLen[t])
    BY <2>2, <2>3 DEF Again
  <2>5. -1 < 0
    OBVIOUS
  <2>6. /\ pc[t] = "recv"
        /\ pc' = [pc EXCEPT ![t] = "throw"] /\ resp' = resp
        /\ ackLen' = [ackLen EXCEPT ![t] = ackLen[t]]
    BY <1>2, <1>4, <2>4, <2>5 DEF Round, Goto
  <2> QED BY <1>2, <1>4, <2>6
<1> QED BY <1>3, <1>4

LEMMA TypeInit == Init => TypeInv
<1> SUFFICES ASSUME Init PROVE TypeInv
  OBVIOUS
<1>1. 0 \in 0..(UintMod - 1) /\ 0 \in 0..(2 * NumThreads)
  BY WordSizes, ClientAssumption
<1>2. <<>> \in Seq(Byte)
  OBVIOUS
<1> QED BY <1>1, <1>2 DEF Init, TypeInv, TypeOK, RespOK, Replied

LEMMA TypeStep == TypeInv /\ [Next]_vars => TypeInv'
<1> SUFFICES ASSUME TypeInv, [Next]_vars PROVE TypeInv'
  OBVIOUS
<1> USE DEF TypeInv, TypeOK, RespOK, Replied, net, object, ids
<1>0. NumThreads \in Nat /\ UintMod \in Nat
  BY ClientAssumption, WordSizes
<1>1. CASE StartThread
  <2>1. main + 1 \in Thread /\ main + 1 \in 0..(2 * NumThreads)
    BY <1>0, <1>1 DEF StartThread, Thread
  <2> QED BY <1>1, <2>1 DEF StartThread, Goto
<1>2. CASE JoinThread
  <2>1. main + 1 \in 0..(2 * NumThreads)
    BY <1>0, <1>2 DEF JoinThread
  <2> QED BY <1>2, <2>1 DEF JoinThread
<1>3. ASSUME NEW t \in Thread, GetInstance(t) PROVE TypeInv'
  BY <1>3 DEF GetInstance, Goto
<1>4. ASSUME NEW t \in Thread, NewInstance(t) PROVE TypeInv'
  BY <1>4 DEF NewInstance, Goto
<1>5. ASSUME NEW t \in Thread, LoadId(t) PROVE TypeInv'
  BY <1>5 DEF LoadId, Goto
<1>6. ASSUME NEW t \in Thread, StoreId(t) PROVE TypeInv'
  <2>1. loaded[t] \in Nat /\ loaded[t] + 1 \in Nat
    BY <1>0
  <2>2. NextId(loaded[t]) \in 0..(UintMod - 1)
    BY <2>1, UintModNat, DivMod DEF NextId
  <2> QED BY <1>6, <2>2 DEF StoreId, Goto
<1>7. ASSUME NEW t \in Thread, CopyId(t) PROVE TypeInv'
  BY <1>7 DEF CopyId, Goto
<1>8. ASSUME NEW t \in Thread, SocketCall(t) PROVE TypeInv'
  BY <1>8 DEF SocketCall, Goto
<1>9. ASSUME NEW t \in Thread, BindCall(t) \/ ConnectCall(t) \/ RecvEnd(t) PROVE TypeInv'
  BY <1>9 DEF BindCall, ConnectCall, RecvEnd, Goto
<1>10. ASSUME NEW t \in Thread, SendCall(t) PROVE TypeInv'
  <2>1. id[t] \in Uints
    BY DEF Uints
  <2>2. Served(Req(t)) = Full(id[t]) /\ Full(id[t]) \in Seq(Byte)
    BY <2>1, ServedFull, FullAnswer
  <2>3. \/ pc' = [pc EXCEPT ![t] = "recv"] /\ reply' = [reply EXCEPT ![t] = Full(id[t])]
        \/ pc' \in {[pc EXCEPT ![t] = "recv"], [pc EXCEPT ![t] = "close"]} /\ reply' = reply
    BY <1>10, <2>2 DEF SendCall, Goto
  <2>4. pc[t] = "send" /\ UNCHANGED <<main, object, ids, open, pos, ackLen, resp, parsed>>
    BY <1>10 DEF SendCall, Goto
  <2>5. TypeOK' /\ Others(t)
    <3>1. CASE pc' = [pc EXCEPT ![t] = "recv"] /\ reply' = [reply EXCEPT ![t] = Full(id[t])]
      BY <2>2, <2>4, <3>1 DEF Others
    <3>2. CASE pc' \in {[pc EXCEPT ![t] = "recv"], [pc EXCEPT ![t] = "close"]} /\ reply' = reply
      BY <2>4, <3>2 DEF Others
    <3> QED BY <2>3, <3>1, <3>2
  <2>6. reply[t] = <<>> /\ pos[t] = 0 /\ ackLen[t] = 0
    BY <2>4
  <2>7. RespOK(t)'
    BY <2>3, <2>4, <2>6
  <2> QED BY <2>5, <2>7, RespByThread
<1>11. ASSUME NEW t \in Thread, NEW n \in 1..SOCKETBUFFER_SIZE, RecvData(t, n) PROVE TypeInv'
  <2> DEFINE buf == Piece(t, n)  r == Held(t)  ack == Total(t, n)
  <2>1. /\ pc[t] = "recv" /\ n \in Nat /\ n >= 1 /\ pos[t] \in Nat
        /\ buf \in Seq(Byte) /\ Len(buf) = n /\ r \in Seq(Byte) /\ ack \in Uints
        /\ pos' = [pos EXCEPT ![t] = pos[t] + n]
        /\ \/ /\ Len(r) + n < ack
              /\ pc' = [pc EXCEPT ![t] = "recv"]
              /\ resp' = [resp EXCEPT ![t] = r \o buf]
              /\ ackLen' = [ackLen EXCEPT ![t] = ack]
           \/ /\ Len(r) + n >= ack
              /\ pc' = [pc EXCEPT ![t] = "close"]
              /\ resp' = [resp EXCEPT ![t] = r \o SubSeq(buf, 1, ack - Len(r))]
              /\ ackLen' = [ackLen EXCEPT ![t] = 0]
        /\ UNCHANGED <<main, object, ids, open, reply, parsed>>
    BY <1>11, DataRound
  <2>2. Len(r) \in Nat /\ ack \in Nat /\ Len(r) <= ack
    <3>1. Len(r) \in Nat /\ ack \in Nat
      <4> HIDE DEF buf, r, ack
      <4>1. r \in Seq(Byte) /\ ack \in Uints
        BY <2>1
      <4> QED BY <4>1, WordSizes, LenProperties
    <3>2. CASE ackLen[t] = 0
      <4>1. Len(r) = 0
        BY <3>2 DEF Held
      <4> QED BY <3>1, <4>1
    <3>3. CASE ackLen[t] # 0
      <4>1. r = resp[t] /\ ack = ackLen[t] /\ Len(resp[t]) < ackLen[t]
        BY <3>3 DEF Held, Total
      <4> QED BY <3>1, <4>1
    <3> QED BY <3>2, <3>3
  <2>5. Len(r) = pos[t] /\ ack <= Len(reply[t])
    <3>1. CASE ackLen[t] = 0
      <4>1. pos[t] = 0 /\ r = <<>> /\ ack = Ack(buf)
        BY <2>1, <3>1 DEF Held, Total
      <4>2. Len(<<>>) = 0
        OBVIOUS
      <4>3. reply[t] \in Seq(Byte) /\ id[t] \in Uints /\ Len(Answer) \in Nat
            /\ pos[t] + n <= Len(reply[t])
        BY <1>11, ClientAssumption DEF Uints, RecvData
      <4>4. reply[t] = Full(id[t])
        <5>1. reply[t] # <<>>
          BY <2>1, <4>2, <4>3
        <5> QED BY <5>1
      <4>5. Field(reply[t], 0) = Len(reply[t]) /\ Len(reply[t]) = 20 + Len(Answer)
        BY <4>3, <4>4, FullAnswer
      <4>6. buf = SubSeq(reply[t], pos[t] + 1, pos[t] + n)
        BY DEF Piece
      <4> HIDE DEF buf, r, ack
      <4>7. \A j \in 1..n : buf[j] = reply[t][pos[t] + j]
        <5>1. PICK s, p : s = reply[t] /\ p = pos[t]
          OBVIOUS
        <5>2. s \in Seq(Byte) /\ p \in Nat /\ p + n <= Len(s) /\ n \in Nat
          BY <2>1, <4>3, <5>1
        <5>3. \A j \in 1..n : SubSeq(s, p + 1, p + n)[j] = s[p + j]
          BY <5>2, PieceSeq
        <5> QED BY <4>6, <5>1, <5>3
      <4>8. \A j \in 1..n : buf[j] = reply[t][j]
        BY <2>1, <4>1, <4>7
      <4>9. n <= Len(reply[t]) /\ Len(reply[t]) >= 4
        BY <2>1, <4>1, <4>3, <4>5
      <4>10. Ack(buf) <= Field(reply[t], 0)
        BY <2>1, <4>3, <4>8, <4>9, AckBound
      <4> QED BY <4>1, <4>2, <4>5, <4>10
    <3>2. CASE ackLen[t] # 0
      BY <3>2 DEF Held, Total
    <3> QED BY <3>1, <3>2
  <2> HIDE DEF buf, r, ack
  <2>3. CASE Len(r) + n < ack
    <3>1. PICK x : x = r \o buf
      OBVIOUS
    <3>2. x \in Seq(Byte) /\ Len(x) = Len(r) + Len(buf)
      BY <2>1, <3>1, Joined
    <3>3. 1 <= Len(x) /\ Len(x) < ack /\ ack \in 0..(UintMod - 1)
      BY <2>1, <2>2, <2>3, <3>2 DEF Uints
    <3>4. /\ pc' = [pc EXCEPT ![t] = "recv"]
          /\ resp' = [resp EXCEPT ![t] = x]
          /\ ackLen' = [ackLen EXCEPT ![t] = ack]
      <4>1. ~(Len(r) + n >= ack)
        BY <2>1, <2>2, <2>3 DEF Uints
      <4> QED BY <2>1, <2>2, <3>1, <4>1, Zenon
    <3>5. pos' \in [Thread -> Nat]
      BY <2>1
    <3>6. TypeOK' /\ Others(t)
      BY <2>1, <3>2, <3>3, <3>4, <3>5 DEF Others
    <3>7. /\ pc'[t] = "recv" /\ resp'[t] = x /\ ackLen'[t] = ack /\ pos'[t] = pos[t] + n
          /\ reply' = reply /\ id' = id
      BY <2>1, <3>4
    <3>8. Len(x) = pos[t] + n /\ ack <= Len(reply[t])
      BY <2>1, <2>5, <3>2
    <3>9. RespOK(t)'
      BY <2>1, <3>3, <3>7, <3>8
    <3> QED BY <3>6, <3>9, RespByThread
  <2>4. CASE ~(Len(r) + n < ack)
    <3>1. PICK y : y = SubSeq(buf, 1, ack - Len(r))
      OBVIOUS
    <3>2. y \in Seq(Byte)
      <4>0. ack - Len(r) \in Nat
        BY <2>2
      <4>1. PICK k \in Nat : k = ack - Len(r)
        BY <4>0
      <4>2. k <= Len(buf)
        BY <2>1, <2>2, <2>4, <4>1
      <4>3. SubSeq(buf, 0 + 1, 0 + k) \in Seq(Byte)
        BY <2>1, <4>2, PieceSeq
      <4>4. 0 + 1 = 1 /\ 0 + k = k
        OBVIOUS
      <4> QED BY <3>1, <4>1, <4>3, <4>4
    <3>3. PICK x : x = r \o y
      OBVIOUS
    <3>4. x \in Seq(Byte)
      BY <2>1, <3>2, <3>3, Joined
    <3>5. /\ pc' = [pc EXCEPT ![t] = "close"]
          /\ resp' = [resp EXCEPT ![t] = x]
          /\ ackLen' = [ackLen EXCEPT ![t] = 0]
      BY <2>1, <2>2, <2>4, <3>1, <3>3
    <3>6. pos' \in [Thread -> Nat] /\ 0 \in 0..(UintMod - 1)
      BY <2>1, WordSizes
    <3> QED BY <2>1, <3>4, <3>5, <3>6
  <2> QED BY <2>3, <2>4
<1>12. ASSUME NEW t \in Thread, RecvError(t) PROVE TypeInv'
  <2>1. 0 \in 0..(UintMod - 1) /\ <<>> \in Seq(Byte)
    BY WordSizes
  <2>2. /\ pc[t] = "recv"
        /\ \/ /\ ackLen[t] = 0
              /\ pc' = [pc EXCEPT ![t] = "close"]
              /\ resp' = [resp EXCEPT ![t] = <<>>]
              /\ ackLen' = [ackLen EXCEPT ![t] = 0]
           \/ /\ ackLen[t] # 0
              /\ pc' = [pc EXCEPT ![t] = "throw"]
              /\ resp' = resp
              /\ ackLen' = [ackLen EXCEPT ![t] = ackLen[t]]
        /\ UNCHANGED <<main, object, ids, open, reply, pos, parsed>>
    BY <1>12, ErrorRound
  <2>3. CASE ackLen[t] = 0
    <3>0. /\ resp' \in [Thread -> Seq(Byte)] /\ ackLen' \in [Thread -> 0..(UintMod - 1)]
          /\ pc' = [pc EXCEPT ![t] = "close"]
      <4>1. /\ resp' = [resp EXCEPT ![t] = <<>>] /\ ackLen' = [ackLen EXCEPT ![t] = 0]
            /\ pc' = [pc EXCEPT ![t] = "close"]
        BY <2>2, <2>3, Zenon
      <4>2. resp' \in [Thread -> Seq(Byte)]
        BY <2>1, <4>1
      <4>3. ackLen' \in [Thread -> 0..(UintMod - 1)]
        BY <2>1, <4>1
      <4> QED BY <4>1, <4>2, <4>3
    <3>1. TypeOK' /\ Others(t)
      BY <2>2, <2>3, <3>0 DEF Others
    <3>2. pc'[t] = "close" /\ ackLen'[t] = 0 /\ reply' = reply /\ id' = id
      BY <2>2, <2>3
    <3>3. RespOK(t)'
      BY <3>2
    <3> QED BY <3>1, <3>3, RespByThread
  <2>4. CASE ackLen[t] # 0
    <3>1. ackLen' = ackLen /\ resp' = resp /\ pc' = [pc EXCEPT ![t] = "throw"]
      BY <2>2, <2>4
    <3> QED BY <2>2, <3>1
  <2> QED BY <2>3, <2>4
<1>13. ASSUME NEW t \in Thread, CloseCall(t) PROVE TypeInv'
  BY <1>13 DEF CloseCall, Closed, Goto
<1>14. ASSUME NEW t \in Thread, Parse(t) PROVE TypeInv'
  BY <1>14 DEF Parse, Goto
<1>15. CASE UNCHANGED vars
  BY <1>15 DEF vars
<1> QED
  BY <1>1, <1>2, <1>3, <1>4, <1>5, <1>6, <1>7, <1>8, <1>9, <1>10, <1>11, <1>12, <1>13, <1>14,
     <1>15 DEF Next, Run, CreateClient

(* The variables of main, of the protocol object and of every doConnect keep *)
(* their types, however recv cuts the answer and wherever it fails: the      *)
(* copies of the receive loop stay inside what recv returned.                *)
THEOREM TypeCorrect == Safe => []TypeOK
<1>1. TypeInv => TypeOK
  BY DEF TypeInv
<1> QED BY TypeInit, TypeStep, <1>1, PTL DEF Safe

(***************************************************************************)
(* The answer to a thread's own request, if the first recv returns the     *)
(* four bytes of the length at once.                                       *)
(***************************************************************************)
Fresh(t) == ackLen[t] = 0 /\ pos[t] = 0 /\ resp[t] = <<>>

(* Between two rounds the response is what recv has returned so far, and the *)
(* length it announced is that of the whole answer; behind the loop the      *)
(* response is whole unless the connection broke before.                     *)
AnswerOK(t) ==
    /\ pc[t] \notin Replied => reply[t] = <<>> /\ Fresh(t)
    /\ pc[t] \in {"recv", "throw"} =>
         reply[t] = Full(id[t]) \/ (pc[t] = "recv" /\ reply[t] = <<>> /\ Fresh(t))
    /\ pc[t] = "recv" =>
         \/ Fresh(t)
         \/ /\ ackLen[t] = Len(reply[t]) /\ 0 < pos[t] /\ pos[t] < Len(reply[t])
            /\ resp[t] = SubSeq(reply[t], 1, pos[t])
    /\ pc[t] = "throw" => 0 < pos[t] /\ pos[t] < Len(reply[t])
    /\ pc[t] \in {"close", "parse", "done"} => pos[t] < Len(reply[t]) \/ resp[t] = reply[t]
    /\ pc[t] = "done" => \E junk \in Seq(Byte) : parsed[t] = parseResponse(resp[t], junk)

AnswerInv == parsed = [t \in Thread |-> parsed[t]] /\ \A t \in Thread : AnswerOK(t)

LEMMA AnswerInit == Init => AnswerInv
BY DEF Init, AnswerInv, AnswerOK, Fresh, Replied

LEMMA ByThread ==
    ASSUME AnswerInv, NEW t \in Thread, Others(t), AnswerOK(t)',
           parsed' = [u \in Thread |-> parsed'[u]]
    PROVE  AnswerInv'
<1>1. ASSUME NEW u \in Thread, u # t PROVE AnswerOK(u)'
  <2>1. /\ pc'[u] = pc[u] /\ id'[u] = id[u] /\ reply'[u] = reply[u] /\ pos'[u] = pos[u]
        /\ ackLen'[u] = ackLen[u] /\ resp'[u] = resp[u] /\ parsed'[u] = parsed[u]
    BY <1>1 DEF Others
  <2>2. AnswerOK(u)
    BY DEF AnswerInv
  <2> QED BY <2>1, <2>2 DEF AnswerOK, Fresh
<1> QED BY <1>1 DEF AnswerInv

(* Where an answer is cut and put together again. *)
LEMMA Pieces ==
    ASSUME NEW s \in Seq(Byte), NEW p \in Nat, NEW n \in Nat, p + n <= Len(s)
    PROVE  SubSeq(s, 1, p) \o SubSeq(s, p + 1, p + n) = SubSeq(s, 1, p + n)
<1>1. Len(s) \in Nat
  BY LenProperties
<1>2. 1 \in 1..(Len(s) + 1) /\ p + n \in 0..Len(s) /\ p \in 0..(p + n) /\ 1 \in 1..(p + 1)
  BY <1>1
<1> QED BY <1>1, <1>2, ConcatAdjacentSubSeq

LEMMA RecvAnswer ==
    ASSUME ~SplitHeader, TypeInv, AnswerInv,
           NEW t \in Thread, NEW n \in 1..SOCKETBUFFER_SIZE, RecvData(t, n)
    PROVE  AnswerOK(t)' /\ Others(t) /\ parsed' = parsed
<1>1. PICK s, p : s = reply[t] /\ p = pos[t]
  OBVIOUS
<1> DEFINE buf == Piece(t, n)  r == Held(t)  ack == Total(t, n)
<1>2. /\ pc[t] = "recv" /\ n \in Nat /\ n >= 1
      /\ p \in Nat /\ p + n <= Len(s) /\ (p > 0 \/ n >= 4)
      /\ buf \in Seq(Byte) /\ Len(buf) = n /\ r \in Seq(Byte) /\ ack \in Uints
      /\ pos' = [pos EXCEPT ![t] = p + n]
      /\ \/ /\ Len(r) + n < ack
            /\ pc' = [pc EXCEPT ![t] = "recv"]
            /\ resp' = [resp EXCEPT ![t] = r \o buf]
            /\ ackLen' = [ackLen EXCEPT ![t] = ack]
         \/ /\ Len(r) + n >= ack
            /\ pc' = [pc EXCEPT ![t] = "close"]
            /\ resp' = [resp EXCEPT ![t] = r \o SubSeq(buf, 1, ack - Len(r))]
            /\ ackLen' = [ackLen EXCEPT ![t] = 0]
      /\ reply' = reply /\ id' = id /\ parsed' = parsed
  BY <1>1, DataRound DEF ids
<1>3. /\ s = Full(id[t]) /\ id[t] \in Uints
      /\ \/ Fresh(t)
         \/ ackLen[t] = Len(s) /\ 0 < p /\ p < Len(s) /\ resp[t] = SubSeq(s, 1, p)
  <2>1. s # <<>>
    BY <1>2
  <2> QED BY <1>1, <1>2, <2>1 DEF AnswerInv, AnswerOK, TypeInv, TypeOK, Uints
<1>4. s \in Seq(Byte) /\ Field(s, 0) = Len(s) /\ Len(s) \in Nat
  BY <1>3, FullAnswer, LenProperties
<1>5. buf = SubSeq(s, p + 1, p + n)
  BY <1>1 DEF Piece
<1>6. r = SubSeq(s, 1, p) /\ ack = Len(s)
  <2>1. CASE Fresh(t)
    <3>1. p = 0 /\ ackLen[t] = 0 /\ n >= 4
      BY <1>1, <1>2, <2>1 DEF Fresh
    <3>2. r = <<>> /\ SubSeq(s, 1, 0) = <<>>
      BY <1>4, <3>1 DEF Held
    <3>3. ack = Ack(buf)
      BY <3>1 DEF Total
    <3> HIDE DEF buf, r, ack
    <3>4. ack = Field(buf, 0)
      BY <1>2, <3>1, <3>3, AckRange
    <3>5. \A j \in 1..n : buf[j] = s[p + j]
      BY <1>2, <1>4, <1>5, PieceSeq
    <3>6. buf[1] = s[1] /\ buf[2] = s[2] /\ buf[3] = s[3] /\ buf[4] = s[4]
      BY <1>2, <3>1, <3>5
    <3>7. Field(buf, 0) = Field(s, 0)
      <4>1. PICK f, g : f = [j \in 1..4 |-> buf[4 * 0 + j]] /\ g = [j \in 1..4 |-> s[4 * 0 + j]]
        OBVIOUS
      <4>2. f[1] = g[1] /\ f[2] = g[2] /\ f[3] = g[3] /\ f[4] = g[4]
        BY <3>6, <4>1
      <4>3. Field(buf, 0) = Uint(f) /\ Field(s, 0) = Uint(g)
        BY <4>1 DEF Field, UintSize
      <4> QED BY <4>2, <4>3 DEF Uint
    <3> QED BY <1>4, <3>1, <3>2, <3>4, <3>7
  <2>2. CASE ~Fresh(t)
    <3>1. ackLen[t] = Len(s) /\ ackLen[t] # 0 /\ resp[t] = SubSeq(s, 1, p)
      BY <1>2, <1>3, <1>4, <2>2
    <3> QED BY <3>1 DEF Held, Total
  <2> QED BY <2>1, <2>2
<1>7. SubSeq(s, 1, p + n) = r \o buf /\ Len(r) = p
  <2> HIDE DEF buf, r, ack
  <2>1. 0 + 1 = 1 /\ 0 + p = p /\ 0 + p <= Len(s)
    BY <1>2, <1>4
  <2>2. Len(SubSeq(s, 0 + 1, 0 + p)) = p
    BY <1>2, <1>4, <2>1, PieceSeq
  <2>3. Len(r) = p
    BY <1>6, <2>1, <2>2
  <2> QED BY <1>2, <1>4, <1>5, <1>6, <2>3, Pieces
<1> HIDE DEF buf, r, ack
<1>8. CASE p + n < Len(s)
  <2>1. /\ pc' = [pc EXCEPT ![t] = "recv"]
        /\ resp' = [resp EXCEPT ![t] = SubSeq(s, 1, p + n)]
        /\ ackLen' = [ackLen EXCEPT ![t] = Len(s)]
    <3>1. Len(r) = p /\ ack = Len(s)
      BY <1>6, <1>7
    <3>2. /\ pc' = [pc EXCEPT ![t] = "recv"]
          /\ resp' = [resp EXCEPT ![t] = r \o buf]
          /\ ackLen' = [ackLen EXCEPT ![t] = ack]
      BY <1>2, <1>4, <1>8, <3>1
    <3> QED BY <1>7, <3>1, <3>2, Zenon
  <2>2. /\ pc'[t] = "recv" /\ resp'[t] = SubSeq(s, 1, p + n) /\ ackLen'[t] = Len(s)
        /\ pos'[t] = p + n /\ reply'[t] = s /\ id'[t] = id[t]
    BY <1>1, <1>2, <2>1 DEF TypeInv, TypeOK
  <2>3. 0 < p + n
    BY <1>2
  <2>4. AnswerOK(t)'
    BY <1>3, <1>8, <2>2, <2>3 DEF AnswerOK, Replied
  <2>5. Others(t)
    BY <1>2, <2>1 DEF Others, TypeInv, TypeOK
  <2> QED BY <1>2, <2>4, <2>5
<1>9. CASE ~(p + n < Len(s))
  <2>1. p + n = Len(s) /\ ack - Len(r) = Len(buf)
    BY <1>2, <1>4, <1>6, <1>7, <1>9
  <2>2. SubSeq(buf, 1, Len(buf)) = buf /\ SubSeq(s, 1, Len(s)) = s
    BY <1>2, <1>4, SubSeqFull
  <2>3. r \o SubSeq(buf, 1, ack - Len(r)) = s
    BY <1>7, <2>1, <2>2
  <2>4. /\ pc' = [pc EXCEPT ![t] = "close"]
        /\ resp' = [resp EXCEPT ![t] = s]
        /\ ackLen' = [ackLen EXCEPT ![t] = 0]
    BY <1>2, <1>4, <1>6, <1>7, <1>9, <2>3
  <2>5. /\ pc'[t] = "close" /\ resp'[t] = s /\ reply'[t] = s
    BY <1>1, <1>2, <2>4 DEF TypeInv, TypeOK
  <2>6. AnswerOK(t)'
    BY <2>5 DEF AnswerOK, Replied
  <2>7. Others(t)
    BY <1>2, <2>4 DEF Others, TypeInv, TypeOK
  <2> QED BY <1>2, <2>6, <2>7
<1> QED BY <1>8, <1>9

LEMMA ErrorAnswer ==
    ASSUME TypeInv, AnswerInv, NEW t \in Thread, RecvError(t)
    PROVE  AnswerOK(t)' /\ Others(t) /\ parsed' = parsed
<1>1. /\ pc[t] = "recv"
      /\ \/ /\ ackLen[t] = 0
            /\ pc' = [pc EXCEPT ![t] = "close"]
            /\ resp' = [resp EXCEPT ![t] = <<>>]
            /\ ackLen' = [ackLen EXCEPT ![t] = 0]
         \/ /\ ackLen[t] # 0
            /\ pc' = [pc EXCEPT ![t] = "throw"]
            /\ resp' = resp
            /\ ackLen' = [ackLen EXCEPT ![t] = ackLen[t]]
      /\ UNCHANGED <<main, object, ids, open, reply, pos, parsed>>
  BY ErrorRound
<1>2. reply' = reply /\ pos' = pos /\ id' = id /\ parsed' = parsed
  BY <1>1 DEF ids
<1>3. Others(t)
  BY <1>1, <1>2 DEF Others, TypeInv, TypeOK
<1>4. AnswerOK(t) /\ id[t] \in Uints /\ Len(Answer) \in Nat
  BY ClientAssumption DEF AnswerInv, TypeInv, TypeOK, Uints
<1>5. \/ reply[t] = Full(id[t]) /\ Len(reply[t]) >= 20 /\ Len(reply[t]) \in Nat
      \/ reply[t] = <<>> /\ Fresh(t)
  BY <1>1, <1>4, FullAnswer DEF AnswerOK
<1>6. CASE ackLen[t] = 0
  <2>1. pos[t] = 0 /\ pc'[t] = "close" /\ resp'[t] = <<>>
    BY <1>1, <1>4, <1>5, <1>6 DEF AnswerOK, Fresh, TypeInv, TypeOK
  <2>2. AnswerOK(t)'
    BY <1>2, <1>5, <2>1 DEF AnswerOK, Replied
  <2> QED BY <1>2, <1>3, <2>2
<1>7. CASE ackLen[t] # 0
  <2>1. /\ 0 < pos[t] /\ pos[t] < Len(reply[t]) /\ pc'[t] = "throw"
        /\ reply[t] = Full(id[t])
    BY <1>1, <1>4, <1>5, <1>7 DEF AnswerOK, Fresh, TypeInv, TypeOK
  <2>2. AnswerOK(t)'
    BY <1>2, <1>5, <2>1 DEF AnswerOK, Replied
  <2> QED BY <1>2, <1>3, <2>2
<1> QED BY <1>6, <1>7

LEMMA AnswerStep ==
    ASSUME ~SplitHeader, TypeInv, AnswerInv, [Next]_vars
    PROVE  AnswerInv'
<1> USE DEF net, object, ids
<1>f. parsed = [u \in Thread |-> parsed[u]] /\ \A u \in Thread : AnswerOK(u)
  BY DEF AnswerInv
<1>0. /\ pc = [u \in Thread |-> pc[u]] /\ id = [u \in Thread |-> id[u]]
      /\ reply = [u \in Thread |-> reply[u]]
  BY DEF TypeInv, TypeOK
<1>1. CASE StartThread
  <2>1. main + 1 \in Thread
    BY <1>1, ClientAssumption DEF StartThread, Thread, TypeInv, TypeOK
  <2>2. AnswerOK(main + 1)
    BY <1>f, <2>1
  <2>3. PICK t \in Thread : t = main + 1
    BY <2>1
  <2>4. pc[t] = "none" /\ pc' = [pc EXCEPT ![t] = "instance"] /\ UNCHANGED <<ids, net>>
    BY <1>1, <2>3 DEF StartThread, Goto
  <2>5. AnswerOK(t)' /\ Others(t)
    BY <1>0, <1>f, <2>4 DEF AnswerOK, Fresh, Replied, Others
  <2> QED BY <1>f, <2>4, <2>5, ByThread
<1>2. CASE JoinThread
  BY <1>f, <1>2 DEF JoinThread, AnswerInv, AnswerOK, Fresh
<1>3. ASSUME NEW t \in Thread,
             GetInstance(t) \/ NewInstance(t) \/ LoadId(t) \/ StoreId(t)
      PROVE  AnswerInv'
  <2>1. /\ pc[t] \notin Replied /\ \E to \in {"new", "load", "store", "copy"} : pc' = [pc EXCEPT ![t] = to]
        /\ id' = id /\ UNCHANGED net
    BY <1>3 DEF GetInstance, NewInstance, LoadId, StoreId, Goto, Replied
  <2>2. AnswerOK(t)' /\ Others(t)
    BY <1>0, <1>f, <2>1 DEF AnswerOK, Fresh, Replied, Others
  <2> QED BY <1>f, <2>1, <2>2, ByThread
<1>4. ASSUME NEW t \in Thread, CopyId(t) PROVE AnswerInv'
  <2>1. /\ pc[t] = "copy" /\ pc' = [pc EXCEPT ![t] = "socket"]
        /\ id' = [id EXCEPT ![t] = m_msgId] /\ UNCHANGED net
    BY <1>4 DEF CopyId, Goto
  <2>2. AnswerOK(t)' /\ Others(t)
    BY <1>0, <1>f, <2>1 DEF AnswerOK, Fresh, Replied, Others
  <2> QED BY <1>f, <2>1, <2>2, ByThread
<1>5. ASSUME NEW t \in Thread, SocketCall(t) \/ BindCall(t) \/ ConnectCall(t) PROVE AnswerInv'
  <2>1. /\ pc[t] \in {"socket", "bind", "connect"}
        /\ \E to \in {"bind", "connect", "send", "parse"} : pc' = [pc EXCEPT ![t] = to]
        /\ id' = id /\ UNCHANGED <<reply, pos, ackLen, resp, parsed>>
    BY <1>5 DEF SocketCall, BindCall, ConnectCall, Goto
  <2>2. reply[t] = <<>> /\ Fresh(t)
    BY <1>f, <2>1 DEF AnswerOK, Replied
  <2>3. AnswerOK(t)' /\ Others(t)
    BY <1>0, <2>1, <2>2 DEF AnswerOK, Fresh, Replied, Others
  <2> QED BY <1>f, <2>1, <2>3, ByThread
<1>6. ASSUME NEW t \in Thread, SendCall(t) PROVE AnswerInv'
  <2>1. id[t] \in Uints
    BY DEF TypeInv, TypeOK, Uints
  <2>2. /\ pc[t] = "send" /\ id' = id /\ UNCHANGED <<pos, ackLen, resp, parsed>>
        /\ \/ pc' = [pc EXCEPT ![t] = "recv"] /\ reply' = [reply EXCEPT ![t] = Full(id[t])]
           \/ pc' \in {[pc EXCEPT ![t] = "recv"], [pc EXCEPT ![t] = "close"]} /\ reply' = reply
    BY <1>6, <2>1, ServedFull DEF SendCall, Goto
  <2>3. reply[t] = <<>> /\ Fresh(t)
    BY <1>f, <2>2 DEF AnswerOK, Replied
  <2>4. AnswerOK(t)' /\ Others(t)
    BY <1>0, <2>2, <2>3 DEF AnswerOK, Fresh, Replied, Others
  <2> QED BY <1>f, <2>2, <2>4, ByThread
<1>7. ASSUME NEW t \in Thread, NEW n \in 1..SOCKETBUFFER_SIZE, RecvData(t, n) PROVE AnswerInv'
  <2>1. AnswerOK(t)' /\ Others(t) /\ parsed' = parsed
    BY <1>7, RecvAnswer
  <2> QED BY <1>f, <2>1, ByThread
<1>8. ASSUME NEW t \in Thread, RecvError(t) PROVE AnswerInv'
  <2>1. AnswerOK(t)' /\ Others(t) /\ parsed' = parsed
    BY <1>8, ErrorAnswer
  <2> QED BY <1>f, <2>1, ByThread
<1>9. ASSUME NEW t \in Thread, RecvEnd(t) PROVE AnswerInv'
  <2>1. pc[t] = "recv" /\ pc' = [pc EXCEPT ![t] = "close"] /\ id' = id /\ UNCHANGED net
    BY <1>9 DEF RecvEnd, Goto
  <2>2. id[t] \in Uints /\ Len(Answer) \in Nat
    BY ClientAssumption DEF TypeInv, TypeOK, Uints
  <2>3. \/ Len(reply[t]) >= 20 /\ Len(reply[t]) \in Nat
        \/ reply[t] = <<>> /\ Fresh(t)
    BY <1>f, <2>1, <2>2, FullAnswer DEF AnswerOK
  <2>4. pos[t] < Len(reply[t]) \/ resp[t] = reply[t]
    BY <1>f, <2>1, <2>3 DEF AnswerOK, Fresh
  <2>5. AnswerOK(t)' /\ Others(t)
    BY <1>0, <2>1, <2>4 DEF AnswerOK, Replied, Others
  <2> QED BY <1>f, <2>1, <2>5, ByThread
<1>10. ASSUME NEW t \in Thread, CloseCall(t) PROVE AnswerInv'
  <2>1. /\ pc[t] = "close" /\ pc' = [pc EXCEPT ![t] = "parse"]
        /\ id' = id /\ UNCHANGED <<reply, pos, ackLen, resp, parsed>>
    BY <1>10 DEF CloseCall, Goto
  <2>2. AnswerOK(t)' /\ Others(t)
    BY <1>0, <1>f, <2>1 DEF AnswerOK, Replied, Others
  <2> QED BY <1>f, <2>1, <2>2, ByThread
<1>11. ASSUME NEW t \in Thread, Parse(t) PROVE AnswerInv'
  <2>1. PICK junk \in [1..UintSize -> {0, Base - 1}] :
          parsed' = [parsed EXCEPT ![t] = parseResponse(resp[t], junk)]
    BY <1>11 DEF Parse
  <2>2. junk \in Seq(Byte)
    <3>1. 0 \in Byte /\ Base - 1 \in Byte /\ UintSize = 4
      BY BaseAssumption DEF Byte, UintSize
    <3>2. junk = [j \in 1..4 |-> junk[j]] /\ \A j \in 1..4 : junk[j] \in Byte
      BY <3>1
    <3>3. [j \in 1..4 |-> junk[j]] \in Seq(Byte)
      BY <3>2
    <3> QED BY <3>2, <3>3
  <2>3. /\ pc[t] = "parse" /\ pc' = [pc EXCEPT ![t] = "done"]
        /\ id' = id /\ UNCHANGED <<reply, pos, ackLen, resp>>
    BY <1>11 DEF Parse, Goto
  <2>4. PICK v : v = parseResponse(resp[t], junk)
    OBVIOUS
  <2>5. /\ parsed' = [parsed EXCEPT ![t] = v] /\ parsed'[t] = v
        /\ parsed' = [u \in Thread |-> parsed'[u]]
    BY <1>f, <2>1, <2>4
  <2>6. AnswerOK(t)'
    BY <1>0, <1>f, <2>2, <2>3, <2>4, <2>5 DEF AnswerOK, Replied
  <2>7. Others(t)
    BY <1>0, <1>f, <2>3, <2>5 DEF Others
  <2> QED BY <2>5, <2>6, <2>7, ByThread
<1>12. CASE UNCHANGED vars
  BY <1>f, <1>12 DEF vars, AnswerInv, AnswerOK, Fresh
<1> QED
  BY <1>1, <1>2, <1>3, <1>4, <1>5, <1>6, <1>7, <1>8, <1>9, <1>10, <1>11, <1>12
     DEF Next, Run, CreateClient

(* A split header is left out: the length it announces is whatever its first *)
(* bytes make of it, and the loop ends before the answer does.               *)
LEMMA AnswerAlways == ~SplitHeader => (Safe => [](TypeInv /\ AnswerInv))
<1> SUFFICES ASSUME ~SplitHeader PROVE Safe => [](TypeInv /\ AnswerInv)
  OBVIOUS
<1>1. TypeInv /\ AnswerInv /\ [Next]_vars => TypeInv' /\ AnswerInv'
  BY TypeStep, AnswerStep
<1> QED BY TypeInit, AnswerInit, <1>1, PTL DEF Safe

(* If the first recv returns at least the four bytes of the length: a        *)
(* response that createClient accepts, and that the server sent to its end,  *)
(* is the whole answer to the request of this very thread.                   *)
THEOREM AnswersCorrect == ~SplitHeader => (Safe => []OwnAnswer)
<1>1. TypeInv /\ AnswerInv => OwnAnswer
  <2> SUFFICES ASSUME TypeInv, AnswerInv, NEW t \in Thread, Accepted(t), pos[t] = Len(reply[t])
               PROVE  /\ resp[t] = reply[t]
                      /\ parsed[t] = [ret |-> 0, msgId |-> id[t], cmd |-> EAC_API1, result |-> 0,
                                      cmdDataLen |-> Len(Answer), cmdData |-> UintSize * 5]
    BY DEF OwnAnswer
  <2>1. /\ pc[t] = "done" /\ parsed[t].ret = 0 /\ id[t] \in Uints /\ pos[t] \in Nat
        /\ (reply[t] = <<>> \/ reply[t] = Full(id[t]))
    BY DEF Accepted, TypeInv, TypeOK, RespOK, Uints
  <2>2. PICK junk \in Seq(Byte) : parsed[t] = parseResponse(resp[t], junk)
    BY <2>1 DEF AnswerInv, AnswerOK
  <2>3. resp[t] = reply[t]
    BY <2>1 DEF AnswerInv, AnswerOK
  <2>4. CASE reply[t] = <<>>
    <3>1. Len(resp[t]) < UintSize * 4
      BY <2>3, <2>4 DEF UintSize
    <3>2. parsed[t] = [ret |-> -1]
      BY <2>2, <3>1 DEF parseResponse, Failed
    <3> QED BY <2>1, <3>2
  <2>5. CASE reply[t] = Full(id[t])
    <3>1. parseResponse(Full(id[t]), junk)
            = [ret |-> 0, msgId |-> id[t], cmd |-> EAC_API1, result |-> 0,
               cmdDataLen |-> Len(Answer), cmdData |-> 20]
      BY <2>1, FullAnswer
    <3>2. UintSize * 5 = 20
      BY DEF UintSize
    <3> QED BY <2>2, <2>3, <2>5, <3>1, <3>2
  <2> QED BY <2>1, <2>4, <2>5
<1> SUFFICES ASSUME ~SplitHeader PROVE Safe => []OwnAnswer
  OBVIOUS
<1>2. Safe => [](TypeInv /\ AnswerInv)
  BY AnswerAlways
<1> QED BY <1>1, <1>2, PTL

(* A failing recv ends the process only between the first and the last byte  *)
(* of a response, wherever the pieces were cut.                              *)
THEOREM ThrowsCorrect == Safe => []ThrowsMidResponse
<1>1. TypeInv => ThrowsMidResponse
  <2> SUFFICES ASSUME TypeInv, NEW t \in Thread, pc[t] = "throw"
               PROVE  0 < pos[t] /\ pos[t] < Len(reply[t])
    BY DEF ThrowsMidResponse
  <2>1. /\ 1 <= pos[t] /\ pos[t] < ackLen[t] /\ ackLen[t] <= Len(reply[t])
        /\ pos[t] \in Nat /\ ackLen[t] \in Nat
    BY WordSizes DEF TypeInv, TypeOK, RespOK
  <2>2. Len(reply[t]) \in Nat
    BY ReplyLen
  <2> QED BY <2>1, <2>2
<1> QED BY TypeInit, TypeStep, <1>1, PTL DEF Safe
===============================================================================
