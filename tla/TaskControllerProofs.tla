-------------------------- MODULE TaskControllerProofs --------------------------
(***************************************************************************)
(* Proofs about module TaskController, for any streams, descriptors and    *)
(* buffer size: when recv does not cut a length field and clients leave    *)
(* between requests, makeNewTask cuts the streams where the requests end.  *)
(***************************************************************************)
EXTENDS TaskController, TLAPS, SequenceTheorems

(***************************************************************************)
(* The inductive invariant.                                                *)
(***************************************************************************)
(* How far makeNewTask has come in the stream of c, and where the request  *)
(* behind the last task begins.                                            *)
Consumed(c) == IF chunk.len > 0 /\ chunk.conn = c THEN chunk.from ELSE pos[c]
NextTask(c) == Len(tasks[c]) + 1
Begin(c)    == Start(c, NextTask(c))

(* m bytes of connection c, behind position s. *)
Piece(c, s, m) == [i \in 1..m |-> <<c, s + i>>]

(* What m_recvList must hold of c: all that lies behind the last task. *)
Part(c) ==
    IF Consumed(c) = Begin(c) THEN NoData
    ELSE [m_len |-> FrameLen(c, NextTask(c)),
          m_databuf |-> Piece(c, Begin(c), Consumed(c) - Begin(c))]

(* The chunk is the end of what was received of its connection. *)
ChunkInv ==
    chunk.len > 0 =>
        /\ chunk.conn \in Conn
        /\ chunk.fd \in Fd /\ fdOf[chunk.conn] = chunk.fd
        /\ chunk.from + chunk.len = pos[chunk.conn]
        /\ chunk.off + chunk.len <= BufLen

(* Open connections have descriptors of their own. *)
FdInv ==
    /\ \A c \in open : fdOf[c] \in Fd
    /\ \A c, d \in open : fdOf[c] = fdOf[d] => c = d

AtEnd(c) == \E k \in 1..(Len(End[c]) + 1) : pos[c] = Start(c, k)

(* Where the bytes of c that were received can end. *)
EdgeInv ==
    \A c \in Conn :
        /\ pos[c] <= Len(Stream[c])
        /\ ~CutsHeader(c, pos[c])
        /\ c \notin open => AtEnd(c)
        /\ fdOf[c] = 0 => pos[c] = 0 /\ tasks[c] = <<>>

(* The tasks are the first requests, and makeNewTask is inside the next one. *)
DoneInv ==
    \A c \in Conn :
        /\ Len(tasks[c]) <= Len(End[c])
        /\ \A k \in 1..Len(tasks[c]) : tasks[c][k] = [client |-> fdOf[c], data |-> Frame(c, k)]
        /\ Begin(c) <= Consumed(c)
        /\ Len(tasks[c]) < Len(End[c]) => Consumed(c) < Start(c, NextTask(c) + 1)

InHand(f) == chunk.len > 0 /\ chunk.fd = f

(* m_recvList holds the part of the connection whose chunk is in hand, or   *)
(* else of the one that is open on the descriptor; a connection accepted    *)
(* while a chunk of the last one is still in hand has none yet.             *)
PartInv ==
    /\ chunk.len > 0 => m_recvList[chunk.fd] = Part(chunk.conn)
    /\ \A c \in open : IF InHand(fdOf[c]) THEN c # chunk.conn => Consumed(c) = Begin(c)
                       ELSE m_recvList[fdOf[c]] = Part(c)
    /\ \A f \in Fd : ~InHand(f) /\ (\A c \in open : fdOf[c] # f) => m_recvList[f] = NoData

Inv == TypeOK /\ ChunkInv /\ FdInv /\ EdgeInv /\ DoneInv /\ PartInv

(***************************************************************************)
(* What the assumption says of a stream, and bytes in a row.               *)
(***************************************************************************)
LEMMA Product ==
    ASSUME NEW a \in Nat, NEW b \in Nat, a > 0, b > 0
    PROVE  a * b \in Nat /\ a * b > 0
OBVIOUS

LEMMA UintModNat == UintMod \in Nat /\ UintMod > 0
<1>1. Base \in Nat /\ Base > 0 BY StreamAssumption
<1>2. Base * Base \in Nat /\ Base * Base > 0 BY <1>1, Product
<1>3. Base * Base * Base \in Nat /\ Base * Base * Base > 0 BY <1>1, <1>2, Product
<1> QED BY <1>1, <1>3, Product DEF UintMod

LEMMA StreamFacts ==
    ASSUME NEW c \in Conn
    PROVE  /\ Len(End[c]) \in Nat /\ Len(Stream[c]) \in Nat
           /\ \A k \in 1..(Len(End[c]) + 1) : Start(c, k) \in Nat
           /\ Start(c, 1) = 0
           /\ Start(c, Len(End[c]) + 1) = Len(Stream[c])
           /\ \A j, k \in 1..(Len(End[c]) + 1) : j < k => Start(c, j) + 4 <= Start(c, k)
           /\ \A k \in 1..Len(End[c]) : End[c][k] = Start(c, k + 1)
<1>1. End[c] \in Seq(Nat) /\ Stream[c] \in Seq(Byte)
  BY StreamAssumption DEF Conn
<1>2. \A k \in 1..(Len(End[c]) + 1) : Start(c, k) \in Nat
  BY <1>1 DEF Start
<1>3. \A k \in 1..Len(End[c]) : End[c][k] = Start(c, k + 1)
  BY <1>1 DEF Start
<1> QED BY <1>1, <1>2, <1>3, StreamAssumption DEF HeaderLen, Start

LEMMA FrameFacts ==
    ASSUME NEW c \in Conn, NEW k \in 1..Len(End[c])
    PROVE  /\ FrameLen(c, k) = Start(c, k + 1) - Start(c, k)
           /\ FrameLen(c, k) \in Nat /\ FrameLen(c, k) >= 4
           /\ FrameLen(c, k) + BufLen <= UintMod
           /\ Uint([j \in 1..HeaderLen |-> Stream[c][Start(c, k) + j]]) = FrameLen(c, k)
<1>1. FrameLen(c, k) = Start(c, k + 1) - Start(c, k)
  BY StreamFacts DEF FrameLen
<1>2. /\ k \in 1..(Len(End[c]) + 1) /\ k + 1 \in 1..(Len(End[c]) + 1) /\ k < k + 1
  BY StreamFacts
<1>3. /\ Start(c, k) \in Nat /\ Start(c, k + 1) \in Nat
      /\ Start(c, k) + 4 <= Start(c, k + 1)
  BY <1>2, StreamFacts
<1>4. FrameLen(c, k) \in Nat /\ FrameLen(c, k) >= 4
  BY <1>1, <1>3
<1>5. /\ FrameLen(c, k) + BufLen <= UintMod
      /\ Uint([j \in 1..HeaderLen |-> Stream[c][Start(c, k) + j]]) = FrameLen(c, k)
  BY StreamAssumption
<1> QED BY <1>1, <1>4, <1>5

LEMMA PieceSeq ==
    ASSUME NEW c \in Conn, NEW s \in Nat, NEW m \in Nat
    PROVE  Piece(c, s, m) \in Data /\ Len(Piece(c, s, m)) = m
BY DEF Piece, Data

LEMMA PieceConcat ==
    ASSUME NEW c \in Conn, NEW s \in Nat, NEW m \in Nat, NEW n \in Nat
    PROVE  Piece(c, s, m) \o Piece(c, s + m, n) = Piece(c, s, m + n)
<1> DEFINE p == Piece(c, s, m)
           q == Piece(c, s + m, n)
           r == Piece(c, s, m + n)
<1>1. p \in Data /\ q \in Data /\ r \in Data /\ Len(p) = m /\ Len(q) = n /\ Len(r) = m + n
  BY PieceSeq
<1>2. /\ \A i \in 1..m : p[i] = <<c, s + i>>
      /\ \A i \in 1..n : q[i] = <<c, s + m + i>>
      /\ \A i \in 1..(m + n) : r[i] = <<c, s + i>>
  BY DEF Piece
<1> HIDE DEF p, q, r
<1>3. /\ p \o q \in Data /\ Len(p \o q) = m + n
      /\ \A i \in 1..(m + n) : (p \o q)[i] = IF i <= m THEN p[i] ELSE q[i - m]
  BY <1>1, ConcatProperties DEF Data
<1>4. ASSUME NEW i \in 1..(m + n) PROVE (p \o q)[i] = r[i]
  <2>1. CASE i <= m
    <3>1. i \in 1..m BY <2>1
    <3> QED BY <1>2, <1>3, <2>1, <3>1
  <2>2. CASE ~(i <= m)
    <3>1. i - m \in 1..n /\ s + m + (i - m) = s + i BY <2>2
    <3> QED BY <1>2, <1>3, <2>2, <3>1
  <2> QED BY <2>1, <2>2
<1>5. p \o q = r
  BY <1>1, <1>3, <1>4, SeqEqual DEF Data
<1> QED BY <1>5 DEF p, q, r

LEMMA PieceJoin ==
    ASSUME NEW c \in Conn, NEW s \in Nat, NEW f \in Nat, NEW e \in Nat, s <= f, f <= e
    PROVE  Piece(c, s, f - s) \o Piece(c, f, e - f) = Piece(c, s, e - s)
<1>1. PICK m \in Nat, n \in Nat : f = s + m /\ e = f + n
  <2>1. f - s \in Nat /\ e - f \in Nat /\ f = s + (f - s) /\ e = f + (e - f) OBVIOUS
  <2> QED BY <2>1
<1>2. f - s = m /\ e - f = n /\ e - s = m + n
  BY <1>1
<1>3. Piece(c, s, m) \o Piece(c, s + m, n) = Piece(c, s, m + n)
  BY ONLY <1>1, PieceConcat, c \in Conn, s \in Nat
<1> QED BY <1>1, <1>2, <1>3

LEMMA BytesPiece ==
    ASSUME NEW n PROVE Bytes(n) = Piece(chunk.conn, chunk.from, n)
BY DEF Bytes, Piece

LEMMA FramePiece ==
    ASSUME NEW c, NEW k PROVE Frame(c, k) = Piece(c, Start(c, k), FrameLen(c, k))
BY DEF Frame, Piece

(***************************************************************************)
(* What the four branches of makeNewTask come to under the invariant: they *)
(* finish the request that makeNewTask is in, or keep the part of it.      *)
(***************************************************************************)
InRequest ==
    LET c == chunk.conn IN
    /\ chunk.len \in 1..BufLen /\ c \in Conn /\ chunk.fd \in Fd /\ chunk.from \in Nat
    /\ Len(tasks[c]) \in Nat /\ Len(tasks[c]) < Len(End[c])
    /\ NextTask(c) \in 1..Len(End[c])
    /\ Begin(c) \in Nat /\ Begin(c) <= chunk.from
    /\ chunk.from < Start(c, NextTask(c) + 1) /\ Start(c, NextTask(c) + 1) \in Nat
    /\ pos[c] = chunk.from + chunk.len

Complete ==
    LET c == chunk.conn
        n == Start(c, NextTask(c) + 1) - chunk.from
    IN
    /\ n <= chunk.len
    /\ tasks' = [tasks EXCEPT ![c] =
                    Append(@, [client |-> chunk.fd, data |-> Frame(c, NextTask(c))])]
    /\ m_recvList' = [m_recvList EXCEPT ![chunk.fd] = NoData]
    /\ chunk' = Rest(n)
    /\ UNCHANGED <<fdOf, open, pos, terminated>>

Keep ==
    LET c == chunk.conn IN
    /\ pos[c] < Start(c, NextTask(c) + 1)
    /\ m_recvList' = [m_recvList EXCEPT ![chunk.fd] =
                        [m_len |-> FrameLen(c, NextTask(c)),
                         m_databuf |-> Piece(c, Begin(c), pos[c] - Begin(c))]]
    /\ chunk' = NoChunk
    /\ UNCHANGED <<fdOf, open, pos, tasks, terminated>>

LEMMA ChunkInRequest ==
    ASSUME Inv, chunk.len > 0
    PROVE  InRequest
<1> DEFINE c == chunk.conn
<1>1. /\ c \in Conn /\ chunk.fd \in Fd /\ chunk.from \in Nat /\ chunk.len \in 1..BufLen
      /\ pos[c] = chunk.from + chunk.len /\ Consumed(c) = chunk.from
  BY StreamAssumption DEF Inv, ChunkInv, TypeOK, Consumed
<1>2. Len(tasks[c]) \in Nat
  BY <1>1 DEF Inv, TypeOK
<1>3. /\ Len(tasks[c]) <= Len(End[c]) /\ Begin(c) <= chunk.from
      /\ Len(tasks[c]) < Len(End[c]) => chunk.from < Start(c, NextTask(c) + 1)
      /\ pos[c] <= Len(Stream[c])
  BY <1>1 DEF Inv, DoneInv, EdgeInv
<1>4. Len(tasks[c]) # Len(End[c])
  <2>1. Start(c, Len(End[c]) + 1) = Len(Stream[c]) /\ Len(Stream[c]) \in Nat
    BY <1>1, StreamFacts
  <2>2. CASE Len(tasks[c]) = Len(End[c])
    <3>1. Begin(c) = Len(Stream[c]) BY <2>1, <2>2 DEF Begin, NextTask
    <3> QED BY <1>1, <1>3, <2>1, <3>1
  <2> QED BY <2>2
<1>5. NextTask(c) \in 1..Len(End[c]) /\ NextTask(c) + 1 \in 1..(Len(End[c]) + 1)
  <2>1. Len(End[c]) \in Nat
    BY <1>1, StreamFacts
  <2>2. \A a, b \in Nat : a <= b /\ a # b => a + 1 \in 1..b /\ (a + 1) + 1 \in 1..(b + 1)
    OBVIOUS
  <2> QED BY <1>2, <1>3, <1>4, <2>1, <2>2 DEF NextTask
<1>6. Begin(c) \in Nat /\ Start(c, NextTask(c) + 1) \in Nat
  BY <1>1, <1>5, StreamFacts DEF Begin
<1>7. Len(tasks[c]) < Len(End[c])
  BY <1>1, <1>2, <1>3, <1>4, StreamFacts
<1> QED BY <1>1, <1>2, <1>3, <1>5, <1>6, <1>7 DEF InRequest

(* Without a part, the chunk begins with a request and holds its length. *)
LEMMA ReadsHeader ==
    ASSUME Inv, chunk.len > 0, ~Merging
    PROVE  /\ chunk.from = Begin(chunk.conn)
           /\ \A junk : Uint(HeaderAt(junk)) = FrameLen(chunk.conn, NextTask(chunk.conn))
<1> DEFINE c == chunk.conn
           k == NextTask(c)
<1>1. InRequest
  BY ChunkInRequest
<1>2. /\ c \in Conn /\ k \in 1..Len(End[c]) /\ Begin(c) = Start(c, k)
      /\ Begin(c) \in Nat /\ chunk.from \in Nat /\ chunk.len \in Nat
  BY <1>1 DEF InRequest, Begin
<1>3. m_recvList[chunk.fd] = Part(c) /\ Consumed(c) = chunk.from
  BY DEF Inv, PartInv, Consumed
<1>4. chunk.from = Begin(c)
  <2> SUFFICES ASSUME chunk.from # Begin(c) PROVE FALSE
    OBVIOUS
  <2>1. m_recvList[chunk.fd].m_len = FrameLen(c, k)
    BY <1>3 DEF Part
  <2>2. FrameLen(c, k) \in Nat /\ FrameLen(c, k) >= 4
    BY <1>2, FrameFacts
  <2> QED BY <2>1, <2>2 DEF Merging
<1>5. chunk.len >= 4
  <2>1. ~CutsHeader(c, pos[c])
    BY <1>2 DEF Inv, EdgeInv
  <2>2. pos[c] = Start(c, k) + chunk.len
    BY <1>1, <1>2, <1>4 DEF InRequest
  <2>3. ~(Start(c, k) < pos[c] /\ pos[c] < Start(c, k) + 4)
    BY <2>1, <1>2 DEF CutsHeader, HeaderLen
  <2> QED BY <2>2, <2>3, <1>2
<1>6. ASSUME NEW junk
      PROVE  Uint(HeaderAt(junk)) = FrameLen(c, k)
  <2>1. HeaderAt(junk) = [j \in 1..HeaderLen |-> Stream[c][Start(c, k) + j]]
    BY <1>2, <1>4, <1>5 DEF HeaderAt, HeaderLen
  <2> QED BY <2>1, <1>2, FrameFacts
<1> QED BY <1>4, <1>6

(* With one, it is the beginning of the request, and the unsigned sum does *)
(* not wrap.                                                               *)
LEMMA HoldsPart ==
    ASSUME Inv, chunk.len > 0, Merging
    PROVE  LET c == chunk.conn IN
           /\ Begin(c) < chunk.from
           /\ m_recvList[chunk.fd] = [m_len |-> FrameLen(c, NextTask(c)),
                                      m_databuf |-> Piece(c, Begin(c), chunk.from - Begin(c))]
           /\ Len(m_recvList[chunk.fd].m_databuf) = chunk.from - Begin(c)
           /\ m_recvList[chunk.fd].m_len = Start(c, NextTask(c) + 1) - Begin(c)
           /\ StillPart(m_recvList[chunk.fd]) <=> pos[c] < Start(c, NextTask(c) + 1)
<1> DEFINE c == chunk.conn
           k == NextTask(c)
           data == m_recvList[chunk.fd]
           cur == chunk.from - Begin(c)
<1>1. InRequest
  BY ChunkInRequest
<1>2. /\ c \in Conn /\ k \in 1..Len(End[c]) /\ Begin(c) = Start(c, k)
      /\ Begin(c) \in Nat /\ chunk.from \in Nat /\ chunk.len \in 1..BufLen
      /\ Start(c, k + 1) \in Nat /\ Begin(c) <= chunk.from /\ chunk.from < Start(c, k + 1)
      /\ pos[c] = chunk.from + chunk.len
  BY <1>1 DEF InRequest, Begin
<1>3. data = Part(c) /\ Consumed(c) = chunk.from
  BY DEF Inv, PartInv, Consumed
<1>4. chunk.from # Begin(c)
  BY <1>3 DEF Part, NoData, Merging
<1>5. data = [m_len |-> FrameLen(c, k), m_databuf |-> Piece(c, Begin(c), cur)]
  BY <1>3, <1>4 DEF Part
<1>6. cur \in Nat /\ cur > 0
  BY <1>2, <1>4
<1>7. Len(data.m_databuf) = cur
  BY <1>2, <1>5, <1>6, PieceSeq
<1>8. /\ data.m_len = Start(c, k + 1) - Begin(c) /\ data.m_len \in Nat
      /\ data.m_len + BufLen <= UintMod
  <2>1. /\ FrameLen(c, k) = Start(c, k + 1) - Start(c, k) /\ FrameLen(c, k) \in Nat
        /\ FrameLen(c, k) + BufLen <= UintMod
    BY <1>2, FrameFacts
  <2> QED BY <1>2, <1>5, <2>1
<1>9. StillPart(data) <=> pos[c] < Start(c, k + 1)
  <2>1. /\ chunk.len + cur \in Nat /\ UintMod \in Nat /\ BufLen \in Nat
        /\ chunk.len + cur < UintMod
    <3>1. UintMod \in Nat /\ BufLen \in Nat
      BY UintModNat, StreamAssumption
    <3>2. cur < data.m_len
      BY <1>2, <1>8
    <3>3. \A l, x, d, b, u \in Nat : l <= b /\ x < d /\ d + b <= u =>
                                      l + x \in Nat /\ l + x < u
      OBVIOUS
    <3>4. chunk.len \in Nat /\ chunk.len <= BufLen
      BY <1>2, <3>1
    <3> HIDE DEF cur, data
    <3> QED BY <1>6, <1>8, <3>1, <3>2, <3>3, <3>4
  <2>2. (chunk.len + cur) % UintMod = chunk.len + cur
    BY <2>1
  <2>3. chunk.len + cur < data.m_len <=> pos[c] < Start(c, k + 1)
    BY <1>2, <1>8
  <2> QED BY <1>7, <2>2, <2>3 DEF StillPart
<1> QED BY <1>2, <1>4, <1>5, <1>7, <1>8, <1>9

LEMMA DataExcept ==
    ASSUME NEW S, NEW T, NEW data \in [m_len : S, m_databuf : T], NEW buf \in T
    PROVE  [data EXCEPT !.m_databuf = buf] = [m_len |-> data.m_len, m_databuf |-> buf]
OBVIOUS

LEMMA MakesStep ==
    ASSUME Inv, MakeNewTask
    PROVE  chunk.len > 0 /\ (Complete \/ Keep)
<1> DEFINE c == chunk.conn
           k == NextTask(c)
<1>1. chunk.len > 0
  BY DEF MakeNewTask, WholeRequest, FirstPart, AppendPart, LastPart
<1>2. /\ c \in Conn /\ k \in 1..Len(End[c]) /\ Begin(c) = Start(c, k)
      /\ Begin(c) \in Nat /\ chunk.from \in Nat /\ chunk.len \in Nat /\ chunk.fd \in Fd
      /\ Start(c, k + 1) \in Nat /\ chunk.from < Start(c, k + 1)
      /\ pos[c] = chunk.from + chunk.len
  BY <1>1, ChunkInRequest DEF InRequest, Begin
<1>3. FrameLen(c, k) = Start(c, k + 1) - Start(c, k) /\ FrameLen(c, k) \in Nat
  BY <1>2, FrameFacts
<1>4. Frame(c, k) = Piece(c, Begin(c), FrameLen(c, k))
  BY <1>2, FramePiece
<1>5. m_recvList = [f \in Fd |-> m_recvList[f]]
  BY DEF Inv, TypeOK
<1>6. CASE WholeRequest
  <2>1. ~Merging BY <1>6 DEF WholeRequest
  <2>2. PICK junk \in [1..HeaderLen -> Byte] :
          LET totalLen == Uint(HeaderAt(junk)) IN
          /\ totalLen <= chunk.len /\ AddTask(Bytes(totalLen)) /\ chunk' = Rest(totalLen)
    BY <1>6 DEF WholeRequest
  <2>3. Uint(HeaderAt(junk)) = FrameLen(c, k) /\ chunk.from = Begin(c)
    BY <1>1, <2>1, ReadsHeader
  <2>4. /\ FrameLen(c, k) <= chunk.len /\ AddTask(Bytes(FrameLen(c, k)))
        /\ chunk' = Rest(FrameLen(c, k))
    BY <2>2, <2>3
  <2>5. FrameLen(c, k) = Start(c, k + 1) - chunk.from
    BY <1>2, <1>3, <2>3
  <2>6. Bytes(FrameLen(c, k)) = Frame(c, k)
    BY <1>4, <2>3, BytesPiece
  <2>7. m_recvList[chunk.fd] = NoData
    BY <1>1, <2>3 DEF Inv, PartInv, Part, Consumed
  <2>8. m_recvList' = [m_recvList EXCEPT ![chunk.fd] = NoData]
    BY <1>5, <1>6, <2>7 DEF WholeRequest
  <2>9. Complete
    BY <1>6, <2>4, <2>5, <2>6, <2>8 DEF Complete, WholeRequest, AddTask
  <2> QED BY <1>1, <2>9
<1>7. CASE FirstPart
  <2>1. ~Merging BY <1>7 DEF FirstPart
  <2>2. PICK junk \in [1..HeaderLen -> Byte] :
          LET totalLen == Uint(HeaderAt(junk)) IN
          /\ totalLen > chunk.len
          /\ m_recvList' = [m_recvList EXCEPT
               ![chunk.fd] = [m_len |-> totalLen, m_databuf |-> Bytes(chunk.len)]]
    BY <1>7 DEF FirstPart
  <2>3. Uint(HeaderAt(junk)) = FrameLen(c, k) /\ chunk.from = Begin(c)
    BY <1>1, <2>1, ReadsHeader
  <2>4. pos[c] < Start(c, k + 1) /\ pos[c] - Begin(c) = chunk.len
    BY <1>2, <1>3, <2>2, <2>3
  <2>5. Bytes(chunk.len) = Piece(c, Begin(c), pos[c] - Begin(c))
    BY <2>3, <2>4, BytesPiece
  <2>6. Keep
    BY <1>7, <2>2, <2>3, <2>4, <2>5 DEF Keep, FirstPart
  <2> QED BY <1>1, <2>6
<1>8. CASE AppendPart
  <2>1. Merging /\ StillPart(m_recvList[chunk.fd])
    BY <1>8 DEF AppendPart
  <2>2. /\ Begin(c) < chunk.from /\ pos[c] < Start(c, k + 1)
        /\ m_recvList[chunk.fd] = [m_len |-> FrameLen(c, k),
                                   m_databuf |-> Piece(c, Begin(c), chunk.from - Begin(c))]
    BY <1>1, <2>1, HoldsPart
  <2>3. Piece(c, Begin(c), chunk.from - Begin(c)) \o Bytes(chunk.len)
          = Piece(c, Begin(c), pos[c] - Begin(c))
    <3>1. pos[c] \in Nat /\ chunk.from <= pos[c] /\ pos[c] - chunk.from = chunk.len
      BY <1>2
    <3>2. Bytes(chunk.len) = Piece(c, chunk.from, pos[c] - chunk.from)
      BY <3>1, BytesPiece
    <3>3. Begin(c) <= chunk.from
      BY <1>2, <2>2
    <3>4. Piece(c, Begin(c), chunk.from - Begin(c)) \o Piece(c, chunk.from, pos[c] - chunk.from)
            = Piece(c, Begin(c), pos[c] - Begin(c))
      <4>1. PICK s, f, e : s = Begin(c) /\ f = chunk.from /\ e = pos[c]
        OBVIOUS
      <4>2. s \in Nat /\ f \in Nat /\ e \in Nat /\ s <= f /\ f <= e /\ c \in Conn
        BY <1>2, <3>1, <3>3, <4>1
      <4>3. Piece(c, s, f - s) \o Piece(c, f, e - f) = Piece(c, s, e - s)
        BY ONLY <4>2, PieceJoin
      <4> QED BY <4>1, <4>3
    <3> QED BY <3>2, <3>4
  <2>4. [m_recvList[chunk.fd] EXCEPT !.m_databuf = @ \o Bytes(chunk.len)]
          = [m_len |-> FrameLen(c, k), m_databuf |-> Piece(c, Begin(c), pos[c] - Begin(c))]
    <3>1. m_recvList[chunk.fd] \in [m_len : 0..(UintMod - 1), m_databuf : Data]
      BY <1>2 DEF Inv, TypeOK
    <3>2. Piece(c, Begin(c), pos[c] - Begin(c)) \in Data
      BY <1>2, <2>2, PieceSeq
    <3> QED BY <2>2, <2>3, <3>1, <3>2, DataExcept
  <2>5. m_recvList' = [m_recvList EXCEPT ![chunk.fd] =
          [m_recvList[chunk.fd] EXCEPT !.m_databuf = @ \o Bytes(chunk.len)]]
    BY <1>2, <1>5, <1>8 DEF AppendPart
  <2>6. m_recvList' = [m_recvList EXCEPT ![chunk.fd] =
          [m_len |-> FrameLen(c, k), m_databuf |-> Piece(c, Begin(c), pos[c] - Begin(c))]]
    BY <2>4, <2>5
  <2>7. Keep
    BY <1>8, <2>2, <2>6 DEF Keep, AppendPart
  <2> QED BY <1>1, <2>7
<1>9. CASE LastPart
  <2> DEFINE data == m_recvList[chunk.fd]
             n == data.m_len - Len(data.m_databuf)
  <2>1. Merging /\ ~StillPart(data)
    BY <1>9 DEF LastPart
  <2>2. /\ Begin(c) < chunk.from /\ ~(pos[c] < Start(c, k + 1))
        /\ data = [m_len |-> FrameLen(c, k),
                   m_databuf |-> Piece(c, Begin(c), chunk.from - Begin(c))]
        /\ Len(data.m_databuf) = chunk.from - Begin(c)
        /\ data.m_len = Start(c, k + 1) - Begin(c)
    BY <1>1, <2>1, HoldsPart
  <2>3. data.m_databuf = Piece(c, Begin(c), chunk.from - Begin(c))
    BY <2>2
  <2>4. n = Start(c, k + 1) - chunk.from /\ n <= chunk.len
    <3>1. \A e, b, f, l \in Nat : (e - b) - (f - b) = e - f /\ (~(f + l < e) => e - f <= l)
      OBVIOUS
    <3>2. /\ Start(c, k + 1) \in Nat /\ Begin(c) \in Nat /\ chunk.from \in Nat
          /\ chunk.len \in Nat /\ pos[c] = chunk.from + chunk.len
      BY <1>2
    <3> HIDE DEF data
    <3> QED BY <2>2, <3>1, <3>2
  <2> HIDE DEF n, data
  <2>5. data.m_databuf \o Bytes(n) = Frame(c, k)
    <3>1. Bytes(n) = Piece(c, chunk.from, Start(c, k + 1) - chunk.from)
      BY <2>4, BytesPiece
    <3>2. Begin(c) <= chunk.from /\ chunk.from <= Start(c, k + 1)
      BY <1>2, <2>2
    <3>3. Piece(c, Begin(c), chunk.from - Begin(c))
            \o Piece(c, chunk.from, Start(c, k + 1) - chunk.from)
            = Piece(c, Begin(c), Start(c, k + 1) - Begin(c))
      BY <1>2, <3>2, PieceJoin
    <3> QED BY <1>2, <1>3, <1>4, <2>3, <3>1, <3>3
  <2>6. /\ AddTask(data.m_databuf \o Bytes(n)) /\ m_recvList' = Erased(m_recvList)
        /\ chunk' = Rest(n) /\ UNCHANGED <<fdOf, open, pos, terminated>>
    BY <1>9 DEF LastPart, n, data
  <2>7. Complete
    BY <2>4, <2>5, <2>6 DEF Complete, AddTask, Erased
  <2> QED BY <1>1, <2>7
<1> QED BY <1>6, <1>7, <1>8, <1>9 DEF MakeNewTask

(***************************************************************************)
(* Every step keeps the invariant.                                         *)
(***************************************************************************)
(* A connection that a step leaves alone. *)
LEMMA OtherSame ==
    ASSUME NEW d \in Conn, pos'[d] = pos[d], tasks'[d] = tasks[d], Consumed(d)' = Consumed(d)
    PROVE  Begin(d)' = Begin(d) /\ NextTask(d)' = NextTask(d) /\ Part(d)' = Part(d)
BY DEF Begin, NextTask, Part

(* The place behind a request that is complete is where the next begins. *)
LEMMA AtEndIsBegin ==
    ASSUME Inv, NEW c \in Conn, AtEnd(c), Consumed(c) = pos[c]
    PROVE  Consumed(c) = Begin(c)
<1>1. PICK k \in 1..(Len(End[c]) + 1) : pos[c] = Start(c, k)
  BY DEF AtEnd
<1>2. Len(tasks[c]) \in Nat /\ Len(tasks[c]) <= Len(End[c]) /\ Begin(c) <= pos[c]
  BY DEF Inv, TypeOK, DoneInv
<1>3. Len(tasks[c]) < Len(End[c]) => pos[c] < Start(c, NextTask(c) + 1)
  BY DEF Inv, DoneInv
<1> DEFINE n == NextTask(c)
<1>4. n \in 1..(Len(End[c]) + 1) /\ Start(c, n) \in Nat /\ Start(c, k) \in Nat
  BY <1>2, StreamFacts DEF NextTask
<1>5. CASE k < n
  <2>1. Start(c, k) + 4 <= Start(c, n)
    BY <1>4, <1>5, StreamFacts
  <2> QED BY <1>1, <1>2, <1>4, <2>1 DEF Begin
<1>6. CASE n < k
  <2>1. Len(tasks[c]) < Len(End[c]) /\ n + 1 \in 1..(Len(End[c]) + 1) /\ n + 1 <= k
    BY <1>2, <1>6, StreamFacts DEF NextTask
  <2>2. Start(c, n + 1) \in Nat /\ Start(c, n + 1) <= Start(c, k)
    <3>1. Start(c, n + 1) \in Nat
      BY <2>1, StreamFacts
    <3>2. CASE n + 1 = k BY <1>4, <3>1, <3>2
    <3>3. CASE n + 1 < k
      <4>1. Start(c, n + 1) + 4 <= Start(c, k) BY <2>1, <3>3, StreamFacts
      <4> QED BY <1>4, <3>1, <4>1
    <3> QED BY <1>4, <2>1, <3>2, <3>3
  <2> QED BY <1>1, <1>3, <1>4, <2>1, <2>2
<1> QED BY <1>1, <1>4, <1>5, <1>6 DEF Begin

LEMMA InitInv == Init => Inv
<1> SUFFICES ASSUME Init PROVE Inv
  OBVIOUS
<1> USE StreamAssumption DEF Init
<1>1. TypeOK
  <2>1. 0 \in 0..(UintMod - 1)
    BY UintModNat
  <2>2. terminated \in BOOLEAN
    OBVIOUS
  <2> QED BY <2>1, <2>2 DEF TypeOK, NoChunk, NoData, Data
<1>2. ChunkInv /\ FdInv
  BY DEF ChunkInv, FdInv, NoChunk
<1>3. ASSUME NEW c \in Conn
      PROVE  /\ Consumed(c) = 0 /\ Begin(c) = 0 /\ NextTask(c) = 1 /\ Len(tasks[c]) = 0
             /\ pos[c] = 0 /\ tasks[c] = <<>>
  BY <1>3, StreamFacts DEF Consumed, NoChunk, Begin, NextTask
<1>4. EdgeInv
  <2>1. ASSUME NEW c \in Conn
        PROVE  AtEnd(c) /\ ~CutsHeader(c, 0) /\ 0 <= Len(Stream[c])
    <3>1. \A k \in 1..Len(End[c]) : Start(c, k) \in Nat
      BY StreamFacts
    <3> QED BY <1>3, <3>1, StreamFacts DEF AtEnd, CutsHeader
  <2> QED BY <1>3, <2>1 DEF EdgeInv
<1>5. DoneInv
  <2>1. ASSUME NEW c \in Conn, 0 < Len(End[c])
        PROVE  0 < Start(c, 2)
    <3>1. 1 \in 1..(Len(End[c]) + 1) /\ 2 \in 1..(Len(End[c]) + 1)
      BY <2>1, StreamFacts
    <3>2. Start(c, 1) + 4 <= Start(c, 2) /\ Start(c, 1) = 0 /\ Start(c, 2) \in Nat
      BY <3>1, StreamFacts
    <3> QED BY <3>2
  <2> QED BY <1>3, <2>1, StreamFacts DEF DoneInv
<1>6. PartInv
  BY DEF PartInv, NoChunk, InHand
<1> QED BY <1>1, <1>2, <1>4, <1>5, <1>6 DEF Inv

LEMMA AcceptInv ==
    ASSUME Inv, NEW c \in Conn, NEW f \in Fd, Accept(c, f)
    PROVE  Inv'
<1> USE StreamAssumption DEF Accept
<1>1. TypeOK'
  BY DEF Inv, TypeOK
<1>2. c # chunk.conn \/ ~(chunk.len > 0)
  BY DEF Inv, ChunkInv
<1>3. ChunkInv'
  BY <1>2 DEF Inv, TypeOK, ChunkInv
<1>4. FdInv'
  BY DEF Inv, TypeOK, FdInv
<1>5. \A d \in Conn : /\ Consumed(d)' = Consumed(d) /\ Begin(d)' = Begin(d)
                      /\ NextTask(d)' = NextTask(d) /\ Part(d)' = Part(d)
  BY DEF Consumed, Begin, NextTask, Part
<1>6. pos[c] = 0 /\ tasks[c] = <<>> /\ Consumed(c) = 0 /\ Begin(c) = 0
  BY <1>2, StreamFacts DEF Inv, EdgeInv, Consumed, Begin, NextTask
<1>7. EdgeInv'
  BY DEF Inv, TypeOK, EdgeInv, AtEnd
<1>8. DoneInv'
  <2>1. \A d \in Conn : d # c => fdOf'[d] = fdOf[d]
    BY DEF Inv, TypeOK
  <2>2. Len(tasks[c]) = 0
    BY <1>6
  <2> QED BY <1>5, <2>1, <2>2 DEF Inv, DoneInv
<1>9. PartInv'
  <2>1. fdOf'[c] = f /\ \A d \in Conn : d # c => fdOf'[d] = fdOf[d]
    BY DEF Inv, TypeOK
  <2>2. \A g : InHand(g)' = InHand(g)
    BY DEF InHand
  <2>3. chunk.len > 0 => chunk.conn \in Conn
    BY DEF Inv, ChunkInv
  <2>4. Part(c) = NoData
    BY <1>6 DEF Part
  <2>5. open \subseteq Conn
    BY DEF Inv, TypeOK
  <2>6. (chunk.len > 0 => m_recvList[chunk.fd] = Part(chunk.conn))'
    BY <1>5, <2>3 DEF Inv, PartInv
  <2>7. ASSUME NEW d \in open'
        PROVE  (IF InHand(fdOf[d]) THEN d # chunk.conn => Consumed(d) = Begin(d)
                ELSE m_recvList[fdOf[d]] = Part(d))'
    <3>1. CASE d = c
      BY <1>5, <1>6, <2>1, <2>2, <2>4, <3>1 DEF Inv, PartInv
    <3>2. CASE d # c
      BY <1>5, <2>1, <2>2, <2>5, <3>2 DEF Inv, PartInv
    <3> QED BY <3>1, <3>2
  <2>8. ASSUME NEW g \in Fd, ~InHand(g)', \A d \in open' : fdOf'[d] # g
        PROVE  m_recvList'[g] = NoData
    BY <2>1, <2>2, <2>5, <2>8 DEF Inv, PartInv
  <2> QED BY <2>6, <2>7, <2>8 DEF PartInv
<1> QED BY <1>1, <1>3, <1>4, <1>7, <1>8, <1>9 DEF Inv

LEMMA CloseInv ==
    ASSUME Inv, ~MidClose, NEW c \in Conn, Close(c)
    PROVE  Inv'
<1> USE DEF Close
<1>1. TypeOK' /\ ChunkInv' /\ FdInv'
  BY DEF Inv, TypeOK, ChunkInv, FdInv
<1>2. \A d \in Conn : /\ Consumed(d)' = Consumed(d) /\ Begin(d)' = Begin(d)
                      /\ NextTask(d)' = NextTask(d) /\ Part(d)' = Part(d)
  BY DEF Consumed, Begin, NextTask, Part
<1>3. AtEnd(c)
  BY DEF AtEnd
<1>4. EdgeInv'
  BY <1>3 DEF Inv, EdgeInv, AtEnd
<1>5. DoneInv'
  BY <1>2 DEF Inv, DoneInv
<1>6. PartInv'
  <2>1. \A g : InHand(g)' = InHand(g)
    BY DEF InHand
  <2>2. chunk.len > 0 => chunk.conn \in Conn
    BY DEF Inv, ChunkInv
  <2>3. ~InHand(fdOf[c]) => m_recvList[fdOf[c]] = NoData
    <3> SUFFICES ASSUME ~InHand(fdOf[c]) PROVE m_recvList[fdOf[c]] = NoData
      OBVIOUS
    <3>1. Consumed(c) = pos[c]
      BY DEF Inv, ChunkInv, InHand, Consumed
    <3>2. Part(c) = NoData
      BY <1>3, <3>1, AtEndIsBegin DEF Part
    <3> QED BY <3>2 DEF Inv, PartInv
  <2>4. open' \subseteq open /\ open \subseteq Conn
    BY DEF Inv, TypeOK
  <2>5. ASSUME NEW g \in Fd, ~InHand(g)', \A d \in open' : fdOf'[d] # g
        PROVE  m_recvList'[g] = NoData
    <3>1. CASE g = fdOf[c] BY <2>1, <2>3, <2>5, <3>1
    <3>2. CASE g # fdOf[c] BY <2>1, <2>5, <3>2 DEF Inv, PartInv
    <3> QED BY <3>1, <3>2
  <2>6. ASSUME NEW d \in open'
        PROVE  (IF InHand(fdOf[d]) THEN d # chunk.conn => Consumed(d) = Begin(d)
                ELSE m_recvList[fdOf[d]] = Part(d))'
    BY <1>2, <2>1, <2>4 DEF Inv, PartInv
  <2>7. (chunk.len > 0 => m_recvList[chunk.fd] = Part(chunk.conn))'
    BY <1>2, <2>2 DEF Inv, PartInv
  <2> QED BY <2>5, <2>6, <2>7 DEF PartInv
<1> QED BY <1>1, <1>4, <1>5, <1>6 DEF Inv

LEMMA RecvInv ==
    ASSUME Inv, ~SplitHeader, NEW c \in Conn, NEW n \in 1..BufLen, Recv(c, n)
    PROVE  Inv'
<1> USE StreamAssumption DEF Recv
<1>1. /\ c \in open /\ pos[c] \in Nat /\ fdOf[c] \in Fd /\ n \in Nat /\ n > 0
      /\ chunk' = [fd |-> fdOf[c], conn |-> c, from |-> pos[c], len |-> n, off |-> 0]
      /\ pos'[c] = pos[c] + n /\ \A d \in Conn : d # c => pos'[d] = pos[d]
  BY DEF Inv, TypeOK, FdInv
<1>2. TypeOK'
  <2>1. pos' \in [Conn -> Nat]
    BY <1>1 DEF Inv, TypeOK
  <2>2. chunk' \in [fd : Fd \cup {0}, conn : Conn \cup {0}, from : Nat, len : 0..BufLen,
                   off : 0..BufLen]
    BY <1>1
  <2> QED BY <2>1, <2>2 DEF Inv, TypeOK
<1>3. ChunkInv'
  BY <1>1 DEF ChunkInv
<1>4. FdInv'
  BY DEF Inv, FdInv
<1>5. \A d \in Conn : Consumed(d)' = Consumed(d)
  BY <1>1 DEF Consumed
<1>6. \A d \in Conn : Begin(d)' = Begin(d) /\ NextTask(d)' = NextTask(d) /\ Part(d)' = Part(d)
  BY <1>5 DEF Begin, NextTask, Part
<1>7. EdgeInv'
  <2>1. /\ pos'[c] <= Len(Stream[c]) /\ ~CutsHeader(c, pos'[c])
    BY <1>1
  <2>2. 0 \notin Fd
    OBVIOUS
  <2>3. ASSUME NEW d \in Conn
        PROVE  (/\ pos[d] <= Len(Stream[d])
                /\ ~CutsHeader(d, pos[d])
                /\ d \notin open => AtEnd(d)
                /\ fdOf[d] = 0 => pos[d] = 0 /\ tasks[d] = <<>>)'
    <3>1. CASE d = c BY <1>1, <2>1, <2>2, <3>1 DEF CutsHeader
    <3>2. CASE d # c BY <1>1, <3>2 DEF Inv, EdgeInv, AtEnd, CutsHeader
    <3> QED BY <3>1, <3>2
  <2> QED BY <2>3 DEF EdgeInv
<1>8. DoneInv'
  BY <1>5, <1>6 DEF Inv, DoneInv
<1>9. PartInv'
  <2>1. \A g : InHand(g)' <=> g = fdOf[c]
    BY <1>1 DEF InHand
  <2>2. \A g : ~InHand(g)
    BY DEF InHand
  <2>3. m_recvList[fdOf[c]] = Part(c)
    BY <1>1, <2>2 DEF Inv, PartInv
  <2>4. (chunk.len > 0 => m_recvList[chunk.fd] = Part(chunk.conn))'
    BY <1>1, <1>6, <2>3
  <2>5. ASSUME NEW d \in open'
        PROVE  (IF InHand(fdOf[d]) THEN d # chunk.conn => Consumed(d) = Begin(d)
                ELSE m_recvList[fdOf[d]] = Part(d))'
    <3>1. d \in Conn /\ d \in open
      BY DEF Inv, TypeOK
    <3>2. CASE fdOf[d] = fdOf[c]
      <4>1. d = c BY <1>1, <3>1, <3>2 DEF Inv, FdInv
      <4> QED BY <1>1, <2>1, <4>1
    <3>3. CASE fdOf[d] # fdOf[c]
      BY <1>6, <2>1, <2>2, <3>1, <3>3 DEF Inv, PartInv
    <3> QED BY <3>2, <3>3
  <2>6. ASSUME NEW g \in Fd, ~InHand(g)', \A d \in open' : fdOf'[d] # g
        PROVE  m_recvList'[g] = NoData
    BY <2>2, <2>6 DEF Inv, PartInv
  <2> QED BY <2>4, <2>5, <2>6 DEF PartInv
<1> QED BY <1>2, <1>3, <1>4, <1>7, <1>8, <1>9 DEF Inv

(* The chunk is used up or goes on: its connection stays the same. *)
LEMMA OthersSame ==
    ASSUME Inv, chunk.len > 0, UNCHANGED pos,
           chunk'.len > 0 => chunk'.conn = chunk.conn,
           \A d \in Conn : d # chunk.conn => tasks'[d] = tasks[d]
    PROVE  \A d \in Conn : d # chunk.conn =>
             /\ Consumed(d)' = Consumed(d) /\ Begin(d)' = Begin(d)
             /\ NextTask(d)' = NextTask(d) /\ Part(d)' = Part(d)
<1>1. \A d \in Conn : d # chunk.conn => Consumed(d)' = Consumed(d)
  BY DEF Consumed
<1> QED BY <1>1, OtherSame

LEMMA CompleteInv ==
    ASSUME Inv, chunk.len > 0, NEW c \in Conn, c = chunk.conn, NEW k \in Nat, k = NextTask(c), Complete
    PROVE  Inv'
<1> DEFINE n == Start(c, k + 1) - chunk.from
           new == [client |-> chunk.fd, data |-> Frame(c, k)]
<1> USE DEF Complete
<1>1. InRequest
  BY ChunkInRequest
<1>2. /\ c \in Conn /\ chunk.fd \in Fd /\ k \in 1..Len(End[c]) /\ k = Len(tasks[c]) + 1
      /\ chunk.from \in Nat /\ chunk.len \in 1..BufLen /\ BufLen \in Nat
      /\ Start(c, k + 1) \in Nat /\ n \in Nat /\ n > 0 /\ n <= chunk.len
      /\ pos[c] = chunk.from + chunk.len /\ pos[c] \in Nat
      /\ Len(tasks[c]) \in Nat /\ Len(tasks[c]) < Len(End[c]) /\ Len(End[c]) \in Nat
  <2>1. /\ chunk.fd \in Fd /\ k \in 1..Len(End[c]) /\ k = Len(tasks[c]) + 1
        /\ chunk.from \in Nat /\ chunk.len \in 1..BufLen
        /\ Start(c, k + 1) \in Nat /\ chunk.from < Start(c, k + 1)
        /\ pos[c] = chunk.from + chunk.len
        /\ Len(tasks[c]) \in Nat /\ Len(tasks[c]) < Len(End[c])
    BY <1>1 DEF InRequest, NextTask
  <2>2. BufLen \in Nat /\ Len(End[c]) \in Nat
    BY StreamAssumption, StreamFacts
  <2>3. n <= chunk.len
    OBVIOUS
  <2>4. n \in Nat /\ n > 0 /\ pos[c] \in Nat
    <3>1. \A a, b \in Nat : (a < b => b - a \in Nat /\ b - a > 0) /\ a + b \in Nat
      OBVIOUS
    <3>2. chunk.len \in Nat
      BY <2>1, <2>2
    <3> QED BY <2>1, <3>1, <3>2
  <2> QED BY <2>1, <2>2, <2>3, <2>4
<1>3. /\ tasks \in [Conn -> Seq([client : Fd, data : Data])]
      /\ m_recvList \in [Fd -> [m_len : 0..(UintMod - 1), m_databuf : Data]]
      /\ chunk \in [fd : Fd \cup {0}, conn : Conn \cup {0}, from : Nat, len : 0..BufLen,
                    off : 0..BufLen]
      /\ fdOf[c] = chunk.fd /\ chunk.off + chunk.len <= BufLen
  BY DEF Inv, TypeOK, ChunkInv
<1>4. new \in [client : Fd, data : Data]
  <2>1. FrameLen(c, k) \in Nat /\ Start(c, k) \in Nat
    <3>1. k \in 1..(Len(End[c]) + 1) BY <1>2
    <3> QED BY <1>2, <3>1, FrameFacts, StreamFacts
  <2>2. Frame(c, k) \in Data
    BY <1>2, <2>1, FramePiece, PieceSeq
  <2> QED BY <1>2, <2>2
<1>5. /\ tasks' \in [Conn -> Seq([client : Fd, data : Data])]
      /\ tasks'[c] = Append(tasks[c], new)
      /\ \A d \in Conn : d # c => tasks'[d] = tasks[d]
  <2>1. Append(tasks[c], new) \in Seq([client : Fd, data : Data])
    BY <1>3, <1>4, AppendProperties
  <2> QED BY <1>2, <1>3, <2>1
<1>6. /\ Len(tasks'[c]) = k /\ tasks'[c][k] = new
      /\ \A i \in 1..Len(tasks[c]) : tasks'[c][i] = tasks[c][i]
  BY <1>2, <1>3, <1>4, <1>5, AppendProperties
<1>7. /\ m_recvList' \in [Fd -> [m_len : 0..(UintMod - 1), m_databuf : Data]]
      /\ m_recvList'[chunk.fd] = NoData
      /\ \A f \in Fd : f # chunk.fd => m_recvList'[f] = m_recvList[f]
  <2>1. NoData \in [m_len : 0..(UintMod - 1), m_databuf : Data]
    BY UintModNat DEF NoData, Data
  <2> QED BY <1>2, <1>3, <2>1
<1>8. /\ chunk' \in [fd : Fd \cup {0}, conn : Conn \cup {0}, from : Nat, len : 0..BufLen,
                     off : 0..BufLen]
      /\ chunk'.len > 0 => /\ chunk'.conn = c /\ chunk'.fd = chunk.fd
                           /\ chunk'.from = Start(c, k + 1)
                           /\ chunk'.from + chunk'.len = pos[c]
                           /\ chunk'.off + chunk'.len <= BufLen
      /\ ~(chunk'.len > 0) => pos[c] = Start(c, k + 1)
  <2>1. chunk' = Rest(n)
    OBVIOUS
  <2>2. CASE n = chunk.len
    <3>1. chunk' = NoChunk
      BY <2>1, <2>2 DEF Rest
    <3> QED BY <1>2, <2>2, <3>1 DEF NoChunk
  <2>3. CASE n # chunk.len
    <3>1. chunk' = [chunk EXCEPT !.from = @ + n, !.len = @ - n, !.off = @ + n]
      BY <2>1, <2>3 DEF Rest
    <3>2. /\ chunk'.conn = c /\ chunk'.fd = chunk.fd /\ chunk'.from = chunk.from + n
          /\ chunk'.len = chunk.len - n /\ chunk'.off = chunk.off + n
      BY <1>3, <3>1
    <3>3. /\ chunk.from + n = Start(c, k + 1) /\ chunk.len - n \in 1..BufLen
          /\ chunk.off + n \in 0..BufLen
          /\ chunk.from + n + (chunk.len - n) = pos[c]
          /\ chunk.off + n + (chunk.len - n) <= BufLen
      <4>1. /\ chunk.off \in Nat /\ chunk.from \in Nat /\ chunk.len \in Nat /\ BufLen \in Nat
            /\ chunk.off + chunk.len <= BufLen /\ chunk.len <= BufLen
        BY <1>2, <1>3
      <4>2. /\ n \in Nat /\ n <= chunk.len /\ n < chunk.len
            /\ Start(c, k + 1) \in Nat /\ n = Start(c, k + 1) - chunk.from
            /\ pos[c] = chunk.from + chunk.len
        BY <1>2, <2>3
      <4> HIDE DEF n
      <4>3. chunk.from + n = Start(c, k + 1) /\ chunk.len - n \in 1..BufLen
        <5>1. chunk.from + n = Start(c, k + 1) BY <4>1, <4>2
        <5>2. \A l, x, b \in Nat : x < l /\ l <= b => l - x \in 1..b OBVIOUS
        <5> QED BY <4>1, <4>2, <5>1, <5>2
      <4>4. chunk.off + n \in 0..BufLen
        <5>1. \A o, l, b, x \in Nat : o + l <= b /\ x <= l => o + x \in 0..b OBVIOUS
        <5> QED BY <4>1, <4>2, <5>1
      <4>5. chunk.from + n + (chunk.len - n) = pos[c] BY <4>1, <4>2
      <4>6. chunk.off + n + (chunk.len - n) <= BufLen BY <4>1, <4>2
      <4> QED BY <4>3, <4>4, <4>5, <4>6
    <3>4. chunk' \in [fd : Fd \cup {0}, conn : Conn \cup {0}, from : Nat, len : 0..BufLen,
                     off : 0..BufLen]
      <4>1. /\ chunk.from + n \in Nat /\ chunk.len - n \in 0..BufLen
            /\ chunk.off + n \in 0..BufLen
        BY <1>2, <3>3
      <4> HIDE DEF n
      <4> QED BY <1>3, <3>1, <4>1
    <3> QED BY <3>2, <3>3, <3>4
  <2> QED BY <2>2, <2>3
<1> HIDE DEF Complete, n, new
<1>9. fdOf' = fdOf /\ open' = open /\ pos' = pos /\ terminated' = terminated
  BY DEF Complete
<1>10. TypeOK'
  BY <1>5, <1>7, <1>8, <1>9 DEF Inv, TypeOK
<1>11. ChunkInv'
  BY <1>2, <1>3, <1>8, <1>9 DEF ChunkInv
<1>12. FdInv'
  BY <1>9 DEF Inv, FdInv
<1>13. /\ Consumed(c)' = Start(c, k + 1) /\ NextTask(c)' = k + 1 /\ Begin(c)' = Start(c, k + 1)
       /\ Part(c)' = NoData
  <2>1. Consumed(c)' = Start(c, k + 1)
    BY <1>8, <1>9 DEF Consumed
  <2>2. NextTask(c)' = k + 1
    BY <1>6 DEF NextTask
  <2> QED BY <2>1, <2>2 DEF Begin, Part
<1>14. \A d \in Conn : d # c =>
         /\ Consumed(d)' = Consumed(d) /\ Begin(d)' = Begin(d)
         /\ NextTask(d)' = NextTask(d) /\ Part(d)' = Part(d)
  BY <1>5, <1>8, <1>9, OthersSame
<1>15. EdgeInv'
  <2>1. fdOf[c] # 0
    BY <1>2, <1>3, StreamAssumption
  <2> QED BY <1>5, <1>9, <2>1 DEF Inv, EdgeInv, AtEnd, CutsHeader
<1>16. DoneInv'
  <2>1. (/\ Len(tasks[c]) <= Len(End[c])
         /\ \A i \in 1..Len(tasks[c]) : tasks[c][i] = [client |-> fdOf[c], data |-> Frame(c, i)]
         /\ Begin(c) <= Consumed(c)
         /\ Len(tasks[c]) < Len(End[c]) => Consumed(c) < Start(c, NextTask(c) + 1))'
    <3>1. \A i \in 1..Len(tasks[c]) : tasks[c][i] = [client |-> fdOf[c], data |-> Frame(c, i)]
      BY <1>2 DEF Inv, DoneInv
    <3>2. ASSUME NEW i \in 1..k
          PROVE  tasks'[c][i] = [client |-> fdOf[c], data |-> Frame(c, i)]
      <4>1. CASE i = k BY <1>3, <1>6, <4>1 DEF new
      <4>2. CASE i # k
        <5>1. i \in 1..Len(tasks[c]) BY <1>2, <4>2
        <5> QED BY <1>6, <3>1, <5>1
      <4> QED BY <4>1, <4>2
    <3>3. ASSUME k < Len(End[c])
          PROVE  Start(c, k + 1) < Start(c, k + 2)
      <4>1. /\ k + 1 \in 1..(Len(End[c]) + 1) /\ k + 2 \in 1..(Len(End[c]) + 1)
            /\ k + 1 < k + 2
        <5>1. Len(End[c]) \in Nat /\ k >= 1 BY <1>2
        <5> QED BY <3>3, <5>1
      <4>2. Start(c, k + 1) + 4 <= Start(c, k + 2) /\ Start(c, k + 2) \in Nat
        BY <1>2, <4>1, StreamFacts
      <4> QED BY <1>2, <4>2
    <3>4. k + 1 + 1 = k + 2 /\ k <= Len(End[c])
      BY <1>2
    <3> QED BY <1>2, <1>6, <1>9, <1>13, <3>2, <3>3, <3>4
  <2>2. ASSUME NEW d \in Conn, d # c
        PROVE  (/\ Len(tasks[d]) <= Len(End[d])
                /\ \A i \in 1..Len(tasks[d]) :
                     tasks[d][i] = [client |-> fdOf[d], data |-> Frame(d, i)]
                /\ Begin(d) <= Consumed(d)
                /\ Len(tasks[d]) < Len(End[d]) => Consumed(d) < Start(d, NextTask(d) + 1))'
    BY <1>5, <1>9, <1>14, <2>2 DEF Inv, DoneInv
  <2> QED BY <2>1, <2>2 DEF DoneInv
<1>17. PartInv'
  <2>1. \A g : InHand(g)' => InHand(g)
    BY <1>8 DEF InHand
  <2>2. (chunk.len > 0 => m_recvList[chunk.fd] = Part(chunk.conn))'
    BY <1>7, <1>8, <1>13
  <2>3. ASSUME NEW d \in open'
        PROVE  (IF InHand(fdOf[d]) THEN d # chunk.conn => Consumed(d) = Begin(d)
                ELSE m_recvList[fdOf[d]] = Part(d))'
    <3>1. d \in Conn /\ d \in open /\ fdOf'[d] = fdOf[d] /\ fdOf[d] \in Fd
      BY <1>9 DEF Inv, TypeOK, FdInv
    <3>2. CASE d = c
      BY <1>3, <1>7, <1>9, <1>13, <3>2
    <3>3. CASE d # c /\ fdOf[d] = chunk.fd
      <4>1. Consumed(d) = Begin(d)
        BY <3>1, <3>3 DEF Inv, PartInv, InHand
      <4>2. Part(d) = NoData
        BY <4>1 DEF Part
      <4> QED BY <1>7, <1>9, <1>14, <3>1, <3>3, <4>1, <4>2
    <3>4. CASE d # c /\ fdOf[d] # chunk.fd
      <4>1. ~InHand(fdOf[d])
        BY <3>4 DEF InHand
      <4>2. m_recvList[fdOf[d]] = Part(d)
        BY <3>1, <4>1 DEF Inv, PartInv
      <4> QED BY <1>7, <1>9, <1>14, <2>1, <3>1, <3>4, <4>1, <4>2
    <3> QED BY <3>2, <3>3, <3>4
  <2>4. ASSUME NEW g \in Fd, ~InHand(g)', \A d \in open' : fdOf'[d] # g
        PROVE  m_recvList'[g] = NoData
    <3>1. CASE g = chunk.fd BY <1>7, <3>1
    <3>2. CASE g # chunk.fd BY <1>7, <1>9, <2>4, <3>2 DEF Inv, PartInv, InHand
    <3> QED BY <3>1, <3>2
  <2> QED BY <2>2, <2>3, <2>4 DEF PartInv
<1> QED BY <1>10, <1>11, <1>12, <1>15, <1>16, <1>17 DEF Inv

LEMMA KeepInv ==
    ASSUME Inv, chunk.len > 0, NEW c \in Conn, c = chunk.conn, NEW k \in Nat, k = NextTask(c), Keep
    PROVE  Inv'
<1> DEFINE part == [m_len |-> FrameLen(c, k), m_databuf |-> Piece(c, Begin(c), pos[c] - Begin(c))]
<1>1. InRequest
  BY ChunkInRequest
<1>2. /\ c \in Conn /\ chunk.fd \in Fd /\ k \in 1..Len(End[c])
      /\ Begin(c) \in Nat /\ pos[c] \in Nat /\ Start(c, k + 1) \in Nat
      /\ Begin(c) < pos[c] /\ pos[c] < Start(c, k + 1)
      /\ Len(tasks[c]) \in Nat /\ Len(tasks[c]) < Len(End[c])
  BY <1>1 DEF InRequest, Keep
<1>3. /\ chunk' = NoChunk /\ m_recvList' = [m_recvList EXCEPT ![chunk.fd] = part]
      /\ fdOf' = fdOf /\ open' = open /\ pos' = pos /\ tasks' = tasks /\ terminated' = terminated
  BY DEF Keep
<1>4. part \in [m_len : 0..(UintMod - 1), m_databuf : Data]
  <2>1. /\ FrameLen(c, k) \in Nat /\ FrameLen(c, k) + BufLen <= UintMod
        /\ BufLen \in Nat /\ BufLen > 0 /\ UintMod \in Nat
    BY <1>2, FrameFacts, StreamAssumption, UintModNat
  <2>2. FrameLen(c, k) \in 0..(UintMod - 1)
    BY <2>1
  <2>3. pos[c] - Begin(c) \in Nat
    BY <1>2
  <2>4. Piece(c, Begin(c), pos[c] - Begin(c)) \in Data
    BY <1>2, <2>3, PieceSeq
  <2> QED BY <2>2, <2>4
<1> HIDE DEF part
<1>5. TypeOK'
  <2>1. m_recvList' \in [Fd -> [m_len : 0..(UintMod - 1), m_databuf : Data]]
    BY <1>2, <1>3, <1>4 DEF Inv, TypeOK
  <2>2. chunk' \in [fd : Fd \cup {0}, conn : Conn \cup {0}, from : Nat, len : 0..BufLen,
                   off : 0..BufLen]
    BY <1>3, StreamAssumption DEF NoChunk
  <2> QED BY <1>3, <2>1, <2>2 DEF Inv, TypeOK
<1>6. ChunkInv' /\ FdInv' /\ EdgeInv'
  BY <1>3 DEF Inv, ChunkInv, FdInv, EdgeInv, AtEnd, CutsHeader, NoChunk
<1>7. Consumed(c)' = pos[c] /\ Begin(c)' = Begin(c) /\ NextTask(c)' = k /\ Part(c)' = part
  <2>1. Consumed(c)' = pos[c]
    BY <1>3 DEF Consumed, NoChunk
  <2>2. Begin(c)' = Begin(c) /\ NextTask(c)' = k
    BY <1>3 DEF Begin, NextTask
  <2> QED BY <1>2, <2>1, <2>2 DEF Part, part
<1>8. \A d \in Conn : d # c =>
         /\ Consumed(d)' = Consumed(d) /\ Begin(d)' = Begin(d)
         /\ NextTask(d)' = NextTask(d) /\ Part(d)' = Part(d)
  BY <1>3, OthersSame DEF NoChunk
<1>9. DoneInv'
  BY <1>2, <1>3, <1>7, <1>8 DEF Inv, DoneInv
(* A client leaves between requests, so this one is still there. *)
<1>10. c \in open
  <2> SUFFICES ASSUME c \notin open PROVE FALSE
    OBVIOUS
  <2>1. PICK j \in 1..(Len(End[c]) + 1) : pos[c] = Start(c, j)
    BY <1>2 DEF Inv, EdgeInv, AtEnd
  <2>2. k \in 1..(Len(End[c]) + 1) /\ k + 1 \in 1..(Len(End[c]) + 1) /\ Len(End[c]) \in Nat
    <3>1. c \in Conn /\ k \in 1..Len(End[c])
      BY <1>2
    <3>2. Len(End[c]) \in Nat
      BY <3>1, StreamFacts
    <3>3. \A b \in Nat : \A a \in 1..b : a \in 1..(b + 1) /\ a + 1 \in 1..(b + 1)
      OBVIOUS
    <3> QED BY <3>1, <3>2, <3>3
  <2>3. CASE j <= k
    <3>1. CASE j = k BY <1>2, <2>1, <3>1 DEF Begin
    <3>2. CASE j < k
      <4>1. Start(c, j) + 4 <= Start(c, k) BY <1>2, <2>2, <3>2, StreamFacts
      <4> QED BY <1>2, <2>1, <4>1 DEF Begin
    <3> QED BY <2>3, <2>2, <3>1, <3>2
  <2>4. CASE k + 1 <= j
    <3>1. CASE j = k + 1 BY <1>2, <2>1, <3>1
    <3>2. CASE k + 1 < j
      <4>1. Start(c, k + 1) + 4 <= Start(c, j) BY <1>2, <2>2, <3>2, StreamFacts
      <4> QED BY <1>2, <2>1, <4>1
    <3> QED BY <2>4, <2>2, <3>1, <3>2
  <2> QED BY <2>2, <2>3, <2>4
<1>11. PartInv'
  <2>1. fdOf[c] = chunk.fd
    BY DEF Inv, ChunkInv
  <2>2. \A g : ~InHand(g)'
    BY <1>3 DEF InHand, NoChunk
  <2>3. /\ m_recvList'[chunk.fd] = part
        /\ \A f \in Fd : f # chunk.fd => m_recvList'[f] = m_recvList[f]
    BY <1>2, <1>3 DEF Inv, TypeOK
  <2>4. ASSUME NEW d \in open'
        PROVE  m_recvList'[fdOf'[d]] = Part(d)'
    <3>1. CASE d = c BY <1>3, <1>7, <2>1, <2>3, <3>1
    <3>2. CASE d # c
      <4>1. d \in open /\ d \in Conn /\ fdOf[d] \in Fd /\ fdOf[d] # chunk.fd
        BY <1>3, <1>10, <2>1, <3>2 DEF Inv, TypeOK, FdInv
      <4>2. m_recvList[fdOf[d]] = Part(d)
        BY <4>1 DEF Inv, PartInv, InHand
      <4> QED BY <1>3, <1>8, <2>3, <3>2, <4>1, <4>2
    <3> QED BY <3>1, <3>2
  <2>5. ASSUME NEW g \in Fd, \A d \in open' : fdOf'[d] # g
        PROVE  m_recvList'[g] = NoData
    <3>1. g # chunk.fd BY <1>3, <1>10, <2>1, <2>5
    <3> QED BY <1>3, <2>3, <2>5, <3>1 DEF Inv, PartInv, InHand
  <2> QED BY <1>3, <2>2, <2>4, <2>5 DEF PartInv, NoChunk
<1> QED BY <1>5, <1>6, <1>9, <1>11 DEF Inv

LEMMA StepInv ==
    ASSUME ~SplitHeader, ~MidClose
    PROVE  Inv /\ [Next]_vars => Inv'
<1> SUFFICES ASSUME Inv, [Next]_vars PROVE Inv'
  OBVIOUS
<1>1. ASSUME NEW c \in Conn, NEW f \in Fd, Accept(c, f) PROVE Inv'
  BY <1>1, AcceptInv
<1>2. ASSUME NEW c \in Conn, Close(c) PROVE Inv'
  BY <1>2, CloseInv
<1>3. ASSUME NEW c \in Conn, NEW n \in 1..BufLen, Recv(c, n) PROVE Inv'
  BY <1>3, RecvInv
<1>4. CASE MakeNewTask
  <2>1. chunk.len > 0 /\ (Complete \/ Keep)
    BY <1>4, MakesStep
  <2>2. \E c \in Conn, k \in Nat : c = chunk.conn /\ k = NextTask(c)
    <3>1. chunk.conn \in Conn /\ NextTask(chunk.conn) \in Nat
      BY <2>1, ChunkInRequest DEF InRequest, NextTask
    <3> QED BY <3>1
  <2> QED BY <2>1, <2>2, CompleteInv, KeepInv
<1>5. CASE BadAlloc \/ UNCHANGED vars
  <2>1. /\ fdOf' = fdOf /\ open' = open /\ pos' = pos /\ chunk' = chunk
        /\ m_recvList' = m_recvList /\ tasks' = tasks /\ terminated' \in {terminated, TRUE}
    BY <1>5 DEF BadAlloc, vars
  <2>2. TypeOK' /\ ChunkInv' /\ FdInv'
    BY <2>1 DEF Inv, TypeOK, ChunkInv, FdInv, Consumed
  <2>3. EdgeInv'
    BY <2>1 DEF Inv, EdgeInv, AtEnd
  <2>4. DoneInv'
    BY <2>1 DEF Inv, DoneInv, Consumed, Begin, NextTask
  <2>5. PartInv'
    BY <2>1 DEF Inv, PartInv, InHand, Part, Consumed, Begin, NextTask
  <2> QED BY <2>2, <2>3, <2>4, <2>5 DEF Inv
<1> QED BY <1>1, <1>2, <1>3, <1>4, <1>5 DEF Next

LEMMA SafeInv ==
    ASSUME ~SplitHeader, ~MidClose
    PROVE  Safe => []Inv
BY InitInv, StepInv, PTL DEF Safe

(***************************************************************************)
(* The theorems.                                                           *)
(***************************************************************************)
(* What makeNewTask keeps stays in range; m_len is an unsigned int. *)
THEOREM TypeCorrect == ~SplitHeader /\ ~MidClose => (Safe => []TypeOK)
<1> SUFFICES ASSUME ~SplitHeader, ~MidClose PROVE Safe => []TypeOK
  OBVIOUS
<1>1. Inv => TypeOK
  BY DEF Inv
<1> QED BY <1>1, SafeInv, PTL

(* However recv cuts and mixes the streams between length fields, onRecv    *)
(* makes one task of each request, in order, and leaves no complete request *)
(* behind.                                                                  *)
THEOREM FramingCorrect == ~SplitHeader /\ ~MidClose => (Safe => []TasksAreRequests)
<1> SUFFICES ASSUME ~SplitHeader, ~MidClose PROVE Safe => []TasksAreRequests
  OBVIOUS
<1>1. Inv => TasksAreRequests
  <2> SUFFICES ASSUME Inv, NEW c \in Conn
               PROVE  /\ Len(tasks[c]) <= Len(End[c])
                      /\ \A k \in 1..Len(tasks[c]) :
                           tasks[c][k] = [client |-> fdOf[c], data |-> Frame(c, k)]
                      /\ chunk.len = 0 => \A k \in 1..Len(End[c]) :
                           End[c][k] <= pos[c] => k <= Len(tasks[c])
    BY DEF TasksAreRequests
  <2>1. /\ Len(tasks[c]) <= Len(End[c])
        /\ \A k \in 1..Len(tasks[c]) :
             tasks[c][k] = [client |-> fdOf[c], data |-> Frame(c, k)]
    BY DEF Inv, DoneInv
  <2>2. ASSUME chunk.len = 0, NEW k \in 1..Len(End[c]), End[c][k] <= pos[c],
               ~(k <= Len(tasks[c]))
        PROVE  FALSE
    <3> DEFINE n == NextTask(c)
    <3>1. Len(tasks[c]) \in Nat /\ pos[c] \in Nat /\ Len(End[c]) \in Nat
      BY StreamFacts DEF Inv, TypeOK
    <3>2. /\ n \in 1..Len(End[c]) /\ n <= k /\ Len(tasks[c]) < Len(End[c])
          /\ n + 1 \in 1..(Len(End[c]) + 1) /\ k + 1 \in 1..(Len(End[c]) + 1)
      BY <2>2, <3>1 DEF NextTask
    <3>3. pos[c] < Start(c, n + 1)
      BY <2>2, <3>2 DEF Inv, DoneInv, Consumed
    <3>4. /\ Start(c, k + 1) = End[c][k] /\ Start(c, k + 1) \in Nat
          /\ Start(c, n + 1) \in Nat
      BY <3>2, StreamFacts
    <3>5. Start(c, n + 1) <= Start(c, k + 1)
      <4>1. CASE n = k BY <3>4, <4>1
      <4>2. CASE n < k
        <5>1. Start(c, n + 1) + 4 <= Start(c, k + 1) BY <3>2, <4>2, StreamFacts
        <5> QED BY <3>4, <5>1
      <4> QED BY <3>2, <4>1, <4>2
    <3> QED BY <2>2, <3>1, <3>3, <3>4, <3>5
  <2> QED BY <2>1, <2>2
<1> QED BY <1>1, SafeInv, PTL

(* The unsigned sums of makeNewTask do not wrap: no copy leaves its buffer. *)
THEOREM CopiesCorrect == ~SplitHeader /\ ~MidClose => (Safe => []CopiesInBounds)
<1> SUFFICES ASSUME ~SplitHeader, ~MidClose PROVE Safe => []CopiesInBounds
  OBVIOUS
<1>1. Inv => CopiesInBounds
  <2> SUFFICES ASSUME Inv, chunk.len > 0, Merging
               PROVE  LET data == m_recvList[chunk.fd]
                          room == data.m_len - Len(data.m_databuf)
                      IN  IF StillPart(data) THEN chunk.len <= room ELSE room <= chunk.len
    BY DEF CopiesInBounds
  <2> DEFINE c == chunk.conn
             data == m_recvList[chunk.fd]
             e == Start(c, NextTask(c) + 1)
  <2>1. /\ chunk.len \in Nat /\ chunk.from \in Nat /\ Begin(c) \in Nat /\ e \in Nat
        /\ pos[c] = chunk.from + chunk.len
    <3>1. InRequest
      BY ChunkInRequest
    <3> QED BY <3>1, StreamAssumption DEF InRequest
  <2>2. /\ Len(data.m_databuf) = chunk.from - Begin(c) /\ data.m_len = e - Begin(c)
        /\ StillPart(data) <=> pos[c] < e
    BY HoldsPart, Zenon
  <2> HIDE DEF c, data, e
  <2>3. data.m_len - Len(data.m_databuf) = e - chunk.from
    BY <2>1, <2>2
  <2>4. CASE StillPart(data)
    BY <2>1, <2>2, <2>3, <2>4 DEF data
  <2>5. CASE ~StillPart(data)
    BY <2>1, <2>2, <2>3, <2>5 DEF data
  <2> QED BY <2>4, <2>5 DEF data
<1> QED BY <1>1, SafeInv, PTL
===============================================================================
