------------------------------ MODULE ClientProofs ------------------------------
(***************************************************************************)
(* Proofs about module Client, for every number of threads, any request    *)
(* and answer, and all faults.                                             *)
(***************************************************************************)
EXTENDS Client, TLAPS, FiniteSetTheorems

(***************************************************************************)
(* Where a thread can be, by what it has done.                             *)
(***************************************************************************)
Early   == {"none", "instance", "new", "load"}
Copied  == {"socket", "bind", "connect", "send", "recv", "throw", "close", "parse",
            "done"}
Late    == Copied \cup {"copy"}
Replied == {"recv", "throw", "close", "parse", "done"}
AnyPc   == Early \cup {"store"} \cup Late

(* Threads that have stored an id. *)
Stored == {t \in Thread : pc[t] \in Late}

PcInv == pc \in [Thread -> AnyPc]

(* What a step does to one thread's place: the steps of the network stay    *)
(* behind the copy of the id, and leave ids and the object alone.           *)
NetStep(t) ==
    /\ pc[t] \in Copied /\ \E to \in Copied : pc' = [pc EXCEPT ![t] = to]
    /\ UNCHANGED <<m_instance, m_mutex, m_msgId, loaded, id>>

LEMMA RoundGoes ==
    ASSUME NEW t \in Thread, NEW buf, NEW len, Round(t, buf, len)
    PROVE  /\ pc[t] = "recv"
           /\ \E to \in {"recv", "throw", "close"} : pc' = [pc EXCEPT ![t] = to]
BY DEF Round, Goto

LEMMA IsNetStep ==
    ASSUME NEW t \in Thread,
           \/ SocketCall(t) \/ BindCall(t) \/ ConnectCall(t) \/ SendCall(t)
           \/ (\E n \in 1..SOCKETBUFFER_SIZE : RecvData(t, n))
           \/ RecvError(t) \/ RecvEnd(t) \/ CloseCall(t) \/ Parse(t)
    PROVE  NetStep(t)
<1> USE DEF NetStep, Copied, object, ids
<1>1. CASE SocketCall(t) BY <1>1 DEF SocketCall, Goto
<1>2. CASE BindCall(t) BY <1>2 DEF BindCall, Goto
<1>3. CASE ConnectCall(t) BY <1>3 DEF ConnectCall, Goto
<1>4. CASE SendCall(t) BY <1>4 DEF SendCall, Goto
<1>5. ASSUME NEW n \in 1..SOCKETBUFFER_SIZE, RecvData(t, n) PROVE NetStep(t)
  BY <1>5, RoundGoes DEF RecvData
<1>6. CASE RecvError(t) BY <1>6, RoundGoes DEF RecvError
<1>7. CASE RecvEnd(t) BY <1>7 DEF RecvEnd, Goto
<1>8. CASE CloseCall(t) BY <1>8 DEF CloseCall, Goto
<1>9. CASE Parse(t) BY <1>9 DEF Parse, Goto
<1> QED BY <1>1, <1>2, <1>3, <1>4, <1>5, <1>6, <1>7, <1>8, <1>9

(* The steps, sorted by what they can change of the ids and the object. *)
LEMMA StepCases ==
    ASSUME [Next]_vars
    PROVE  \/ StartThread \/ JoinThread
           \/ \E t \in Thread : \/ GetInstance(t) \/ NewInstance(t) \/ LoadId(t)
                                \/ StoreId(t) \/ CopyId(t) \/ NetStep(t)
           \/ UNCHANGED vars
<1>1. CASE UNCHANGED vars BY <1>1
<1>2. CASE Run BY <1>2, IsNetStep DEF Run, CreateClient
<1>3. ASSUME NEW t \in Thread, RecvError(t) \/ RecvEnd(t) PROVE NetStep(t)
  BY <1>3, IsNetStep
<1> QED BY <1>1, <1>2, <1>3 DEF Next

(***************************************************************************)
(* One protocol object.                                                    *)
(***************************************************************************)
(* m_mutex is held exactly by a thread that makes the object, and only when *)
(* there is none yet.                                                       *)
ObjectInv ==
    /\ PcInv
    /\ m_instance \in {0, 1}
    /\ \A t \in Thread : pc[t] = "new" => m_mutex = t /\ m_instance = 0

LEMMA ObjectStep == ObjectInv /\ [Next]_vars => ObjectInv'
<1> SUFFICES ASSUME ObjectInv, [Next]_vars PROVE ObjectInv'
  OBVIOUS
<1> USE DEF ObjectInv, PcInv, AnyPc, Early, Copied, Late, object, ids
<1>0. \A t \in Thread : t # 0
  BY ClientAssumption DEF Thread
<1>1. CASE StartThread
  <2>1. main + 1 \in Thread => ObjectInv'
    BY <1>1 DEF StartThread, Goto
  <2>2. main + 1 \notin Thread => pc' = pc
    BY <1>1 DEF StartThread, Goto
  <2> QED BY <1>1, <2>1, <2>2 DEF StartThread
<1>2. CASE JoinThread BY <1>2 DEF JoinThread
<1>3. ASSUME NEW t \in Thread, GetInstance(t) PROVE ObjectInv'
  BY <1>0, <1>3 DEF GetInstance, MayLock, Goto
<1>4. ASSUME NEW t \in Thread, NewInstance(t) PROVE ObjectInv'
  BY <1>4 DEF NewInstance, Goto
<1>5. ASSUME NEW t \in Thread, LoadId(t) PROVE ObjectInv'
  BY <1>5 DEF LoadId, Goto
<1>6. ASSUME NEW t \in Thread, StoreId(t) PROVE ObjectInv'
  BY <1>6 DEF StoreId, Goto
<1>7. ASSUME NEW t \in Thread, CopyId(t) PROVE ObjectInv'
  BY <1>7 DEF CopyId, Goto
<1>8. ASSUME NEW t \in Thread, NetStep(t) PROVE ObjectInv'
  BY <1>8 DEF NetStep
<1>9. CASE UNCHANGED vars BY <1>9 DEF vars
<1> QED BY StepCases, <1>1, <1>2, <1>3, <1>4, <1>5, <1>6, <1>7, <1>8, <1>9

LEMMA ObjectInit == Init => ObjectInv
BY DEF Init, ObjectInv, PcInv, AnyPc, Early

(* Threads that call getInstance at the same time make one object, however *)
(* many they are.                                                          *)
THEOREM OneObject == Safe => []OneInstance
<1>1. ObjectInv => OneInstance
  BY DEF ObjectInv, OneInstance
<1> QED BY ObjectInit, ObjectStep, <1>1, PTL DEF Safe

(***************************************************************************)
(* Message ids.                                                            *)
(***************************************************************************)
(* Ids and the counter are bounded by the number of threads that have       *)
(* stored one; the value a thread has loaded may be old, but that set only  *)
(* grows.  Once an id was stored the counter is never 0 again.              *)
IdInv ==
    /\ PcInv
    /\ m_msgId \in Nat /\ m_msgId <= Cardinality(Stored)
    /\ loaded \in [Thread -> Nat] /\ id \in [Thread -> Nat]
    /\ \A t \in Thread : pc[t] = "store" => loaded[t] <= Cardinality(Stored)
    /\ \A t \in Thread : pc[t] \in Late => m_msgId >= 1
    /\ \A t \in Thread : pc[t] \in Copied =>
         1 <= id[t] /\ id[t] <= Cardinality(Stored)

LEMMA StoredFinite ==
    /\ IsFiniteSet(Stored) /\ Cardinality(Stored) \in Nat
    /\ Cardinality(Stored) <= NumThreads
<1>1. IsFiniteSet(Thread) /\ Cardinality(Thread) = NumThreads
  BY FS_Interval, ClientAssumption DEF Thread
<1>2. Stored \subseteq Thread
  BY DEF Stored
<1> QED BY <1>1, <1>2, FS_Subset, FS_CardinalityType

LEMMA IdInit == Init => IdInv
<1> SUFFICES ASSUME Init PROVE IdInv
  OBVIOUS
<1>1. Cardinality(Stored) \in Nat
  BY StoredFinite
<1> QED BY <1>1 DEF Init, IdInv, PcInv, AnyPc, Early, Copied, Late

LEMMA IdStep == IdInv /\ [Next]_vars => IdInv'
<1> SUFFICES ASSUME IdInv, [Next]_vars PROVE IdInv'
  OBVIOUS
<1>0. Cardinality(Stored) \in Nat
  BY StoredFinite
<1> USE DEF IdInv, PcInv, AnyPc, Early, Copied, Late, object, ids
<1>1. CASE StartThread
  <2>1. Stored' = Stored
    BY <1>1 DEF StartThread, Goto, Stored
  <2> QED BY <1>1, <2>1, <1>0 DEF StartThread, Goto
<1>2. CASE JoinThread
  <2>1. Stored' = Stored
    BY <1>2 DEF JoinThread, Stored
  <2> QED BY <1>2, <2>1, <1>0 DEF JoinThread
<1>3. ASSUME NEW t \in Thread, GetInstance(t) PROVE IdInv'
  <2>1. Stored' = Stored
    BY <1>3 DEF GetInstance, Goto, Stored
  <2> QED BY <1>3, <2>1, <1>0 DEF GetInstance, Goto
<1>4. ASSUME NEW t \in Thread, NewInstance(t) PROVE IdInv'
  <2>1. Stored' = Stored
    BY <1>4 DEF NewInstance, Goto, Stored
  <2> QED BY <1>4, <2>1, <1>0 DEF NewInstance, Goto
<1>5. ASSUME NEW t \in Thread, LoadId(t) PROVE IdInv'
  <2>1. Stored' = Stored
    BY <1>5 DEF LoadId, Goto, Stored
  <2> QED BY <1>5, <2>1, <1>0 DEF LoadId, Goto
<1>6. ASSUME NEW t \in Thread, StoreId(t) PROVE IdInv'
  <2>1. Stored' = Stored \cup {t} /\ t \notin Stored
    BY <1>6 DEF StoreId, Goto, Stored
  <2>2. Cardinality(Stored') = Cardinality(Stored) + 1
    BY <2>1, StoredFinite, FS_AddElement
  <2>3. Cardinality(Stored') <= NumThreads
    <3>1. IsFiniteSet(Thread) /\ Cardinality(Thread) = NumThreads
      BY FS_Interval, ClientAssumption DEF Thread
    <3>2. Stored' \subseteq Thread
      BY <2>1 DEF Stored
    <3> QED BY <3>1, <3>2, FS_Subset
  <2>4. loaded[t] \in Nat /\ loaded[t] <= Cardinality(Stored)
    BY <1>6 DEF StoreId, Goto
  <2>5. UintMod \in Nat /\ loaded[t] + 1 < UintMod
    BY <2>2, <2>3, <2>4, <1>0, ClientAssumption, BaseAssumption DEF UintMod
  <2>6. m_msgId' = loaded[t] + 1
    <3>1. \A x, y \in Nat : x < y => x % y = x
      OBVIOUS
    <3> QED BY <3>1, <2>4, <2>5, <1>6 DEF StoreId, NextId
  <2>7. pc' \in [Thread -> AnyPc] /\ pc[t] = "store" /\ pc' = [pc EXCEPT ![t] = "copy"]
    BY <1>6 DEF StoreId, Goto
  <2>8. loaded' = loaded /\ id' = id
    BY <1>6 DEF StoreId
  <2> QED BY <2>2, <2>4, <2>6, <2>7, <2>8, <1>0
<1>7. ASSUME NEW t \in Thread, CopyId(t) PROVE IdInv'
  <2>1. Stored' = Stored
    BY <1>7 DEF CopyId, Goto, Stored
  <2> QED BY <1>7, <2>1, <1>0 DEF CopyId, Goto
<1>8. ASSUME NEW t \in Thread, NetStep(t) PROVE IdInv'
  <2>1. Stored' = Stored
    BY <1>8 DEF NetStep, Stored
  <2> QED BY <1>8, <2>1, <1>0 DEF NetStep
<1>9. CASE UNCHANGED vars BY <1>9 DEF vars, Stored
<1> QED BY StepCases, <1>1, <1>2, <1>3, <1>4, <1>5, <1>6, <1>7, <1>8, <1>9

(* Threads that race on ++m_msgId may share an id, but no id is 0 or beyond *)
(* the number of requests begun, for any number of threads that an unsigned *)
(* int can count.                                                           *)
THEOREM IdsCorrect == Safe => []IdsInRange
<1>1. IdInv => IdsInRange
  <2> SUFFICES ASSUME IdInv, NEW t \in Thread,
                      pc[t] \notin {"none", "instance", "new", "load", "store", "copy"}
               PROVE  id[t] \in 1..Cardinality({u \in Thread :
                                    pc[u] \notin {"none", "instance", "new", "load"}})
    BY DEF IdsInRange
  <2> DEFINE B == {u \in Thread : pc[u] \notin {"none", "instance", "new", "load"}}
  <2>1. pc[t] \in Copied
    BY DEF IdInv, PcInv, AnyPc, Early, Late
  <2>2. Stored \subseteq B
    BY DEF Stored, Late, Copied
  <2>3. IsFiniteSet(B) /\ Cardinality(B) \in Nat
    <3>1. IsFiniteSet(Thread)
      BY FS_Interval, ClientAssumption DEF Thread
    <3> QED BY <3>1, FS_Subset, FS_CardinalityType
  <2>4. Cardinality(Stored) \in Nat /\ Cardinality(Stored) <= Cardinality(B)
    BY <2>2, <2>3, FS_Subset, StoredFinite
  <2>5. id[t] \in Nat /\ 1 <= id[t] /\ id[t] <= Cardinality(Stored)
    BY <2>1 DEF IdInv
  <2> QED BY <2>3, <2>4, <2>5
<1> QED BY IdInit, IdStep, <1>1, PTL DEF Safe

(***************************************************************************)
(* Sockets.                                                                *)
(***************************************************************************)
(* Only a thread that has sent has an answer coming, and it leaves doConnect *)
(* through close.                                                            *)
SentInv ==
    /\ PcInv
    /\ reply = [t \in Thread |-> reply[t]]
    /\ \A t \in Thread : reply[t] # <<>> => pc[t] \in Replied
    /\ SentIsClosed

LEMMA SentInit == Init => SentInv
BY DEF Init, SentInv, SentIsClosed, PcInv, AnyPc, Early

LEMMA SentStep == SentInv /\ [Next]_vars => SentInv'
<1> SUFFICES ASSUME SentInv, [Next]_vars PROVE SentInv'
  OBVIOUS
<1> USE DEF SentInv, SentIsClosed, PcInv, AnyPc, Early, Copied, Late, Replied, net, object, ids
<1>1. CASE StartThread
  BY <1>1 DEF StartThread, Goto
<1>2. CASE JoinThread
  BY <1>2 DEF JoinThread
<1>3. ASSUME NEW t \in Thread,
             GetInstance(t) \/ NewInstance(t) \/ LoadId(t) \/ StoreId(t) \/ CopyId(t)
      PROVE  SentInv'
  BY <1>3 DEF GetInstance, NewInstance, LoadId, StoreId, CopyId, Goto
<1>4. ASSUME NEW t \in Thread, SocketCall(t) PROVE SentInv'
  BY <1>4 DEF SocketCall, Goto
<1>5. ASSUME NEW t \in Thread, BindCall(t) \/ ConnectCall(t) \/ RecvEnd(t) PROVE SentInv'
  BY <1>5 DEF BindCall, ConnectCall, RecvEnd, Goto
<1>6. ASSUME NEW t \in Thread, SendCall(t) PROVE SentInv'
  <2> DEFINE answer == Served(Req(t))
  <2>1. \/ pc' = [pc EXCEPT ![t] = "recv"] /\ reply' = [reply EXCEPT ![t] = answer]
        \/ pc' \in {[pc EXCEPT ![t] = "recv"], [pc EXCEPT ![t] = "close"]} /\ reply' = reply
    BY <1>6 DEF SendCall, Goto
  <2>2. pc[t] = "send" /\ open' = open
    BY <1>6 DEF SendCall, Goto
  <2> HIDE DEF answer
  <2> QED BY <2>1, <2>2
<1>7. ASSUME NEW t \in Thread, NEW n \in 1..SOCKETBUFFER_SIZE, RecvData(t, n) PROVE SentInv'
  <2>1. pc[t] = "recv" /\ \E to \in {"recv", "throw", "close"} : pc' = [pc EXCEPT ![t] = to]
    BY <1>7, RoundGoes DEF RecvData
  <2>2. reply' = reply /\ open' = open
    BY <1>7 DEF RecvData
  <2> QED BY <2>1, <2>2
<1>8. ASSUME NEW t \in Thread, RecvError(t) PROVE SentInv'
  <2>1. pc[t] = "recv" /\ \E to \in {"recv", "throw", "close"} : pc' = [pc EXCEPT ![t] = to]
    BY <1>8, RoundGoes DEF RecvError
  <2>2. reply' = reply /\ open' = open
    BY <1>8 DEF RecvError
  <2> QED BY <2>1, <2>2
<1>9. ASSUME NEW t \in Thread, CloseCall(t) PROVE SentInv'
  BY <1>9 DEF CloseCall, Closed, Goto
<1>10. ASSUME NEW t \in Thread, Parse(t) PROVE SentInv'
  BY <1>10 DEF Parse, Goto
<1>11. CASE UNCHANGED vars
  BY <1>11 DEF vars
<1> QED
  BY <1>1, <1>2, <1>3, <1>4, <1>5, <1>6, <1>7, <1>8, <1>9, <1>10, <1>11
     DEF Next, Run, CreateClient

(* A thread whose request was sent has closed its socket when doConnect      *)
(* returns, whatever recv did.                                               *)
THEOREM SentCloses == Safe => []SentIsClosed
<1>1. SentInv => SentIsClosed
  BY DEF SentInv
<1> QED BY SentInit, SentStep, <1>1, PTL DEF Safe
===============================================================================
