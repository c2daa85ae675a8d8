------------------------ MODULE ThreadPoolThreadsProofs ------------------------
(***************************************************************************)
(* Proofs about the threads of module ThreadPool: what shutting the pool   *)
(* down waits for, how many threads there are, and that the pool is a task *)
(* queue.                                                                  *)
(***************************************************************************)
EXTENDS ThreadPoolProofs, FiniteSetTheorems

(***************************************************************************)
(* Every running thread is in m_threads, or is the one that a caller is    *)
(* just creating.                                                          *)
(***************************************************************************)
Listed == {m_threads[i] : i \in 1..Len(m_threads)}

ListInv == \A t \in Live : t \in Listed \/ (t = created /\ \E c \in Caller : cpc[c] = "poll")

LEMMA ListInit == Init => ListInv
BY DEF Init, ListInv, Live, LivePc

(* A step of threadfun starts no thread, and ends one only with mtx free. *)
LEMMA WorkerLive ==
    ASSUME Core, NEW t \in Thread, ThreadFun(t)
    PROVE  /\ Live' \subseteq Live
           /\ mtx # "free" => Live' = Live
<1>t. pc \in [Thread -> WorkerPc]
  BY DEF Core, TypeOK
<1> USE <1>t DEF Live, LivePc, WorkerPc, Goto
<1>1. CASE ThreadLeave(t)
  BY <1>1 DEF ThreadLeave, CanCountOut
<1>2. CASE ThreadStart(t) \/ ThreadCount(t) \/ ThreadLoop(t) \/ TakeTask(t) \/ FindNoTask(t)
  BY <1>2 DEF ThreadStart, ThreadCount, ThreadLoop, TakeTask, FindNoTask
<1>3. CASE ThreadBusy(t) \/ DropTask(t) \/ ProcessTask(t)
  BY <1>3 DEF ThreadBusy, DropTask, ProcessTask
<1>4. CASE ThreadReady(t)
  BY <1>4 DEF ThreadReady, AfterRound
<1>5. CASE ThreadCheck(t) \/ ThreadWait(t) \/ WaitTimeout(t) \/ ThreadExit(t)
  BY <1>5 DEF ThreadCheck, ThreadWait, WaitTimeout, ThreadExit
<1> QED BY <1>1, <1>2, <1>3, <1>4, <1>5 DEF ThreadFun

(* Of the callers' steps only createNewThread changes which threads run. *)
LEMMA CallerLive ==
    ASSUME Core,
           \/ InitTaskPool \/ AddTask \/ ReleaseTaskPool \/ DelInstance
           \/ Continue /\ ~(\E c \in Caller : CreateNewThread(c))
    PROVE  Live' = Live
<1>t. pc \in [Thread -> WorkerPc]
  BY DEF Core, TypeOK
<1>1. CASE NotifyAll
  BY <1>t, <1>1 DEF NotifyAll, Live, LivePc, WorkerPc
<1>2. CASE ~NotifyAll
  <2>1. pc' = pc
    BY <1>2 DEF InitTaskPool, AddTask, ReleaseTaskPool, DelInstance, Continue, ThreadCreated,
       Unlock, ScanIdle, ScanNext, ScanEnd, JoinThread, Released, Deleted, workerVars
  <2> QED BY <2>1 DEF Live
<1> QED BY <1>1, <1>2

LEMMA CreateLive ==
    ASSUME Core, NEW c \in Caller, CreateNewThread(c)
    PROVE  created + 1 \in Thread /\ created + 1 \notin Live /\ Live' = Live \cup {created + 1}
<1>t. pc \in [Thread -> WorkerPc] /\ created \in 0..MaxThreads
  BY DEF Core, TypeOK
<1>1. created + 1 \in Thread
  BY <1>t, PoolAssumption DEF CreateNewThread, Thread
<1>2. pc[created + 1] = "none"
  BY <1>1, <1>t DEF Core, HeldInv
<1> QED BY <1>t, <1>1, <1>2 DEF CreateNewThread, Live, LivePc, WorkerPc

LEMMA ListStep == Core /\ ListInv /\ [Next]_vars => ListInv'
<1> SUFFICES ASSUME Core, ListInv, [Next]_vars PROVE ListInv'
  OBVIOUS
<1>t. /\ m_threads \in Seq(Thread) /\ cpc \in [Caller -> CallerPc]
      /\ created \in 0..MaxThreads
  BY DEF Core, TypeOK
<1>l. LockInv
  BY DEF Core
<1>1. ASSUME NEW t \in Thread, ThreadFun(t) PROVE ListInv'
  <2>1. UNCHANGED <<m_threads, created, cpc>>
    BY <1>1, WorkerFrame
  <2> QED BY <1>1, <2>1, WorkerLive DEF ListInv, Listed
<1>2. ASSUME NEW c \in Caller, CreateNewThread(c) PROVE ListInv'
  <2>1. \A d \in Caller : cpc[d] # "poll"
    BY <1>2, <1>l DEF CreateNewThread, CallGoto, LockInv, MainLockPc, RecvLockPc, Caller
  <2>2. Live \subseteq Listed
    BY <2>1 DEF ListInv
  <2>3. Listed' = Listed /\ created' = created + 1 /\ cpc'[c] = "poll"
    BY <1>2, <1>t DEF CreateNewThread, CallGoto, Listed, poolVars
  <2> QED BY <1>2, <2>2, <2>3, CreateLive DEF ListInv
<1>3. ASSUME NEW c \in Caller, ThreadCreated(c) PROVE ListInv'
  <2>1. Live' = Live
    BY <1>3 DEF ThreadCreated, workerVars, Live
  <2>2. created \in Thread
    BY <1>3, <1>t DEF ThreadCreated, CallGoto, Core, HeldInv, Thread
  <2>3. m_threads' = Append(m_threads, created) /\ created' = created
    BY <1>3 DEF ThreadCreated
  <2>4. Len(m_threads') = Len(m_threads) + 1 /\ m_threads'[Len(m_threads) + 1] = created
    BY <1>t, <2>2, <2>3
  <2>5. \A i \in 1..Len(m_threads) : m_threads'[i] = m_threads[i]
    BY <1>t, <2>2, <2>3
  <2>6. Listed \subseteq Listed' /\ created \in Listed'
    BY <1>t, <2>4, <2>5 DEF Listed
  <2> QED BY <2>1, <2>3, <2>6 DEF ListInv
<1>4. CASE JoinThread
  <2>1. Live' = Live /\ created' = created /\ cpc' = cpc
    BY <1>4 DEF JoinThread, workerVars, callVars, Live
  <2>2. m_threads' = Tail(m_threads) /\ m_threads # <<>> /\ pc[Head(m_threads)] = "dead"
    BY <1>4 DEF JoinThread, Joined
  <2>3. m_threads[1] \notin Live
    BY <1>t, <2>2 DEF Live, LivePc
  <2>4. \A i \in 1..Len(m_threads) : i # 1 => i - 1 \in 1..Len(m_threads')
                                            /\ m_threads'[i - 1] = m_threads[i]
    BY <1>t, <2>2
  <2>5. \A t \in Listed : t = m_threads[1] \/ t \in Listed'
    BY <2>4 DEF Listed
  <2> QED BY <2>1, <2>3, <2>5 DEF ListInv
<1>5. CASE /\ Live' = Live /\ UNCHANGED <<m_threads, created>>
           /\ \A c \in Caller : cpc[c] = "poll" => cpc'[c] = "poll"
  BY <1>5 DEF ListInv, Listed
<1>6. CASE InitTaskPool \/ AddTask \/ ReleaseTaskPool \/ DelInstance
  BY <1>5, <1>6, <1>t, CallerLive DEF InitTaskPool, AddTask, ReleaseTaskPool, DelInstance, CallGoto,
     Caller
<1>7. ASSUME NEW c \in Caller, Unlock(c) PROVE ListInv'
  <2>1. Live' = Live
    BY <1>7 DEF Unlock, workerVars, Live
  <2> QED BY <1>5, <1>7, <1>t, <2>1 DEF Unlock, CallGoto, Caller
<1>8. CASE ScanIdle \/ ScanNext \/ ScanEnd \/ NotifyAll \/ Released \/ Deleted
  <2>1. Live' = Live
    <3>1. CASE NotifyAll
      BY <3>1 DEF NotifyAll, Live, LivePc, WorkerPc
    <3>2. CASE ~NotifyAll
      BY <1>8, <3>2 DEF ScanIdle, ScanNext, ScanEnd, Released, Deleted, workerVars, Live
    <3> QED BY <3>1, <3>2
  <2> QED BY <1>5, <1>8, <1>t, <2>1 DEF ScanIdle, ScanNext, ScanEnd, NotifyAll, Released, Deleted,
             CallGoto, Caller, poolVars
<1>9. CASE UNCHANGED vars
  BY <1>9 DEF vars, poolVars, workerVars, callVars, ListInv, Listed, Live
<1> QED
  BY <1>1, <1>2, <1>3, <1>4, <1>6, <1>7, <1>8, <1>9 DEF Next, Continue

(* A shutdown that has joined the whole list leaves no thread running. *)
LEMMA JoinedAll ==
    ASSUME Core, ListInv, cpc["main"] \in {"clear", "destroy"}, m_threads = <<>>
    PROVE  Live = {}
<1>1. \A c \in Caller : cpc[c] # "poll"
  BY DEF Core, LockInv, MainLockPc, RecvLockPc, Caller
<1>2. Listed = {}
  BY DEF Listed
<1> QED BY <1>1, <1>2 DEF ListInv

(* releaseTaskPool and delInstance never return while a thread of the pool *)
(* is still running, however many threads the pool has had.                *)
THEOREM ShutdownCorrect == Safe => ShutdownJoinsAll
<1> DEFINE A == cpc["main"] \in {"clear", "destroy"} /\ cpc'["main"] # cpc["main"] => Live = {}
<1>1. ASSUME Core, ListInv, [Next]_vars PROVE [A]_vars
  <2> SUFFICES ASSUME Next, cpc["main"] \in {"clear", "destroy"}, cpc'["main"] # cpc["main"]
               PROVE  Live = {}
    BY <1>1
  <2>t. cpc \in [Caller -> CallerPc] /\ "main" \in Caller
    BY <1>1 DEF Core, TypeOK, Caller
  <2>1. CASE Released \/ Deleted
    BY <1>1, <2>1, JoinedAll DEF Released, Deleted
  <2>2. ASSUME NEW t \in Thread, ThreadFun(t) PROVE FALSE
    BY <2>2, WorkerFrame
  <2>3. CASE InitTaskPool \/ AddTask \/ ReleaseTaskPool \/ DelInstance
    BY <2>3, <2>t DEF InitTaskPool, AddTask, ReleaseTaskPool, DelInstance, CallGoto
  <2>4. CASE Continue /\ ~Released /\ ~Deleted
    BY <2>4, <2>t DEF Continue, CreateNewThread, ThreadCreated, Unlock, ScanIdle, ScanNext, ScanEnd,
       NotifyAll, JoinThread, CallGoto, callVars
  <2> QED BY <2>1, <2>2, <2>3, <2>4 DEF Next
<1>2. Safe => [](Core /\ ListInv)
  BY CoreInit, CoreStep, ListInit, ListStep, PTL DEF Safe
<1> QED BY <1>1, <1>2, PTL DEF Safe, ShutdownJoinsAll

(* The join under mtx never ends once it has met a running thread: that    *)
(* thread cannot reach the end of threadfun, whatever the other threads do. *)
THEOREM JoinNeverEnds == Safe => JoinUnderLockNeverEnds
<1>1. ASSUME Core, [Next]_vars PROVE [Stuck => Stuck']_vars
  <2> SUFFICES ASSUME Next, Stuck PROVE Stuck'
    BY <1>1
  <2>t. /\ m_threads \in Seq(Thread) /\ cpc \in [Caller -> CallerPc] /\ "main" \in Caller
        /\ pc \in [Thread -> WorkerPc]
    BY <1>1 DEF Core, TypeOK, Caller
  <2>j. Joining
    BY DEF Stuck
  <2>m. mtx = "main" /\ cpc["recv"] \in {"idle", "notify"}
    BY <1>1, <2>j DEF Joining, Core, LockInv, MainLockPc, RecvLockPc
  <2>1. PICK i \in 1..Len(m_threads) : m_threads[i] \in Live
    BY <2>t DEF Stuck, Live
  <2>2. SUFFICES ASSUME ~JoinThread PROVE Stuck'
    <3> SUFFICES ASSUME JoinThread PROVE Stuck'
      BY <2>2
    <3>1. m_threads' = Tail(m_threads) /\ pc' = pc /\ cpc' = cpc /\ pc[Head(m_threads)] = "dead"
      BY DEF JoinThread, Joined, workerVars, callVars
    <3>2. i # 1
      BY <2>t, <2>1, <3>1 DEF Live, LivePc
    <3>3. i - 1 \in 1..Len(m_threads') /\ m_threads'[i - 1] = m_threads[i]
      BY <2>t, <2>1, <3>1, <3>2
    <3>4. pc'[m_threads'[i - 1]] \in LivePc
      BY <2>1, <3>1, <3>3 DEF Live
    <3> QED BY <2>j, <3>1, <3>3, <3>4 DEF Stuck, Joining
  <2>3. SUFFICES ASSUME m_threads' = m_threads, cpc'["main"] = cpc["main"], Live' = Live
                 PROVE  Stuck'
    <3>1. ASSUME NEW t \in Thread, ThreadFun(t)
          PROVE  m_threads' = m_threads /\ cpc' = cpc /\ Live' = Live
      BY <1>1, <2>m, <3>1, WorkerFrame, WorkerLive
    <3>2. CASE NotifyAll
      <4>1. Live' = Live
        BY <2>t, <3>2 DEF NotifyAll, Live, LivePc, WorkerPc
      <4> QED BY <2>3, <2>t, <3>2, <4>1 DEF NotifyAll, CallGoto, poolVars
    <3>3. CASE InitTaskPool \/ AddTask \/ ReleaseTaskPool \/ DelInstance
      BY <2>m, <3>3 DEF InitTaskPool, AddTask, ReleaseTaskPool, DelInstance
    <3>4. CASE ScanIdle \/ ScanNext \/ ScanEnd
      BY <2>m, <3>4 DEF ScanIdle, ScanNext, ScanEnd, CallGoto
    <3>5. ASSUME NEW c \in Caller, CreateNewThread(c) \/ ThreadCreated(c) \/ Unlock(c)
          PROVE  FALSE
      BY <2>j, <2>m, <3>5 DEF CreateNewThread, ThreadCreated, Unlock, CallGoto, Joining, Caller
    <3>6. CASE Released \/ Deleted
      BY <2>1, <3>6 DEF Released, Deleted
    <3> QED BY <2>2, <2>3, <3>1, <3>2, <3>3, <3>4, <3>5, <3>6 DEF Next, Continue
  <2>4. pc'[m_threads'[i]] \in LivePc
    BY <2>1, <2>3 DEF Live
  <2> QED BY <2>1, <2>3, <2>4, <2>j DEF Stuck, Joining
<1> QED BY <1>1, CoreInit, CoreStep, PTL DEF Safe, JoinUnderLockNeverEnds

(***************************************************************************)
(* m_validThreadNums counts the threads.                                   *)
(***************************************************************************)
LEMMA ThreadFinite ==
    ASSUME NEW S \in SUBSET Thread
    PROVE  IsFiniteSet(S) /\ Cardinality(S) \in Nat /\ Cardinality(S) <= MaxThreads
<1>1. IsFiniteSet(Thread) /\ Cardinality(Thread) = MaxThreads
  BY FS_Interval, PoolAssumption DEF Thread
<1>2. IsFiniteSet(S) /\ Cardinality(S) <= MaxThreads
  BY <1>1, FS_Subset
<1> QED BY <1>2, FS_CardinalityType

LEMMA ShortSmall == \A x \in 0..(ShortMod - 1) : x % ShortMod = x
BY PoolAssumption

BootInv == cpc["main"] = "boot" => created = 0 /\ m_threads = <<>> /\ cpc["recv"] = "idle"

CountInv == CountIsExact /\ BootInv

LEMMA CountInit == Init => CountInv
<1> SUFFICES ASSUME Init PROVE CountInv
  OBVIOUS
<1>1. Counted = {}
  BY DEF Init, Counted, CountedPc
<1> QED BY <1>1, FS_EmptySet DEF Init, CountInv, CountIsExact, BootInv, Caller

LEMMA CountStep == Core /\ CountInv /\ [Next]_vars => CountInv'
<1> SUFFICES ASSUME Core, CountInv, [Next]_vars PROVE CountInv'
  OBVIOUS
<1>t. /\ pc \in [Thread -> WorkerPc] /\ cpc \in [Caller -> CallerPc] /\ "main" \in Caller
      /\ created \in 0..MaxThreads /\ Counted \in SUBSET Thread
  BY DEF Core, TypeOK, Caller, Counted
<1>n. m_validThreadNums = Cardinality(Counted)
  BY DEF CountInv, CountIsExact
<1>b. BootInv'
  <2> USE <1>t DEF CountInv, BootInv, callVars, poolVars, CallGoto, Caller
  <2>1. ASSUME NEW t \in Thread, ThreadFun(t) PROVE BootInv'
    BY <2>1, WorkerFrame
  <2>2. CASE InitTaskPool \/ AddTask \/ ReleaseTaskPool \/ DelInstance
    BY <2>2 DEF InitTaskPool, AddTask, ReleaseTaskPool, DelInstance
  <2>3. ASSUME NEW c \in Caller, CreateNewThread(c) \/ ThreadCreated(c) \/ Unlock(c)
        PROVE  BootInv'
    BY <2>3 DEF CreateNewThread, ThreadCreated, Unlock
  <2>4. CASE ScanIdle \/ ScanNext \/ ScanEnd \/ NotifyAll \/ JoinThread \/ Released \/ Deleted
    BY <2>4 DEF ScanIdle, ScanNext, ScanEnd, NotifyAll, JoinThread, Released, Deleted
  <2>5. CASE UNCHANGED vars
    BY <2>5 DEF vars
  <2> QED BY <2>1, <2>2, <2>3, <2>4, <2>5 DEF Next, Continue
<1>1. CASE Counted' = Counted /\ m_validThreadNums' = m_validThreadNums
  BY <1>1, <1>n, <1>b DEF CountInv, CountIsExact
<1>2. ASSUME NEW t \in Thread, ThreadFun(t) PROVE CountInv'
  <2>1. CASE ThreadCount(t)
    <3>1. Counted' = Counted \cup {t} /\ t \notin Counted
      BY <1>t, <2>1 DEF ThreadCount, Goto, Counted, CountedPc, WorkerPc
    <3>2. Cardinality(Counted') = Cardinality(Counted) + 1
      BY <1>t, <3>1, ThreadFinite, FS_AddElement
    <3>3. Cardinality(Counted') \in 0..(ShortMod - 1)
      BY <1>t, <3>1, ThreadFinite, PoolAssumption
    <3>4. m_validThreadNums' = Cardinality(Counted') % ShortMod
      BY <2>1, <1>n, <3>2 DEF ThreadCount
    <3> QED BY <1>b, <3>3, <3>4, ShortSmall DEF CountInv, CountIsExact
  <2>2. CASE ThreadLeave(t)
    <3>1. Counted' = Counted \ {t} /\ t \in Counted
      BY <1>t, <2>2 DEF ThreadLeave, Goto, Counted, CountedPc, WorkerPc
    <3>2. Cardinality(Counted') = Cardinality(Counted) - 1
      BY <1>t, <3>1, ThreadFinite, FS_RemoveElement
    <3>3. Cardinality(Counted') \in 0..(ShortMod - 1)
      BY <1>t, <3>1, ThreadFinite, PoolAssumption
    <3>4. m_validThreadNums' = Cardinality(Counted') % ShortMod
      BY <2>2, <1>n, <3>2 DEF ThreadLeave, CountOut
    <3> QED BY <1>b, <3>3, <3>4, ShortSmall DEF CountInv, CountIsExact
  <2>3. CASE ~ThreadCount(t) /\ ~ThreadLeave(t)
    <3> USE <1>t DEF Goto, Counted, CountedPc, WorkerPc, poolVars
    <3>1. CASE ThreadStart(t) \/ ThreadLoop(t) \/ TakeTask(t) \/ FindNoTask(t)
      BY <1>1, <3>1 DEF ThreadStart, ThreadLoop, TakeTask, FindNoTask
    <3>2. CASE ThreadBusy(t) \/ DropTask(t) \/ ProcessTask(t)
      BY <1>1, <3>2 DEF ThreadBusy, DropTask, ProcessTask
    <3>3. CASE ThreadReady(t)
      BY <1>1, <3>3 DEF ThreadReady, AfterRound
    <3>4. CASE ThreadCheck(t) \/ ThreadWait(t) \/ WaitTimeout(t) \/ ThreadExit(t)
      BY <1>1, <3>4 DEF ThreadCheck, ThreadWait, WaitTimeout, ThreadExit
    <3> QED BY <1>2, <2>3, <3>1, <3>2, <3>3, <3>4 DEF ThreadFun
  <2> QED BY <2>1, <2>2, <2>3
<1>3. CASE InitTaskPool
  <2>1. \A t \in Thread : pc[t] = "none"
    BY <1>3 DEF InitTaskPool, CallGoto, CountInv, BootInv, Core, HeldInv, Thread
  <2>2. Counted' = {} /\ m_validThreadNums' = 0
    BY <1>3, <2>1 DEF InitTaskPool, workerVars, Counted, CountedPc
  <2> QED BY <1>b, <2>2, FS_EmptySet DEF CountInv, CountIsExact
<1>4. CASE AddTask \/ ReleaseTaskPool \/ DelInstance
  BY <1>1, <1>4 DEF AddTask, ReleaseTaskPool, DelInstance, workerVars, Counted
<1>5. ASSUME NEW c \in Caller, CreateNewThread(c) PROVE CountInv'
  <2>1. created + 1 \in Thread /\ pc[created + 1] = "none"
    BY <1>5, <1>t, PoolAssumption DEF CreateNewThread, Thread, Core, HeldInv
  <2>2. Counted' = Counted
    BY <1>5, <1>t, <2>1 DEF CreateNewThread, Counted, CountedPc
  <2> QED BY <1>1, <1>5, <2>2 DEF CreateNewThread, poolVars
<1>6. ASSUME NEW c \in Caller, ThreadCreated(c) \/ Unlock(c) PROVE CountInv'
  BY <1>1, <1>6 DEF ThreadCreated, Unlock, workerVars, Counted
<1>7. CASE NotifyAll
  <2>1. Counted' = Counted
    BY <1>t, <1>7 DEF NotifyAll, Counted, CountedPc, WorkerPc
  <2> QED BY <1>1, <1>7, <2>1 DEF NotifyAll, poolVars
<1>8. CASE ScanIdle \/ ScanNext \/ ScanEnd \/ JoinThread \/ Released \/ Deleted
  BY <1>1, <1>8 DEF ScanIdle, ScanNext, ScanEnd, JoinThread, Released, Deleted, workerVars,
     poolVars, Counted
<1>9. CASE UNCHANGED vars
  BY <1>1, <1>9 DEF vars, poolVars, workerVars, Counted
<1> QED
  BY <1>2, <1>3, <1>4, <1>5, <1>6, <1>7, <1>8, <1>9 DEF Next, Continue

(* The counter that decides whether the pool grows or shrinks is exact, and *)
(* never wraps, as long as fewer threads are created than it can count.     *)
THEOREM CountCorrect == Safe => []CountIsExact
<1>1. CountInv => CountIsExact
  BY DEF CountInv
<1> QED BY <1>1, CoreInit, CoreStep, CountInit, CountStep, PTL DEF Safe

(***************************************************************************)
(* The pool's size, when a new thread always starts within the second that *)
(* createNewThread gives it.  A thread that has not counted itself in yet  *)
(* shows m_state 1 in the list, so addTask finds it idle and does not      *)
(* create another one: the counter alone would be too small.               *)
(***************************************************************************)
Polled(t) == t = created /\ \E c \in Caller : cpc[c] = "poll"

StartInv ==
    \A t \in Thread :
        /\ pc[t] = "start" => Polled(t)
        /\ pc[t] \in {"none", "start"} => m_state[t] = 0
        /\ pc[t] = "count" => m_state[t] = 1

LEMMA StartInit == Init => StartInv
BY DEF Init, StartInv

LEMMA StartStep == ~SlowStart /\ Core /\ StartInv /\ [Next]_vars => StartInv'
<1> SUFFICES ASSUME ~SlowStart, Core, StartInv, [Next]_vars PROVE StartInv'
  OBVIOUS
<1>t. /\ pc \in [Thread -> WorkerPc] /\ m_state \in [Thread -> 0..3]
      /\ cpc \in [Caller -> CallerPc] /\ created \in 0..MaxThreads
  BY DEF Core, TypeOK
<1>1. ASSUME NEW t \in Thread, ThreadFun(t) PROVE StartInv'
  <2>1. UNCHANGED <<cpc, created>>
    BY <1>1, WorkerFrame
  <2> USE <1>t, <2>1 DEF StartInv, Polled, Goto
  <2>2. CASE ThreadStart(t)
    BY <2>2 DEF ThreadStart
  <2>3. CASE ThreadCount(t) \/ ThreadLoop(t) \/ TakeTask(t) \/ FindNoTask(t)
    BY <2>3 DEF ThreadCount, ThreadLoop, TakeTask, FindNoTask
  <2>4. CASE ThreadBusy(t) \/ DropTask(t) \/ ProcessTask(t)
    BY <2>4 DEF ThreadBusy, DropTask, ProcessTask
  <2>5. CASE ThreadReady(t)
    BY <2>5 DEF ThreadReady, AfterRound
  <2>6. CASE ThreadCheck(t) \/ ThreadWait(t) \/ WaitTimeout(t) \/ ThreadExit(t) \/ ThreadLeave(t)
    BY <2>6 DEF ThreadCheck, ThreadWait, WaitTimeout, ThreadExit, ThreadLeave
  <2> QED BY <1>1, <2>2, <2>3, <2>4, <2>5, <2>6 DEF ThreadFun
<1>2. ASSUME NEW c \in Caller, CreateNewThread(c) PROVE StartInv'
  <2>1. created + 1 \in Thread
    BY <1>2, <1>t, PoolAssumption DEF CreateNewThread, Thread
  <2>2. \A d \in Caller : cpc[d] # "poll"
    BY <1>2 DEF CreateNewThread, CallGoto, Core, LockInv, MainLockPc, RecvLockPc, Caller
  <2>3. created' = created + 1 /\ cpc'[c] = "poll"
    BY <1>2, <1>t DEF CreateNewThread, CallGoto
  <2>4. \A t \in Thread : pc[t] # "start"
    BY <2>2 DEF StartInv, Polled
  <2> QED BY <1>2, <1>t, <2>1, <2>3, <2>4 DEF CreateNewThread, StartInv, Polled
<1>3. ASSUME NEW c \in Caller, ThreadCreated(c) PROVE StartInv'
  <2>1. m_state[created] # 0 /\ pc' = pc /\ m_state' = m_state
    BY <1>3 DEF ThreadCreated, PollEnds, workerVars
  <2>2. \A t \in Thread : pc[t] # "start"
    BY <2>1 DEF StartInv, Polled
  <2> QED BY <2>1, <2>2 DEF StartInv
<1>4. CASE /\ pc' = pc /\ m_state' = m_state /\ created' = created
           /\ \A c \in Caller : cpc[c] = "poll" => cpc'[c] = "poll"
  BY <1>4 DEF StartInv, Polled
<1>5. CASE InitTaskPool \/ AddTask \/ ReleaseTaskPool \/ DelInstance
  BY <1>4, <1>5, <1>t DEF InitTaskPool, AddTask, ReleaseTaskPool, DelInstance, CallGoto, workerVars
<1>6. ASSUME NEW c \in Caller, Unlock(c) PROVE StartInv'
  BY <1>4, <1>6, <1>t DEF Unlock, CallGoto, workerVars
<1>7. CASE NotifyAll
  <2>1. \A c \in Caller : cpc[c] = "poll" => cpc'[c] = "poll"
    BY <1>7, <1>t DEF NotifyAll, CallGoto
  <2> QED BY <1>7, <1>t, <2>1 DEF NotifyAll, StartInv, Polled
<1>8. CASE ScanIdle \/ ScanNext \/ ScanEnd \/ JoinThread \/ Released \/ Deleted
  BY <1>4, <1>8, <1>t DEF ScanIdle, ScanNext, ScanEnd, JoinThread, Released, Deleted, CallGoto,
     workerVars, callVars
<1>9. CASE UNCHANGED vars
  BY <1>4, <1>9 DEF vars, workerVars, callVars
<1> QED
  BY <1>1, <1>2, <1>3, <1>5, <1>6, <1>7, <1>8, <1>9 DEF Next, Continue

(* initTaskPool creates MinNum threads, one after the other; addTask one. *)
InitInv ==
    /\ cpc["main"] = "create" => created + tsize = MinNum
    /\ cpc["main"] = "poll" => created + tsize = MinNum + 1
    /\ cpc["recv"] \in {"create", "poll"} => tsize = 1

LEMMA InitInvInit == Init => InitInv
BY DEF Init, InitInv, Caller

LEMMA InitInvStep == Core /\ BootInv /\ InitInv /\ [Next]_vars => InitInv'
<1> SUFFICES ASSUME Core, BootInv, InitInv, [Next]_vars PROVE InitInv'
  OBVIOUS
<1>t. /\ cpc \in [Caller -> CallerPc] /\ "main" \in Caller /\ "recv" \in Caller
      /\ created \in Nat /\ tsize \in Nat
  BY PoolAssumption DEF Core, TypeOK, Caller
<1>l. cpc["main"] \in {"create", "poll"} => cpc["recv"] \in {"idle", "notify"} /\ mtx # "free"
  BY DEF Core, LockInv, MainLockPc, RecvLockPc
<1> USE <1>t, <1>l DEF InitInv, CallGoto
<1>1. ASSUME NEW t \in Thread, ThreadFun(t) PROVE InitInv'
  BY <1>1, WorkerFrame
<1>2. CASE InitTaskPool
  <2>1. Len(m_threads) = 0 /\ created = 0
    BY <1>2 DEF InitTaskPool, BootInv
  <2>2. tsize' = MinNum /\ created' = 0
    BY <1>2, <2>1, ShortSmall, PoolAssumption DEF InitTaskPool
  <2> QED BY <1>2, <2>2, PoolAssumption DEF InitTaskPool, BootInv
<1>3. CASE AddTask \/ ReleaseTaskPool \/ DelInstance
  BY <1>3 DEF AddTask, ReleaseTaskPool, DelInstance
<1>4. ASSUME NEW c \in Caller, CreateNewThread(c) PROVE InitInv'
  BY <1>4, PoolAssumption DEF CreateNewThread, Caller
<1>5. ASSUME NEW c \in Caller, ThreadCreated(c) PROVE InitInv'
  BY <1>5, PoolAssumption DEF ThreadCreated, Caller
<1>6. ASSUME NEW c \in Caller, Unlock(c) PROVE InitInv'
  BY <1>6 DEF Unlock, Caller
<1>7. CASE ScanIdle \/ ScanNext \/ ScanEnd \/ NotifyAll
  BY <1>7 DEF ScanIdle, ScanNext, ScanEnd, NotifyAll
<1>8. CASE JoinThread \/ Released \/ Deleted
  BY <1>8 DEF JoinThread, Released, Deleted, callVars
<1>9. CASE UNCHANGED vars
  BY <1>9 DEF vars, callVars
<1> QED
  BY <1>1, <1>2, <1>3, <1>4, <1>5, <1>6, <1>7, <1>8, <1>9 DEF Next, Continue

(* While addTask goes through the list the pool is below its maximum, and *)
(* the threads it has passed have counted themselves in.                  *)
ScanInv ==
    cpc["recv"] = "scan" =>
        /\ m_validThreadNums < MaxNum
        /\ \A i \in 1..Len(m_threads) : i < scan => pc[m_threads[i]] # "count"

LEMMA ScanInit == Init => ScanInv
BY DEF Init, ScanInv, Caller

LEMMA ScanStep == Core /\ StartInv /\ ScanInv /\ [Next]_vars => ScanInv'
<1> SUFFICES ASSUME Core, StartInv, ScanInv, [Next]_vars, cpc'["recv"] = "scan" PROVE ScanInv'
  BY DEF ScanInv
<1>t. /\ cpc \in [Caller -> CallerPc] /\ "main" \in Caller /\ "recv" \in Caller
      /\ pc \in [Thread -> WorkerPc] /\ m_threads \in Seq(Thread) /\ scan \in Nat
  BY DEF Core, TypeOK, Caller
<1>l. cpc["recv"] = "scan" =>
        mtx = "recv" /\ cpc["main"] \in {"boot", "idle", "freed"}
  BY DEF Core, LockInv, MainLockPc, RecvLockPc
<1>s. cpc["recv"] = "scan" => \A t \in Thread : pc[t] # "start"
  BY <1>l DEF StartInv, Polled, Caller
<1>1. ASSUME NEW t \in Thread, ThreadFun(t) PROVE ScanInv'
  <2>1. UNCHANGED <<m_threads, scan, cpc, mtx>>
    BY <1>1, WorkerFrame
  <2>2. cpc["recv"] = "scan" /\ mtx # "free" /\ pc[t] # "start"
    BY <1>l, <1>s, <2>1
  <2>3. m_validThreadNums' = m_validThreadNums
    BY <1>1, <2>2 DEF ThreadFun, ThreadStart, ThreadCount, ThreadLoop, TakeTask, FindNoTask,
       ThreadBusy, DropTask, ProcessTask, ThreadReady, ThreadCheck, ThreadWait, WaitTimeout,
       ThreadExit, ThreadLeave, CanCountOut, poolVars
  <2>4. \A u \in Thread : pc'[u] = "count" => pc[u] = "count"
    BY <1>1, <1>t, <2>2 DEF ThreadFun, ThreadStart, ThreadCount, ThreadLoop, TakeTask, FindNoTask,
       ThreadBusy, DropTask, ProcessTask, ThreadReady, AfterRound, ThreadCheck, ThreadWait,
       WaitTimeout, ThreadExit, ThreadLeave, Goto
  <2>5. \A i \in 1..Len(m_threads) : m_threads[i] \in Thread
    BY <1>t
  <2> QED BY <2>1, <2>2, <2>3, <2>4, <2>5 DEF ScanInv
<1>2. CASE AddTask
  <2>1. m_validThreadNums < MaxNum /\ m_validThreadNums' = m_validThreadNums
    BY <1>2, <1>t DEF AddTask, CallGoto
  <2>2. scan' = 1 /\ m_threads' = m_threads
    BY <1>2 DEF AddTask
  <2> QED BY <1>t, <2>1, <2>2 DEF ScanInv
<1>3. CASE ScanNext
  <2>1. scan \in 1..Len(m_threads) => pc[m_threads[scan]] # "count"
    BY <1>3, <1>t DEF ScanNext, StartInv
  <2>2. UNCHANGED <<m_threads, pc, cpc, m_validThreadNums>> /\ scan' = scan + 1
    BY <1>3 DEF ScanNext, poolVars, workerVars
  <2>3. \A i \in 1..Len(m_threads) : i < scan + 1 => i < scan \/ i = scan
    BY <1>t
  <2> QED BY <2>1, <2>2, <2>3 DEF ScanInv
<1>4. CASE InitTaskPool \/ ReleaseTaskPool \/ DelInstance
  BY <1>4, <1>l, <1>t DEF InitTaskPool, ReleaseTaskPool, DelInstance, CallGoto
<1>5. ASSUME NEW c \in Caller, CreateNewThread(c) \/ ThreadCreated(c) \/ Unlock(c) PROVE FALSE
  BY <1>5, <1>l, <1>t DEF CreateNewThread, ThreadCreated, Unlock, CallGoto, Caller
<1>6. CASE ScanIdle \/ ScanEnd \/ NotifyAll
  BY <1>6, <1>t DEF ScanIdle, ScanEnd, NotifyAll, CallGoto
<1>7. CASE JoinThread \/ Released \/ Deleted
  BY <1>7, <1>l, <1>t DEF JoinThread, Released, Deleted, CallGoto, callVars
<1>8. CASE UNCHANGED vars
  BY <1>8 DEF vars, poolVars, workerVars, callVars, ScanInv
<1> QED
  BY <1>1, <1>2, <1>3, <1>4, <1>5, <1>6, <1>7, <1>8 DEF Next, Continue

SizeInv ==
    /\ Cardinality(Live) <= MaxNum
    /\ cpc["recv"] = "create" => Cardinality(Live) < MaxNum

LEMMA SizeInit == Init => SizeInv
<1> SUFFICES ASSUME Init PROVE SizeInv
  OBVIOUS
<1>1. Live = {}
  BY DEF Init, Live, LivePc
<1> QED BY <1>1, FS_EmptySet, PoolAssumption DEF Init, SizeInv, Caller

LEMMA SizeStep ==
    Core /\ ListInv /\ CountInv /\ StartInv /\ InitInv /\ ScanInv /\ SizeInv /\ [Next]_vars => SizeInv'
<1> SUFFICES ASSUME Core, ListInv, CountInv, StartInv, InitInv, ScanInv, SizeInv, [Next]_vars
             PROVE  SizeInv'
  OBVIOUS
<1>t. /\ cpc \in [Caller -> CallerPc] /\ "main" \in Caller /\ "recv" \in Caller
      /\ pc \in [Thread -> WorkerPc] /\ m_threads \in Seq(Thread) /\ scan \in Nat
      /\ created \in Nat /\ tsize \in Nat
  BY PoolAssumption DEF Core, TypeOK, Caller
<1>f. Live \in SUBSET Thread /\ IsFiniteSet(Live) /\ Cardinality(Live) \in Nat
  BY ThreadFinite DEF Live
<1>1. CASE Live' = Live /\ (cpc'["recv"] = "create" => cpc["recv"] = "create")
  BY <1>1 DEF SizeInv
<1>2. ASSUME NEW t \in Thread, ThreadFun(t) PROVE SizeInv'
  <2>1. Live' \in SUBSET Live
    BY <1>2, WorkerLive
  <2>2. Cardinality(Live') \in Nat /\ Cardinality(Live') <= Cardinality(Live)
    BY <1>f, <2>1, FS_Subset, FS_CardinalityType
  <2>3. cpc' = cpc
    BY <1>2, WorkerFrame
  <2> QED BY <1>f, <2>2, <2>3, PoolAssumption DEF SizeInv
<1>3. ASSUME CreateNewThread("recv") PROVE SizeInv'
  <2>1. Live' = Live \cup {created + 1} /\ created + 1 \notin Live
    BY <1>3, <1>t, CreateLive
  <2>2. Cardinality(Live') = Cardinality(Live) + 1
    BY <1>f, <2>1, FS_AddElement
  <2>3. cpc["recv"] = "create" /\ cpc'["recv"] = "poll"
    BY <1>3, <1>t DEF CreateNewThread, CallGoto
  <2> QED BY <1>f, <2>2, <2>3, PoolAssumption DEF SizeInv
<1>4. ASSUME CreateNewThread("main") PROVE SizeInv'
  <2>1. created + 1 \in Thread /\ Live' = Live \cup {created + 1}
    BY <1>4, <1>t, CreateLive
  <2>2. Live \subseteq 1..created
    <3> SUFFICES ASSUME NEW t \in Live PROVE t \in 1..created
      OBVIOUS
    <3>1. t \in Thread /\ pc[t] # "none"
      BY DEF Live, LivePc
    <3>2. t \in Nat /\ t >= 1 /\ ~(t > created)
      BY <3>1, PoolAssumption DEF Core, HeldInv, Thread
    <3> QED BY <1>t, <3>2
  <2>3. Live' \in SUBSET (1..(created + 1))
    BY <1>t, <2>1, <2>2
  <2>4. IsFiniteSet(1..(created + 1)) /\ Cardinality(1..(created + 1)) = created + 1
    BY <1>t, FS_Interval
  <2>5. Cardinality(Live') \in Nat /\ Cardinality(Live') <= created + 1
    BY <2>3, <2>4, FS_Subset, FS_CardinalityType
  <2>6. cpc["main"] = "create" /\ cpc'["recv"] # "create"
    BY <1>4, <1>t DEF CreateNewThread, CallGoto, Core, LockInv, MainLockPc, RecvLockPc
  <2>7. created + 1 <= MaxNum
    BY <1>t, <2>6, PoolAssumption DEF InitInv, Core, LockInv, Caller
  <2> QED BY <1>t, <2>5, <2>6, <2>7, PoolAssumption DEF SizeInv
<1>5. CASE ScanEnd
  <2>1. mtx = "recv" /\ \A c \in Caller : cpc[c] # "poll"
    BY <1>5 DEF ScanEnd, CallGoto, Core, LockInv, MainLockPc, RecvLockPc, Caller
  <2>2. Live \subseteq Counted
    <3> SUFFICES ASSUME NEW t \in Live PROVE t \in Counted
      OBVIOUS
    <3>1. t \in Thread /\ pc[t] # "start" /\ pc[t] \in LivePc
      BY <2>1 DEF Live, StartInv, Polled
    <3>2. PICK i \in 1..Len(m_threads) : m_threads[i] = t
      BY <2>1 DEF ListInv, Listed
    <3>3. i < scan
      BY <1>5, <1>t, <3>2 DEF ScanEnd
    <3>4. pc[t] # "count"
      BY <1>5, <3>2, <3>3 DEF ScanEnd, CallGoto, ScanInv
    <3> QED BY <3>1, <3>4 DEF Counted, CountedPc, LivePc
  <2>3. Counted \subseteq Live
    BY DEF Counted, CountedPc, Live, LivePc
  <2>4. Live = Counted
    BY <2>2, <2>3
  <2>5. Cardinality(Live) < MaxNum
    BY <1>5, <2>4 DEF ScanEnd, CallGoto, ScanInv, CountInv, CountIsExact
  <2>6. Live' = Live
    BY <1>5 DEF ScanEnd, workerVars, Live
  <2> QED BY <2>5, <2>6 DEF SizeInv
<1>6. CASE InitTaskPool \/ AddTask \/ ReleaseTaskPool \/ DelInstance
  BY <1>1, <1>6, <1>t, CallerLive DEF InitTaskPool, AddTask, ReleaseTaskPool, DelInstance, CallGoto
<1>7. ASSUME NEW c \in Caller, ThreadCreated(c) PROVE SizeInv'
  <2>1. Live' = Live
    BY <1>7 DEF ThreadCreated, workerVars, Live
  <2>2. cpc'["recv"] # "create"
    <3>1. CASE c = "main"
      BY <1>7, <3>1, <1>t DEF ThreadCreated, CallGoto, Core, LockInv, MainLockPc, RecvLockPc
    <3>2. CASE c = "recv"
      BY <1>7, <3>2, <1>t DEF ThreadCreated, CallGoto, InitInv
    <3> QED BY <3>1, <3>2 DEF Caller
  <2> QED BY <1>1, <2>1, <2>2
<1>8. ASSUME NEW c \in Caller, Unlock(c) PROVE SizeInv'
  BY <1>1, <1>8, <1>t DEF Unlock, workerVars, Live, CallGoto, Caller
<1>9. CASE NotifyAll
  <2>1. Live' = Live
    BY <1>9, <1>t DEF NotifyAll, Live, LivePc, WorkerPc
  <2> QED BY <1>1, <1>9, <1>t, <2>1 DEF NotifyAll, CallGoto
<1>10. CASE ScanIdle \/ ScanNext \/ JoinThread \/ Released \/ Deleted
  BY <1>1, <1>10, <1>t DEF ScanIdle, ScanNext, JoinThread, Released, Deleted, CallGoto, workerVars,
     callVars, Live
<1>11. CASE UNCHANGED vars
  BY <1>1, <1>11 DEF vars, workerVars, callVars, Live
<1> QED
  BY <1>2, <1>3, <1>4, <1>5, <1>6, <1>7, <1>8, <1>9, <1>10, <1>11 DEF Next, Continue, Caller

(* If a new thread always starts within the second createNewThread gives it, *)
(* m_maxNum really is the maximum: addTask never adds a thread to a full     *)
(* pool, although the threads that have not counted themselves in yet are    *)
(* missing from m_validThreadNums.                                           *)
THEOREM MaxCorrect == ~SlowStart => (Safe => []ThreadsWithinMax)
<1> SUFFICES ASSUME ~SlowStart PROVE Safe => []ThreadsWithinMax
  OBVIOUS
<1> DEFINE IInv == /\ Core /\ ListInv /\ CountInv /\ StartInv
                   /\ InitInv /\ ScanInv /\ SizeInv
<1>1. Init => IInv
  BY CoreInit, ListInit, CountInit, StartInit, InitInvInit, ScanInit, SizeInit
<1>2. IInv /\ [Next]_vars => IInv'
  <2>1. CountInv => BootInv
    BY DEF CountInv
  <2> QED BY <2>1, CoreStep, ListStep, CountStep, StartStep, InitInvStep, ScanStep, SizeStep
<1>3. IInv => ThreadsWithinMax
  BY DEF SizeInv, ThreadsWithinMax
<1> QED BY <1>1, <1>2, <1>3, PTL DEF Safe

(***************************************************************************)
(* The pool is a task queue.                                               *)
(***************************************************************************)
Running == {task[t] : t \in Thread} \ {NoTask}

LEMMA RunningSame ==
    ASSUME task' = task PROVE Running' = Running
BY DEF Running

(* Every step of the pool is a step of the abstract task queue, or leaves   *)
(* it alone: Submit is addTask's push, Start the pop under mtx, Finish and  *)
(* Drop the end of a round of threadfun, and Close the end of delInstance.  *)
THEOREM PoolIsTaskQueue == Safe => ImplementsTaskQueue
<1>1. Init => TQ!Init
  BY DEF Init, TQ!Init, Task, Caller
<1>2. ASSUME Core, QueueInv, OnceInv, ListInv, [Next]_vars PROVE [TQ!Next]_(TQ!vars)
  <2>t. /\ task \in [Thread -> Task \cup {NoTask}] /\ processed \in [Task -> Nat]
        /\ cpc \in [Caller -> CallerPc] /\ "main" \in Caller
        /\ pc \in [Thread -> WorkerPc]
    BY <1>2 DEF Core, TypeOK, Caller
  <2>h. \A t \in Thread :
          /\ task[t] # NoTask <=> pc[t] \in {"got", "busy"}
          /\ pc[t] = "busy" => task[t] \notin Workless
    BY <1>2 DEF Core, HeldInv
  <2>0. CASE /\ UNCHANGED <<added, m_tasks, task, processed>>
             /\ cpc'["main"] = "freed" <=> cpc["main"] = "freed"
    BY <2>0, RunningSame DEF TQ!vars, Running
  <2>1. ASSUME NEW t \in Thread, ThreadFun(t) PROVE [TQ!Next]_(TQ!vars)
    <3>0. UNCHANGED <<cpc, added>>
      BY <2>1, WorkerFrame
    <3>1. CASE TakeTask(t)
      <4>1. task[t] = NoTask
        <5>1. pc[t] = "take"
          BY <3>1 DEF TakeTask, Goto
        <5> QED BY <2>t, <2>h, <5>1
      <4>2. Head(m_tasks) # NoTask
        BY <1>2, <3>1, PoolAssumption DEF TakeTask, Core, TypeOK, Task, NoTask
      <4>3. \A u \in Thread : task'[u] = IF u = t THEN Head(m_tasks) ELSE task[u]
        BY <2>t, <3>1 DEF TakeTask
      <4>4. Running' = Running \cup {Head(m_tasks)}
        BY <4>1, <4>2, <4>3 DEF Running
      <4>5. m_tasks # <<>> /\ m_tasks' = Tail(m_tasks) /\ processed' = processed
        BY <3>1 DEF TakeTask, Pop
      <4> QED BY <3>0, <4>4, <4>5 DEF TQ!Next, TQ!Start, Running
    <3>2. CASE DropTask(t) \/ ProcessTask(t)
      <4>1. task[t] # NoTask /\ task[t] \in Running
        <5>1. pc[t] \in {"got", "busy"}
          BY <3>2 DEF DropTask, ProcessTask, Goto
        <5> QED BY <2>t, <2>h, <5>1 DEF Running
      <4>0. PICK k \in Running : k = task[t]
        BY <4>1
      <4>2. \A u \in Thread : task'[u] = IF u = t THEN NoTask ELSE task[u]
        BY <2>t, <3>2 DEF DropTask, ProcessTask
      <4>3. \A u \in Thread : task[u] = task[t] => u = t
        BY <1>2, <4>1 DEF OnceInv
      <4>4. Running' = Running \ {task[t]}
        BY <4>2, <4>3 DEF Running
      <4>5. m_tasks' = m_tasks
        BY <3>2 DEF DropTask, ProcessTask, poolVars
      <4>6. CASE DropTask(t)
        <5>1. task[t] \in Workless /\ processed' = processed
          BY <4>6 DEF DropTask, history
        <5>2. TQ!Drop(k)
          BY <3>0, <4>0, <4>4, <4>5, <5>1 DEF TQ!Drop, Running
        <5> QED BY <5>2 DEF TQ!Next, Running
      <4>7. CASE ProcessTask(t)
        <5>1. pc[t] = "busy" /\ processed' = [processed EXCEPT ![task[t]] = @ + 1]
          BY <4>7 DEF ProcessTask, Goto
        <5>2. task[t] \notin Workless
          BY <2>h, <5>1
        <5>3. TQ!Finish(k)
          BY <3>0, <4>0, <4>4, <4>5, <5>1, <5>2 DEF TQ!Finish, Running
        <5> QED BY <5>3 DEF TQ!Next, Running
      <4> QED BY <3>2, <4>6, <4>7
    <3>3. CASE ~(TakeTask(t) \/ DropTask(t) \/ ProcessTask(t))
      BY <2>0, <2>1, <3>0, <3>3 DEF ThreadFun, ThreadStart, ThreadCount, ThreadLoop, FindNoTask,
         ThreadBusy, ThreadReady, ThreadCheck, ThreadWait, WaitTimeout, ThreadExit, ThreadLeave,
         poolVars, history
    <3> QED BY <3>1, <3>2, <3>3
  <2>2. CASE AddTask
    <3>1. cpc["main"] # "freed" /\ cpc'["main"] = cpc["main"]
      BY <2>2, <2>t DEF AddTask, CallGoto
    <3>2. /\ added < MaxTasks /\ added' = added + 1 /\ m_tasks' = Append(m_tasks, added + 1)
          /\ UNCHANGED <<task, processed>>
      BY <2>2 DEF AddTask, Push, workerVars
    <3> QED BY <3>1, <3>2, RunningSame DEF TQ!Next, TQ!Submit, Running
  <2>3. CASE Deleted
    <3>1. Live = {}
      BY <1>2, <2>3, JoinedAll DEF Deleted, CallGoto
    <3>2. Running = {}
      <4>1. \A t \in Thread : pc[t] \in {"none", "dead"}
        BY <2>t, <3>1 DEF Live, LivePc
      <4>2. \A t \in Thread : task[t] = NoTask
        BY <2>h, <4>1
      <4> QED BY <4>2 DEF Running
    <3>3. /\ cpc["main"] = "destroy" /\ cpc'["main"] = "freed" /\ m_tasks' = <<>>
          /\ UNCHANGED <<added, task, processed>>
      BY <2>3, <2>t DEF Deleted, CallGoto, workerVars, history
    <3> QED BY <3>2, <3>3, RunningSame DEF TQ!Next, TQ!Close, Running
  <2>4. CASE InitTaskPool \/ ReleaseTaskPool \/ DelInstance
    BY <2>0, <2>4, <2>t DEF InitTaskPool, ReleaseTaskPool, DelInstance, CallGoto, workerVars, history
  <2>5. ASSUME NEW c \in Caller, CreateNewThread(c) \/ ThreadCreated(c) \/ Unlock(c)
        PROVE  [TQ!Next]_(TQ!vars)
    <3>1. cpc'["main"] = "freed" <=> cpc["main"] = "freed"
      BY <2>5, <2>t DEF CreateNewThread, ThreadCreated, Unlock, CallGoto
    <3> QED BY <2>0, <2>5, <3>1 DEF CreateNewThread, ThreadCreated, Unlock, poolVars, workerVars,
               history
  <2>6. CASE ScanIdle \/ ScanNext \/ ScanEnd \/ NotifyAll \/ JoinThread \/ Released
    BY <2>0, <2>6, <2>t DEF ScanIdle, ScanNext, ScanEnd, NotifyAll, JoinThread, Released, CallGoto,
       poolVars, workerVars, callVars, history
  <2>7. CASE UNCHANGED vars
    BY <2>0, <2>7 DEF vars, poolVars, workerVars, callVars, history
  <2> QED
    BY <1>2, <2>1, <2>2, <2>3, <2>4, <2>5, <2>6, <2>7 DEF Next, Continue
<1>3. Safe => [](Core /\ QueueInv /\ OnceInv /\ ListInv)
  BY CoreInit, CoreStep, QueueInit, QueueStep, OnceInit, OnceStep, ListInit, ListStep, PTL DEF Safe
<1> QED BY <1>1, <1>2, <1>3, PTL DEF Safe, ImplementsTaskQueue, TQ!Spec
===============================================================================
