---------------------------- MODULE ThreadPoolProofs ----------------------------
(***************************************************************************)
(* Proofs about module ThreadPool, for every number of threads and tasks.  *)
(***************************************************************************)
EXTENDS ThreadPool, TLAPS, SequenceTheorems

(* An unsigned short holds a number below ShortMod. *)
LEMMA ShortRange == \A x \in Int : x % ShortMod \in 0..(ShortMod - 1)
<1>1. ShortMod \in Nat \ {0}
  BY PoolAssumption
<1> QED BY <1>1

(* A worker's step leaves the callers and the list of threads alone. *)
LEMMA WorkerFrame ==
    ASSUME NEW t \in Thread, ThreadFun(t)
    PROVE  UNCHANGED <<mtx, m_threads, m_tpState, cpc, scan, tsize, created, added>>
BY DEF ThreadFun, ThreadStart, ThreadCount, ThreadLoop, TakeTask, FindNoTask, ThreadBusy,
   DropTask, ProcessTask, ThreadReady, ThreadCheck, ThreadWait, WaitTimeout, ThreadExit,
   ThreadLeave, poolVars, callVars, history

(* A caller's step leaves the workers' locals and their results alone. *)
LEMMA CallerFrame ==
    ASSUME InitTaskPool \/ AddTask \/ ReleaseTaskPool \/ DelInstance \/ Continue
    PROVE  UNCHANGED <<task, ifreeTime, taken, processed>>
BY DEF InitTaskPool, AddTask, ReleaseTaskPool, DelInstance, Continue, CreateNewThread,
   ThreadCreated, Unlock, ScanIdle, ScanNext, ScanEnd, NotifyAll, JoinThread, Released,
   Deleted, workerVars, history

(***************************************************************************)
(* The shape of a call: who holds mtx, and that the holder who creates a   *)
(* thread still has one to create.                                         *)
(***************************************************************************)
MainLockPc == {"create", "poll", "unlock", "clear", "destroy"}
RecvLockPc == {"scan", "create", "poll", "unlock"}

LockInv ==
    /\ cpc \in [Caller -> CallerPc]
    /\ tsize \in 0..(ShortMod - 1)
    /\ cpc["main"] \in MainLockPc \cup {"boot", "idle", "freed"}
    /\ cpc["recv"] \in RecvLockPc \cup {"idle", "notify"}
    /\ mtx = "main" <=> cpc["main"] \in MainLockPc
    /\ mtx = "recv" <=> cpc["recv"] \in RecvLockPc
    /\ \A c \in Caller : cpc[c] \in {"create", "poll"} => tsize > 0

LEMMA LockInit == Init => LockInv
BY PoolAssumption DEF Init, LockInv, MainLockPc, RecvLockPc, Caller, CallerPc

LEMMA LockStep == LockInv /\ [Next]_vars => LockInv'
<1> SUFFICES ASSUME LockInv, [Next]_vars PROVE LockInv'
  OBVIOUS
<1> USE DEF LockInv, MainLockPc, RecvLockPc, Caller, CallerPc, CallGoto
<1>1. ASSUME NEW t \in Thread, ThreadFun(t) PROVE LockInv'
  BY <1>1, WorkerFrame
<1>2. CASE InitTaskPool
  <2>1. Len(m_threads) \in Int => (MinNum - Len(m_threads)) % ShortMod \in 0..(ShortMod - 1)
    BY ShortRange, PoolAssumption
  <2> QED BY <1>2, <2>1 DEF InitTaskPool
<1>3. CASE AddTask
  BY <1>3 DEF AddTask
<1>4. CASE ReleaseTaskPool
  BY <1>4 DEF ReleaseTaskPool
<1>5. CASE DelInstance
  BY <1>5 DEF DelInstance
<1>6. ASSUME NEW c \in Caller, CreateNewThread(c) PROVE LockInv'
  BY <1>6 DEF CreateNewThread, poolVars
<1>7. ASSUME NEW c \in Caller, ThreadCreated(c) PROVE LockInv'
  BY <1>7, PoolAssumption DEF ThreadCreated
<1>8. ASSUME NEW c \in Caller, Unlock(c) PROVE LockInv'
  BY <1>8 DEF Unlock
<1>9. CASE ScanIdle
  BY <1>9 DEF ScanIdle, poolVars
<1>10. CASE ScanNext
  BY <1>10 DEF ScanNext, poolVars
<1>11. CASE ScanEnd
  BY <1>11, PoolAssumption DEF ScanEnd, poolVars
<1>12. CASE NotifyAll
  BY <1>12 DEF NotifyAll, poolVars
<1>13. CASE JoinThread
  BY <1>13 DEF JoinThread, callVars
<1>14. CASE Released
  BY <1>14 DEF Released
<1>15. CASE Deleted
  BY <1>15 DEF Deleted
<1>16. CASE UNCHANGED vars
  BY <1>16 DEF vars, poolVars, callVars
<1> QED
  BY <1>1, <1>2, <1>3, <1>4, <1>5, <1>6, <1>7, <1>8, <1>9, <1>10, <1>11, <1>12, <1>13,
     <1>14, <1>15, <1>16 DEF Next, Continue

(***************************************************************************)
(* A thread has a task in hand exactly between taking and dropping it, and *)
(* runs it only if it has a worker.  Threads are numbered as created.      *)
(***************************************************************************)
HeldInv ==
    /\ \A t \in Thread :
         /\ task[t] # NoTask <=> pc[t] \in {"got", "busy"}
         /\ pc[t] = "busy" => task[t] \notin Workless
         /\ pc[t] = "none" <=> t > created
    /\ \A c \in Caller : cpc[c] = "poll" => created >= 1

Core == TypeOK /\ LockInv /\ HeldInv

LEMMA CoreInit == Init => Core
<1> SUFFICES ASSUME Init PROVE Core
  OBVIOUS
<1>1. TypeOK
  <2>1. m_tasks \in Seq(Task) /\ m_threads \in Seq(Thread)
    BY DEF Init
  <2>2. cpc \in [Caller -> CallerPc]
    BY DEF Init, Caller, CallerPc
  <2>3. /\ m_validThreadNums \in 0..(ShortMod - 1)
        /\ tsize \in 0..(ShortMod - 1)
        /\ created \in 0..MaxThreads
        /\ added \in 0..MaxTasks
        /\ scan \in Nat /\ taken \in Nat
    BY PoolAssumption DEF Init
  <2>4. m_state \in [Thread -> 0..3] /\ processed \in [Task -> Nat]
    BY DEF Init
  <2>5. ifreeTime \in [Thread -> 0..(ShortMod - 1)]
    BY PoolAssumption DEF Init
  <2>6. pc \in [Thread -> WorkerPc] /\ task \in [Thread -> Task \cup {NoTask}]
    BY DEF Init, WorkerPc
  <2> QED BY <2>1, <2>2, <2>3, <2>4, <2>5, <2>6 DEF Init, TypeOK
<1>2. HeldInv
  BY DEF Init, HeldInv, Thread, NoTask, Caller
<1> QED BY <1>1, <1>2, LockInit DEF Core

LEMMA TypeStep == Core /\ [Next]_vars => TypeOK'
<1> SUFFICES ASSUME Core, [Next]_vars PROVE TypeOK'
  OBVIOUS
<1>a. cpc' \in [Caller -> CallerPc] /\ tsize' \in 0..(ShortMod - 1)
  BY LockStep DEF Core, LockInv
<1> USE <1>a DEF Core, TypeOK, poolVars, workerVars, callVars, history, Goto
<1>1. ASSUME NEW t \in Thread, ThreadFun(t) PROVE TypeOK'
  <2>1. CASE ThreadStart(t)
    BY <2>1 DEF ThreadStart, WorkerPc
  <2>2. CASE ThreadCount(t)
    <3>1. m_validThreadNums' \in 0..(ShortMod - 1)
      BY <2>2, ShortRange, m_validThreadNums + 1 \in Int DEF ThreadCount
    <3>2. ifreeTime' \in [Thread -> 0..(ShortMod - 1)]
      BY <2>2, PoolAssumption DEF ThreadCount
    <3> QED BY <2>2, <3>1, <3>2 DEF ThreadCount, WorkerPc
  <2>3. CASE ThreadLoop(t)
    BY <2>3 DEF ThreadLoop, WorkerPc
  <2>4. CASE TakeTask(t)
    BY <2>4, PoolAssumption DEF TakeTask, Pop, WorkerPc
  <2>5. CASE FindNoTask(t)
    <3>1. IdleRound(ifreeTime[t]) \in 0..(ShortMod - 1)
      BY ShortRange, ifreeTime[t] + 1 \in Int DEF IdleRound
    <3> QED BY <2>5, <3>1 DEF FindNoTask, WorkerPc
  <2>6. CASE ThreadBusy(t)
    BY <2>6 DEF ThreadBusy, WorkerPc
  <2>7. CASE DropTask(t)
    BY <2>7 DEF DropTask, WorkerPc
  <2>8. CASE ProcessTask(t)
    <3>1. task[t] \in Task
      BY <2>8 DEF ProcessTask, HeldInv
    <3> QED BY <2>8, <3>1 DEF ProcessTask, WorkerPc
  <2>9. CASE ThreadReady(t)
    BY <2>9 DEF ThreadReady, AfterRound, WorkerPc
  <2>10. CASE ThreadCheck(t)
    BY <2>10 DEF ThreadCheck, WorkerPc
  <2>11. CASE ThreadWait(t)
    BY <2>11 DEF ThreadWait, WorkerPc
  <2>12. CASE WaitTimeout(t)
    BY <2>12 DEF WaitTimeout, WorkerPc
  <2>13. CASE ThreadExit(t)
    BY <2>13 DEF ThreadExit, WorkerPc
  <2>14. CASE ThreadLeave(t)
    <3>1. CountOut \in 0..(ShortMod - 1)
      BY ShortRange, m_validThreadNums - 1 \in Int DEF CountOut
    <3> QED BY <2>14, <3>1 DEF ThreadLeave, WorkerPc
  <2> QED BY <1>1, <2>1, <2>2, <2>3, <2>4, <2>5, <2>6, <2>7, <2>8, <2>9, <2>10, <2>11,
             <2>12, <2>13, <2>14 DEF ThreadFun
<1>2. CASE InitTaskPool
  BY <1>2, PoolAssumption DEF InitTaskPool, Caller
<1>3. CASE AddTask
  BY <1>3, PoolAssumption DEF AddTask, Push, Caller, Task
<1>4. CASE ReleaseTaskPool
  BY <1>4 DEF ReleaseTaskPool, Caller
<1>5. CASE DelInstance
  BY <1>5 DEF DelInstance, Caller
<1>6. ASSUME NEW c \in Caller, CreateNewThread(c) PROVE TypeOK'
  <2>1. created + 1 \in Thread /\ created + 1 \in 0..MaxThreads
    BY <1>6, PoolAssumption DEF CreateNewThread, Thread
  <2> QED BY <1>6, <2>1 DEF CreateNewThread, WorkerPc
<1>7. ASSUME NEW c \in Caller, ThreadCreated(c) PROVE TypeOK'
  <2>1. created \in Thread
    BY <1>7 DEF ThreadCreated, CallGoto, HeldInv, Thread
  <2> QED BY <1>7, <2>1 DEF ThreadCreated
<1>8. ASSUME NEW c \in Caller, Unlock(c) PROVE TypeOK'
  BY <1>8 DEF Unlock
<1>9. CASE ScanIdle
  BY <1>9 DEF ScanIdle
<1>10. CASE ScanNext
  BY <1>10 DEF ScanNext
<1>11. CASE ScanEnd
  BY <1>11 DEF ScanEnd
<1>12. CASE NotifyAll
  BY <1>12 DEF NotifyAll, WorkerPc
<1>13. CASE JoinThread
  BY <1>13 DEF JoinThread
<1>14. CASE Released
  BY <1>14 DEF Released
<1>15. CASE Deleted
  BY <1>15 DEF Deleted
<1>16. CASE UNCHANGED vars
  BY <1>16 DEF vars
<1> QED
  BY <1>1, <1>2, <1>3, <1>4, <1>5, <1>6, <1>7, <1>8, <1>9, <1>10, <1>11, <1>12, <1>13,
     <1>14, <1>15, <1>16 DEF Next, Continue

LEMMA HeldStep == Core /\ [Next]_vars => HeldInv'
<1> SUFFICES ASSUME Core, [Next]_vars PROVE HeldInv'
  OBVIOUS
<1>t. /\ pc \in [Thread -> WorkerPc] /\ task \in [Thread -> Task \cup {NoTask}]
      /\ cpc \in [Caller -> CallerPc] /\ created \in 0..MaxThreads
  BY DEF Core, TypeOK
<1>h. HeldInv
  BY DEF Core
<1> USE <1>t, <1>h DEF HeldInv, Goto, poolVars, workerVars, callVars, history
<1>1. ASSUME NEW t \in Thread, ThreadFun(t) PROVE HeldInv'
  <2>0. UNCHANGED <<cpc, created>>
    BY <1>1, WorkerFrame
  <2>1. CASE ThreadStart(t) \/ ThreadCount(t) \/ ThreadLoop(t) \/ FindNoTask(t)
    BY <2>0, <2>1 DEF ThreadStart, ThreadCount, ThreadLoop, FindNoTask
  <2>2. CASE TakeTask(t)
    <3>1. Head(m_tasks) \in Task
      BY <2>2 DEF TakeTask, Core, TypeOK
    <3> QED BY <2>0, <2>2, <3>1, PoolAssumption DEF TakeTask, Task, NoTask
  <2>3. CASE ThreadBusy(t)
    BY <2>0, <2>3 DEF ThreadBusy
  <2>4. CASE DropTask(t) \/ ProcessTask(t)
    BY <2>0, <2>4 DEF DropTask, ProcessTask
  <2>5. CASE ThreadReady(t)
    BY <2>0, <2>5 DEF ThreadReady, AfterRound
  <2>6. CASE ThreadCheck(t) \/ ThreadWait(t) \/ WaitTimeout(t) \/ ThreadExit(t) \/ ThreadLeave(t)
    BY <2>0, <2>6 DEF ThreadCheck, ThreadWait, WaitTimeout, ThreadExit, ThreadLeave
  <2> QED BY <1>1, <2>1, <2>2, <2>3, <2>4, <2>5, <2>6 DEF ThreadFun
<1>2. CASE InitTaskPool \/ AddTask \/ ReleaseTaskPool \/ DelInstance
  BY <1>2 DEF InitTaskPool, AddTask, ReleaseTaskPool, DelInstance, CallGoto
<1>3. ASSUME NEW c \in Caller, CreateNewThread(c) PROVE HeldInv'
  <2>1. created + 1 \in Thread
    BY <1>3, PoolAssumption DEF CreateNewThread, Thread
  <2>2. ASSUME NEW t \in Thread PROVE pc'[t] = "none" <=> t > created'
    BY <1>3, <2>1 DEF CreateNewThread, Thread
  <2>3. created' >= 1
    BY <1>3 DEF CreateNewThread
  <2> QED BY <1>3, <2>1, <2>2, <2>3 DEF CreateNewThread, Thread
<1>4. ASSUME NEW c \in Caller, ThreadCreated(c) \/ Unlock(c) PROVE HeldInv'
  BY <1>4 DEF ThreadCreated, Unlock, CallGoto
<1>5. CASE ScanIdle \/ ScanNext \/ ScanEnd
  BY <1>5 DEF ScanIdle, ScanNext, ScanEnd, CallGoto
<1>6. CASE NotifyAll
  BY <1>6 DEF NotifyAll, CallGoto
<1>7. CASE JoinThread \/ Released \/ Deleted
  BY <1>7 DEF JoinThread, Released, Deleted, CallGoto
<1>8. CASE UNCHANGED vars
  BY <1>8 DEF vars
<1> QED
  BY <1>1, <1>2, <1>3, <1>4, <1>5, <1>6, <1>7, <1>8 DEF Next, Continue

LEMMA CoreStep == Core /\ [Next]_vars => Core'
BY TypeStep, LockStep, HeldStep DEF Core

(* Every step of the pool keeps every variable in its range: the counters in *)
(* an unsigned short, and each step of threadfun and of the callers at a     *)
(* place the code has.                                                       *)
THEOREM TypeCorrect == Safe => []TypeOK
<1>1. Core => TypeOK
  BY DEF Core
<1> QED BY <1>1, CoreInit, CoreStep, PTL DEF Safe

(***************************************************************************)
(* The queue is first in, first out.                                       *)
(***************************************************************************)
QueueInv ==
    /\ taken <= added
    /\ cpc["main"] = "freed" => m_tasks = <<>>
    /\ cpc["main"] # "freed" => /\ Len(m_tasks) = added - taken
                                /\ \A i \in 1..Len(m_tasks) : m_tasks[i] = taken + i

LEMMA QueueInit == Init => QueueInv
BY DEF Init, QueueInv

LEMMA QueueStep == Core /\ QueueInv /\ [Next]_vars => QueueInv'
<1> SUFFICES ASSUME Core, QueueInv, [Next]_vars PROVE QueueInv'
  OBVIOUS
<1>t. /\ m_tasks \in Seq(Task) /\ added \in Nat /\ taken \in Nat
      /\ cpc \in [Caller -> CallerPc] /\ "main" \in Caller
  BY PoolAssumption DEF Core, TypeOK, Caller
<1> USE <1>t DEF QueueInv, poolVars, callVars, history
<1>1. ASSUME NEW t \in Thread, ThreadFun(t) PROVE QueueInv'
  <2>1. CASE TakeTask(t)
    <3>1. cpc["main"] # "freed" /\ cpc' = cpc /\ added' = added
      BY <2>1 DEF TakeTask
    <3>2. m_tasks' \in Seq(Task) /\ Len(m_tasks') = Len(m_tasks) - 1
      BY <2>1 DEF TakeTask, Pop
    <3>3. \A i \in 1..Len(m_tasks') : m_tasks'[i] = m_tasks[i + 1]
      BY <2>1 DEF TakeTask, Pop
    <3>4. Len(m_tasks) > 0 /\ taken' = taken + 1
      BY <2>1 DEF TakeTask
    <3> QED BY <3>1, <3>2, <3>3, <3>4
  <2>2. CASE ~TakeTask(t)
    <3>1. UNCHANGED <<m_tasks, taken, added, cpc>>
      BY <1>1, <2>2, WorkerFrame DEF ThreadFun, ThreadStart, ThreadCount, ThreadLoop, FindNoTask,
         ThreadBusy, DropTask, ProcessTask, ThreadReady, ThreadCheck, ThreadWait, WaitTimeout,
         ThreadExit, ThreadLeave
    <3> QED BY <3>1
  <2> QED BY <2>1, <2>2
<1>2. CASE AddTask
  <2>1. cpc["main"] # "freed" /\ cpc'["main"] = cpc["main"] /\ taken' = taken
    BY <1>2 DEF AddTask, CallGoto
  <2>2. m_tasks' = Append(m_tasks, added + 1) /\ added' = added + 1
    BY <1>2 DEF AddTask, Push
  <2>3. added + 1 \in Task
    BY <1>2, PoolAssumption DEF AddTask, Task
  <2>4. /\ Len(m_tasks') = Len(m_tasks) + 1
        /\ \A i \in 1..Len(m_tasks') :
             m_tasks'[i] = IF i <= Len(m_tasks) THEN m_tasks[i] ELSE added + 1
    BY <2>2, <2>3
  <2>5. \A i \in 1..Len(m_tasks') : m_tasks'[i] = taken' + i
    <3> SUFFICES ASSUME NEW i \in 1..Len(m_tasks') PROVE m_tasks'[i] = taken' + i
      OBVIOUS
    <3>1. m_tasks'[i] = IF i <= Len(m_tasks) THEN m_tasks[i] ELSE added + 1
      BY <2>4
    <3>2. Len(m_tasks) \in Nat /\ i \in Nat /\ 1 <= i /\ i <= Len(m_tasks) + 1
      BY <2>4
    <3> QED BY <2>1, <3>1, <3>2
  <2>6. Len(m_tasks') = added' - taken' /\ taken' <= added'
    BY <2>1, <2>2, <2>4
  <2> QED BY <2>1, <2>5, <2>6
<1>3. CASE Deleted
  BY <1>3 DEF Deleted, CallGoto
<1>4. CASE /\ UNCHANGED <<m_tasks, added, taken>>
           /\ cpc'["main"] = "freed" <=> cpc["main"] = "freed"
  BY <1>4
<1>5. CASE InitTaskPool \/ ReleaseTaskPool \/ DelInstance
  BY <1>4, <1>5 DEF InitTaskPool, ReleaseTaskPool, DelInstance, CallGoto
<1>6. ASSUME NEW c \in Caller, CreateNewThread(c) \/ ThreadCreated(c) \/ Unlock(c)
      PROVE  QueueInv'
  BY <1>4, <1>6 DEF CreateNewThread, ThreadCreated, Unlock, CallGoto, Caller
<1>7. CASE ScanIdle \/ ScanNext \/ ScanEnd \/ NotifyAll \/ JoinThread \/ Released
  BY <1>4, <1>7 DEF ScanIdle, ScanNext, ScanEnd, NotifyAll, JoinThread, Released, CallGoto
<1>8. CASE UNCHANGED vars
  BY <1>8 DEF vars
<1> QED
  BY <1>1, <1>2, <1>3, <1>5, <1>6, <1>7, <1>8 DEF Next, Continue

(* For every number of threads and tasks, the queue holds exactly the tasks *)
(* added and not yet taken, in the order of the addTask calls.              *)
THEOREM QueueCorrect == Safe => []QueueInOrder
<1>1. Core /\ QueueInv => QueueInOrder
  <2> SUFFICES ASSUME Core, QueueInv, cpc["main"] # "freed"
               PROVE  m_tasks = [i \in 1..(added - taken) |-> taken + i]
    BY DEF QueueInOrder
  <2>1. m_tasks \in Seq(Task) /\ added \in Nat /\ taken \in Nat
    BY PoolAssumption DEF Core, TypeOK
  <2>2. m_tasks = [i \in 1..Len(m_tasks) |-> m_tasks[i]]
    BY <2>1
  <2> QED BY <2>1, <2>2 DEF QueueInv
<1> QED BY <1>1, CoreInit, CoreStep, QueueInit, QueueStep, PTL DEF Safe

(***************************************************************************)
(* A task is in one thread's hands at a time and is processed once.        *)
(***************************************************************************)
Held(k) == \E t \in Thread : task[t] = k

OnceInv ==
    /\ \A t, u \in Thread : task[t] # NoTask /\ task[t] = task[u] => t = u
    /\ \A t \in Thread : task[t] <= taken
    /\ \A k \in Task :
         processed[k] = IF k <= taken /\ k \notin Workless /\ ~Held(k) THEN 1 ELSE 0

LEMMA OnceInit == Init => OnceInv
BY DEF Init, OnceInv, NoTask, Task

LEMMA OnceStep == Core /\ QueueInv /\ OnceInv /\ [Next]_vars => OnceInv'
<1> SUFFICES ASSUME Core, QueueInv, OnceInv, [Next]_vars PROVE OnceInv'
  OBVIOUS
<1>t. /\ task \in [Thread -> Task \cup {NoTask}] /\ processed \in [Task -> Nat]
      /\ taken \in Nat /\ pc \in [Thread -> WorkerPc]
  BY DEF Core, TypeOK
<1>h. \A t \in Thread :
        /\ task[t] # NoTask <=> pc[t] \in {"got", "busy"}
        /\ pc[t] = "busy" => task[t] \notin Workless
  BY DEF Core, HeldInv
<1>k. \A k \in Task : k \in Nat \ {0}
  BY PoolAssumption DEF Task
<1>1. CASE UNCHANGED <<task, taken, processed>>
  BY <1>1 DEF OnceInv, Held
<1>2. ASSUME NEW t \in Thread, ThreadFun(t) PROVE OnceInv'
  <2>1. CASE TakeTask(t)
    <3>1. Head(m_tasks) = taken + 1 /\ taken + 1 \in Task
      BY <2>1 DEF TakeTask, QueueInv, Core, TypeOK
    <3>2. taken' = taken + 1 /\ task' = [task EXCEPT ![t] = taken + 1] /\ processed' = processed
      BY <2>1, <3>1 DEF TakeTask
    <3>3. task[t] = NoTask
      <4>1. pc[t] = "take"
        BY <2>1 DEF TakeTask, Goto
      <4> QED BY <4>1, <1>t, <1>h
    <3>4. \A u \in Thread : task[u] \in Nat /\ task[u] <= taken
      BY <1>t, <1>k DEF OnceInv, NoTask
    <3>5. \A u \in Thread : task'[u] = IF u = t THEN taken + 1 ELSE task[u]
      BY <1>t, <3>2
    <3>6. \A u, v \in Thread : task'[u] # NoTask /\ task'[u] = task'[v] => u = v
      BY <1>t, <3>4, <3>5 DEF OnceInv
    <3>7. \A u \in Thread : task'[u] <= taken'
      BY <1>t, <3>2, <3>4, <3>5
    <3>8. ASSUME NEW k \in Task
          PROVE  processed'[k] = IF k <= taken' /\ k \notin Workless /\ ~Held(k)' THEN 1 ELSE 0
      <4>1. CASE k = taken + 1
        <5>1. Held(k)'
          BY <4>1, <3>5 DEF Held
        <5>2. ~(k <= taken)
          BY <4>1, <1>t
        <5> QED BY <5>1, <5>2, <3>2 DEF OnceInv
      <4>2. CASE k # taken + 1
        <5>1. Held(k)' <=> Held(k)
          BY <4>2, <3>3, <3>5, <1>k DEF Held, NoTask
        <5>2. k <= taken' <=> k <= taken
          BY <4>2, <3>2, <1>k, <1>t
        <5> QED BY <5>1, <5>2, <3>2 DEF OnceInv
      <4> QED BY <4>1, <4>2
    <3> QED BY <3>6, <3>7, <3>8 DEF OnceInv
  <2>2. CASE DropTask(t) \/ ProcessTask(t)
    <3>1. task' = [task EXCEPT ![t] = NoTask] /\ taken' = taken
      BY <2>2 DEF DropTask, ProcessTask, history
    <3>2. \A u \in Thread : task'[u] = IF u = t THEN NoTask ELSE task[u]
      BY <1>t, <3>1
    <3>3. task[t] \in Task /\ task[t] # NoTask
      <4>1. pc[t] = "got" \/ pc[t] = "busy"
        BY <2>2 DEF DropTask, ProcessTask, Goto
      <4> QED BY <4>1, <1>t, <1>h
    <3>4. \A u \in Thread : task'[u] <= taken'
      BY <1>t, <3>1, <3>2 DEF OnceInv, NoTask
    <3>5. \A u, v \in Thread : task'[u] # NoTask /\ task'[u] = task'[v] => u = v
      BY <3>2 DEF OnceInv
    <3>6. \A k \in Task : k # task[t] => (Held(k)' <=> Held(k))
      BY <3>2, <1>k DEF Held, NoTask
    <3>7. \A k \in Task : k = task[t] => ~Held(k)' /\ Held(k)
      BY <3>2, <3>3 DEF Held, OnceInv
    <3>8. processed[task[t]] = 0 /\ task[t] <= taken
      BY <3>3, <3>7 DEF OnceInv
    <3>9. CASE DropTask(t)
      <4>1. task[t] \in Workless /\ processed' = processed
        BY <3>9 DEF DropTask, history
      <4> QED BY <3>1, <3>3, <3>4, <3>5, <3>6, <4>1 DEF OnceInv
    <3>10. CASE ProcessTask(t)
      <4>1. task[t] \notin Workless /\ processed' = [processed EXCEPT ![task[t]] = @ + 1]
        <5>1. pc[t] = "busy"
          BY <3>10 DEF ProcessTask, Goto
        <5> QED BY <3>10, <5>1, <1>h DEF ProcessTask
      <4>2. \A k \in Task : processed'[k] = IF k = task[t] THEN 1 ELSE processed[k]
        BY <4>1, <3>3, <3>8, <1>t
      <4> QED BY <3>1, <3>3, <3>4, <3>5, <3>6, <3>7, <3>8, <4>1, <4>2 DEF OnceInv
    <3> QED BY <2>2, <3>9, <3>10
  <2>3. CASE ~(TakeTask(t) \/ DropTask(t) \/ ProcessTask(t))
    BY <1>1, <1>2, <2>3 DEF ThreadFun, ThreadStart, ThreadCount, ThreadLoop, FindNoTask,
       ThreadBusy, ThreadReady, ThreadCheck, ThreadWait, WaitTimeout, ThreadExit, ThreadLeave,
       history
  <2> QED BY <2>1, <2>2, <2>3
<1>3. CASE InitTaskPool \/ AddTask \/ ReleaseTaskPool \/ DelInstance \/ Continue
  BY <1>1, <1>3, CallerFrame
<1>4. CASE UNCHANGED vars
  BY <1>1, <1>4 DEF vars, workerVars, history
<1> QED
  BY <1>2, <1>3, <1>4 DEF Next

(* For every number of threads and tasks, a task that left the queue is in  *)
(* one thread's hands, or was processed exactly once, or had no worker.     *)
THEOREM OnceCorrect == Safe => []ExactlyOnce
<1>1. OnceInv => ExactlyOnce
  BY DEF OnceInv, ExactlyOnce, Held
<1> QED BY <1>1, CoreInit, CoreStep, QueueInit, QueueStep, OnceInit, OnceStep, PTL DEF Safe
===============================================================================
