------------------------------ MODULE ThreadPool ------------------------------
(***************************************************************************)
(* The worker pool of the server: WG::threadPool and threadfun of          *)
(* server/threadPool/threadpool.cpp, with wgThread and threadTask of       *)
(* threadpool.h.                                                           *)
(*                                                                         *)
(* Two threads outside the pool call it.  "main" runs initTaskPool once    *)
(* (the constructor of taskController) and may shut the pool down; "recv"  *)
(* is the socket's receive thread, the only caller of addTask.  Everything *)
(* that is protected by the global mutex mtx and read nowhere else (the    *)
(* task queue and m_validThreadNums) changes in one step that needs mtx    *)
(* free; mtx is a variable only because addTask, initTaskPool,             *)
(* releaseTaskPool and delInstance keep it across steps in which the       *)
(* workers go on changing their m_state, which no lock protects.           *)
(*                                                                         *)
(* A task is the number of the addTask call that brought it, a thread the  *)
(* number of the createNewThread call that made it.                        *)
(***************************************************************************)
EXTENDS Integers, Sequences, FiniteSets

CONSTANTS
    MaxNum,          \* initTaskPool's maxNum (8 in taskController)
    MinNum,          \* initTaskPool's minNum (2 in taskController)
    max_checkTimes,  \* idle rounds before a thread asks to leave (4)
    ShortMod,        \* 2^16: m_validThreadNums and ifreeTime are unsigned short
    MaxTasks,        \* bound: calls of addTask
    MaxThreads,      \* bound: threads ever created
    Workless,        \* tasks that are NULL or whose m_worker is NULL
    SlowStart,       \* may a new thread need more than the second it is given?
    ShutdownCalls    \* what main may call: subset of {"release", "delete"}

Task   == 1..MaxTasks
Thread == 1..MaxThreads
NoTask == 0
Caller == {"main", "recv"}

ASSUME PoolAssumption ==
    /\ MaxNum \in Nat /\ MinNum \in Nat /\ MinNum <= MaxNum
    /\ max_checkTimes \in Nat
    /\ MaxTasks \in Nat /\ MaxThreads \in Nat
    /\ ShortMod \in Nat /\ ShortMod > 1 /\ MinNum < ShortMod /\ MaxThreads < ShortMod
    /\ Workless \subseteq Task
    /\ SlowStart \in BOOLEAN
    /\ ShutdownCalls \subseteq {"release", "delete"}

VARIABLES
    mtx,                \* holder of the global mutex across steps, or "free"
    m_tasks,            \* the task queue
    m_threads,          \* the list of wgThread objects, in creation order
    m_validThreadNums,  \* how many threads have counted themselves in
    m_tpState,          \* the flag every worker's loop tests
    m_state,            \* wgThread::m_state: 0 will create, 1 idle, 2 busy, 3 released
    pc,                 \* where each worker is in threadfun
    task,               \* threadfun's local task
    ifreeTime,          \* threadfun's local count of idle rounds
    cpc,                \* where each caller is
    scan,               \* addTask's position in m_threads
    tsize,              \* threads the lock holder has still to create
    created,            \* threads created so far
    added,              \* history: tasks handed to addTask
    taken,              \* history: tasks taken off the queue
    processed           \* history: how often onTaskProcessor ran for a task

poolVars   == <<mtx, m_tasks, m_threads, m_validThreadNums, m_tpState>>
workerVars == <<m_state, pc, task, ifreeTime>>
callVars   == <<cpc, scan, tsize, created>>
history    == <<added, taken, processed>>
vars       == <<poolVars, workerVars, callVars, history>>

WorkerPc == {"none", "start", "count", "loop", "take", "got", "busy", "ready",
             "check", "wait", "waiting", "exit", "leave", "dead"}
CallerPc == {"boot", "idle", "scan", "create", "poll", "unlock", "notify",
             "clear", "destroy", "freed"}

(* Between m_validThreadNums++ and m_validThreadNums--. *)
CountedPc == WorkerPc \ {"none", "start", "count", "dead"}
Counted   == {t \in Thread : pc[t] \in CountedPc}

(* Between the creation of the std::thread and the end of threadfun. *)
LivePc == WorkerPc \ {"none", "dead"}
Live   == {t \in Thread : pc[t] \in LivePc}

Init ==
    /\ mtx = "free"
    /\ m_tasks = <<>>
    /\ m_threads = <<>>
    /\ m_validThreadNums = 0
    /\ m_tpState = FALSE
    /\ m_state = [t \in Thread |-> 0]
    /\ pc = [t \in Thread |-> "none"]
    /\ task = [t \in Thread |-> NoTask]
    /\ ifreeTime = [t \in Thread |-> 0]
    /\ cpc = [c \in Caller |-> IF c = "main" THEN "boot" ELSE "idle"]
    /\ scan = 0
    /\ tsize = 0
    /\ created = 0
    /\ added = 0
    /\ taken = 0
    /\ processed = [k \in Task |-> 0]

(***************************************************************************)
(* threadfun, one worker.                                                  *)
(***************************************************************************)
Goto(t, from, to) ==
    /\ pc[t] = from
    /\ pc' = [pc EXCEPT ![t] = to]

(* The thread's first statement, *state = 1: it is what createNewThread polls. *)
ThreadStart(t) ==
    /\ Goto(t, "start", "count")
    /\ m_state' = [m_state EXCEPT ![t] = 1]
    /\ UNCHANGED <<poolVars, task, ifreeTime, callVars, history>>

ThreadCount(t) ==
    /\ mtx = "free"
    /\ Goto(t, "count", "loop")
    /\ m_validThreadNums' = (m_validThreadNums + 1) % ShortMod
    /\ ifreeTime' = [ifreeTime EXCEPT ![t] = 0]
    /\ UNCHANGED <<mtx, m_tasks, m_threads, m_tpState, m_state, task, callVars, history>>

(* while(pool->m_tpState) *)
ThreadLoop(t) ==
    /\ Goto(t, "loop", IF m_tpState THEN "take" ELSE "exit")
    /\ UNCHANGED <<poolVars, m_state, task, ifreeTime, callVars, history>>

(* The queue is tested and popped under mtx; ifreeTime is a local. *)
Pop_FrontOnly(queue) == queue
Pop(queue) == Tail(queue)

TakeTask(t) ==
    /\ mtx = "free"
    /\ m_tasks # <<>>
    /\ Goto(t, "take", "got")
    /\ task' = [task EXCEPT ![t] = Head(m_tasks)]
    /\ m_tasks' = Pop(m_tasks)
    /\ taken' = taken + 1
    /\ ifreeTime' = [ifreeTime EXCEPT ![t] = 0]
    /\ UNCHANGED <<mtx, m_threads, m_validThreadNums, m_tpState, m_state, callVars,
                   added, processed>>

(* ++ifreeTime, an unsigned short: wrapped to 0 it makes an idle round look *)
(* like a null task.                                                        *)
IdleRound_Wide(n) == n + 1
IdleRound(n) == (n + 1) % ShortMod

FindNoTask(t) ==
    /\ mtx = "free"
    /\ m_tasks = <<>>
    /\ Goto(t, "take", "ready")
    /\ ifreeTime' = [ifreeTime EXCEPT ![t] = IdleRound(@)]
    /\ UNCHANGED <<poolVars, m_state, task, callVars, history>>

(* *state = 2, only once a task with a worker is in hand. *)
ThreadBusy(t) ==
    /\ task[t] \notin Workless
    /\ Goto(t, "got", "busy")
    /\ m_state' = [m_state EXCEPT ![t] = 2]
    /\ UNCHANGED <<poolVars, task, ifreeTime, callVars, history>>

(* "task is null or task->worker is null" is logged and the task dropped. *)
DropTask(t) ==
    /\ task[t] \in Workless
    /\ Goto(t, "got", "ready")
    /\ task' = [task EXCEPT ![t] = NoTask]
    /\ UNCHANGED <<poolVars, m_state, ifreeTime, callVars, history>>

(* task->m_worker->onTaskProcessor(task->m_param) returns. *)
ProcessTask(t) ==
    /\ Goto(t, "busy", "ready")
    /\ processed' = [processed EXCEPT ![task[t]] = @ + 1]
    /\ task' = [task EXCEPT ![t] = NoTask]
    /\ UNCHANGED <<poolVars, m_state, ifreeTime, callVars, added, taken>>

(* *state = 1 and the choice between continue, the release test and the wait. *)
AfterRound(n) ==
    IF n = 0 THEN "loop" ELSE IF n >= max_checkTimes THEN "check" ELSE "wait"

ThreadReady(t) ==
    /\ Goto(t, "ready", AfterRound(ifreeTime[t]))
    /\ m_state' = [m_state EXCEPT ![t] = 1]
    /\ UNCHANGED <<poolVars, task, ifreeTime, callVars, history>>

(* needReleaseTaskThread tests under mtx; the thread acts after the unlock. *)
NeedReleaseTaskThread_AtLeast == m_validThreadNums >= MinNum
NeedReleaseTaskThread_Max == m_validThreadNums > MaxNum
NeedReleaseTaskThread == m_validThreadNums > MinNum

ThreadCheck(t) ==
    /\ mtx = "free"
    /\ Goto(t, "check", IF NeedReleaseTaskThread THEN "exit" ELSE "wait")
    /\ UNCHANGED <<poolVars, m_state, task, ifreeTime, callVars, history>>

(* cond.wait_for: the thread is not a waiter until this step, so a notify_all *)
(* between the look at the queue and this step does not reach it.             *)
ThreadWait(t) ==
    /\ Goto(t, "wait", "waiting")
    /\ UNCHANGED <<poolVars, m_state, task, ifreeTime, callVars, history>>

(* wait_for gives up after THREAD_CHECK_INTERVAL seconds. *)
HasTimeout_Not == FALSE
HasTimeout == TRUE

WaitTimeout(t) ==
    /\ HasTimeout
    /\ Goto(t, "waiting", "loop")
    /\ UNCHANGED <<poolVars, m_state, task, ifreeTime, callVars, history>>

ThreadExit(t) ==
    /\ Goto(t, "exit", "leave")
    /\ m_state' = [m_state EXCEPT ![t] = 3]
    /\ UNCHANGED <<poolVars, task, ifreeTime, callVars, history>>

(* m_validThreadNums-- needs mtx, the thread's last step. *)
CanCountOut_NoLock == TRUE
CanCountOut == mtx = "free"
CountOut_Not == m_validThreadNums
CountOut == (m_validThreadNums - 1) % ShortMod

ThreadLeave(t) ==
    /\ CanCountOut
    /\ Goto(t, "leave", "dead")
    /\ m_validThreadNums' = CountOut
    /\ UNCHANGED <<mtx, m_tasks, m_threads, m_tpState, m_state, task, ifreeTime,
                   callVars, history>>

ThreadFun(t) ==
    \/ ThreadStart(t) \/ ThreadCount(t) \/ ThreadLoop(t)
    \/ TakeTask(t) \/ FindNoTask(t)
    \/ ThreadBusy(t) \/ DropTask(t) \/ ProcessTask(t) \/ ThreadReady(t)
    \/ ThreadCheck(t) \/ ThreadWait(t) \/ WaitTimeout(t)
    \/ ThreadExit(t) \/ ThreadLeave(t)

(***************************************************************************)
(* The callers.                                                            *)
(***************************************************************************)
CallGoto(c, from, to) ==
    /\ cpc[c] = from
    /\ cpc' = [cpc EXCEPT ![c] = to]

(* tsize is an unsigned short: minNum minus a larger list would wrap. *)
InitTaskPool ==
    /\ mtx = "free"
    /\ mtx' = "main"
    /\ m_validThreadNums' = 0
    /\ m_tpState' = TRUE
    /\ tsize' = (MinNum - Len(m_threads)) % ShortMod
    /\ CallGoto("main", "boot", IF tsize' > 0 THEN "create" ELSE "unlock")
    /\ UNCHANGED <<m_tasks, m_threads, workerVars, scan, created, history>>

(* createNewThread(NULL): a new wgThread with m_state 0 and its std::thread. *)
CreateNewThread(c) ==
    /\ created < MaxThreads
    /\ CallGoto(c, "create", "poll")
    /\ created' = created + 1
    /\ m_state' = [m_state EXCEPT ![created + 1] = 0]
    /\ pc' = [pc EXCEPT ![created + 1] = "start"]
    /\ UNCHANGED <<poolVars, task, ifreeTime, scan, tsize, history>>

(* The rest of createNewThread: poll m_state, at most ten times 100 ms, then *)
(* push_back whether the thread has started or not.                          *)
PollEnds_AtOnce == TRUE
PollEnds_Taken == m_state[created] # 0 /\ m_tasks = <<>>
PollEnds == m_state[created] # 0 \/ SlowStart

ThreadCreated(c) ==
    /\ CallGoto(c, "poll", IF tsize > 1 THEN "create" ELSE "unlock")
    /\ PollEnds
    /\ m_threads' = Append(m_threads, created)
    /\ tsize' = tsize - 1
    /\ UNCHANGED <<mtx, m_tasks, m_validThreadNums, m_tpState, workerVars, scan, created,
                   history>>

Unlock(c) ==
    /\ CallGoto(c, "unlock", IF c = "main" THEN "idle" ELSE "notify")
    /\ mtx' = "free"
    /\ UNCHANGED <<m_tasks, m_threads, m_validThreadNums, m_tpState, workerVars, scan,
                   tsize, created, history>>

(* addTask: lock, push, and look for an idle thread only below m_maxNum. *)
Push_Front(queue, k) == <<k>> \o queue
Push(queue, k) == Append(queue, k)

AddTask ==
    /\ cpc["main"] \notin {"boot", "freed"}
    /\ mtx = "free"
    /\ added < MaxTasks
    /\ mtx' = "recv"
    /\ added' = added + 1
    /\ m_tasks' = Push(m_tasks, added + 1)
    /\ CallGoto("recv", "idle", IF m_validThreadNums < MaxNum THEN "scan" ELSE "unlock")
    /\ scan' = 1
    /\ UNCHANGED <<m_threads, m_validThreadNums, m_tpState, workerVars, tsize, created,
                   taken, processed>>

(* One round of the loop over m_threads: m_state is read without its thread *)
(* being stopped, and the first idle thread ends the loop.                  *)
ScanIdle ==
    /\ CallGoto("recv", "scan", "unlock")
    /\ scan <= Len(m_threads)
    /\ m_state[m_threads[scan]] = 1
    /\ UNCHANGED <<poolVars, workerVars, scan, tsize, created, history>>

ScanNext ==
    /\ cpc["recv"] = "scan"
    /\ scan <= Len(m_threads)
    /\ m_state[m_threads[scan]] # 1
    /\ scan' = scan + 1
    /\ UNCHANGED <<poolVars, workerVars, cpc, tsize, created, history>>

ScanEnd ==
    /\ scan > Len(m_threads)
    /\ CallGoto("recv", "scan", "create")
    /\ tsize' = 1
    /\ UNCHANGED <<poolVars, workerVars, scan, created, history>>

(* cond.notify_all, after the unlock. *)
NotifyAll ==
    /\ CallGoto("recv", "notify", "idle")
    /\ pc' = [t \in Thread |-> IF pc[t] = "waiting" THEN "loop" ELSE pc[t]]
    /\ UNCHANGED <<poolVars, m_state, task, ifreeTime, scan, tsize, created, history>>

(* releaseTaskPool past its early returns (1: tasks are queued, 0: already *)
(* released), which change nothing.                                        *)
ReleaseTaskPool ==
    /\ "release" \in ShutdownCalls
    /\ mtx = "free"
    /\ m_tasks = <<>>
    /\ m_tpState
    /\ CallGoto("main", "idle", "clear")
    /\ mtx' = "main"
    /\ m_tpState' = FALSE
    /\ UNCHANGED <<m_tasks, m_threads, m_validThreadNums, workerVars, scan, tsize, created,
                   history>>

(* delInstance: delete m_instance under mtx; m_tpState is left alone. *)
DelInstance ==
    /\ "delete" \in ShutdownCalls
    /\ mtx = "free"
    /\ CallGoto("main", "idle", "destroy")
    /\ mtx' = "main"
    /\ UNCHANGED <<m_tasks, m_threads, m_validThreadNums, m_tpState, workerVars, scan,
                   tsize, created, history>>

(* ~wgThread of the list's first element joins its thread, mtx still held. *)
Joined_Detached(t) == TRUE
Joined(t) == pc[t] = "dead"

JoinThread ==
    /\ cpc["main"] \in {"clear", "destroy"}
    /\ m_threads # <<>>
    /\ Joined(Head(m_threads))
    /\ m_threads' = Tail(m_threads)
    /\ UNCHANGED <<mtx, m_tasks, m_validThreadNums, m_tpState, workerVars, callVars, history>>

(* m_threads.clear() is done: unlock and return 2. *)
Released ==
    /\ m_threads = <<>>
    /\ CallGoto("main", "clear", "idle")
    /\ mtx' = "free"
    /\ UNCHANGED <<m_tasks, m_threads, m_validThreadNums, m_tpState, workerVars, scan,
                   tsize, created, history>>

(* The list is destroyed before m_tasks, declared above it; then the memory goes. *)
Deleted ==
    /\ m_threads = <<>>
    /\ CallGoto("main", "destroy", "freed")
    /\ mtx' = "free"
    /\ m_tasks' = <<>>
    /\ UNCHANGED <<m_threads, m_validThreadNums, m_tpState, workerVars, scan, tsize,
                   created, history>>

(* A call, once begun, goes on by itself; beginning one is up to the caller. *)
Continue ==
    \/ \E c \in Caller : CreateNewThread(c) \/ ThreadCreated(c) \/ Unlock(c)
    \/ ScanIdle \/ ScanNext \/ ScanEnd \/ NotifyAll
    \/ JoinThread \/ Released \/ Deleted

Next ==
    \/ InitTaskPool \/ AddTask \/ ReleaseTaskPool \/ DelInstance
    \/ Continue
    \/ \E t \in Thread : ThreadFun(t)

Safe == Init /\ [][Next]_vars

(* The scheduler runs every thread, timers expire, handlers return.  Nobody *)
(* is obliged to call addTask or a shutdown function.                       *)
Fairness ==
    /\ WF_vars(InitTaskPool)
    /\ WF_vars(Continue)
    /\ \A t \in Thread : WF_vars(ThreadFun(t))

Spec == Safe /\ Fairness

(***************************************************************************)
(* Properties.                                                             *)
(***************************************************************************)
TypeOK ==
    /\ mtx \in {"free"} \cup Caller
    /\ m_tasks \in Seq(Task)
    /\ m_threads \in Seq(Thread)
    /\ m_validThreadNums \in 0..(ShortMod - 1)
    /\ m_tpState \in BOOLEAN
    /\ m_state \in [Thread -> 0..3]
    /\ pc \in [Thread -> WorkerPc]
    /\ task \in [Thread -> Task \cup {NoTask}]
    /\ ifreeTime \in [Thread -> 0..(ShortMod - 1)]
    /\ cpc \in [Caller -> CallerPc]
    /\ scan \in Nat
    /\ tsize \in 0..(ShortMod - 1)
    /\ created \in 0..MaxThreads
    /\ added \in 0..MaxTasks
    /\ taken \in Nat
    /\ processed \in [Task -> Nat]

(* The queue holds exactly the tasks added and not yet taken, in the order *)
(* of the addTask calls, until the pool is deleted.                        *)
QueueInOrder ==
    cpc["main"] # "freed" => m_tasks = [i \in 1..(added - taken) |-> taken + i]

(* A task that left the queue is in the hands of exactly one thread, or was *)
(* processed exactly once, or had no worker; no other task was processed.   *)
ExactlyOnce ==
    /\ \A t, u \in Thread : task[t] # NoTask /\ task[t] = task[u] => t = u
    /\ \A t \in Thread : task[t] <= taken
    /\ \A k \in Task :
         LET held == \E t \in Thread : task[t] = k
         IN  processed[k] = IF k <= taken /\ k \notin Workless /\ ~held THEN 1 ELSE 0

(* m_validThreadNums, on which both growing and shrinking are decided, is *)
(* the number of threads between their ++ and their --.                   *)
CountIsExact == m_validThreadNums = Cardinality(Counted)

(* m_maxNum is "the max number of thread will be created" (threadpool.h:66): *)
(* never more threads than that run at once.                                 *)
ThreadsWithinMax == Cardinality(Live) <= MaxNum

(* The pool is a task queue: see module TaskQueue. *)
TQ == INSTANCE TaskQueue WITH
        submitted <- added,
        pending   <- m_tasks,
        running   <- {task[t] : t \in Thread} \ {NoTask},
        runs      <- processed,
        closed    <- cpc["main"] = "freed"
ImplementsTaskQueue == TQ!Spec

(* addTask always returns, though it waits, holding mtx, for a new thread *)
(* whose next step needs mtx.                                             *)
AddTaskReturns == cpc["recv"] # "idle" ~> cpc["recv"] = "idle"

(* A queued task is taken although a notify_all may miss every thread, *)
(* unless all threads have left for good.                              *)
TakenUnlessPoolEmpty ==
    \A k \in Task : added >= k ~> (taken >= k \/ [](Live = {}))

(* Once the tasks stop coming the pool shrinks back to m_minNum threads. *)
SurplusLeaves == <>[](Cardinality(Live) <= MinNum)

(* "managers hold the list of task and send to the thread which is free" *)
(* (threadpool.h:17): every task handed to addTask is processed.         *)
TaskRuns == \A k \in Task \ Workless : added >= k ~> processed[k] = 1

(* releaseTaskPool and delInstance return only when every thread has ended: *)
(* no thread outlives the pool object it points to.                         *)
ShutdownJoinsAll ==
    [][cpc["main"] \in {"clear", "destroy"} /\ cpc'["main"] # cpc["main"] => Live = {}]_vars

Joining == cpc["main"] \in {"clear", "destroy"}
Stuck   == Joining /\ \E i \in 1..Len(m_threads) : pc[m_threads[i]] \in LivePc

(* A shutdown that finds a thread running never gets past it: the join holds *)
(* mtx, and the thread needs mtx to end.                                     *)
JoinUnderLockNeverEnds == [][Stuck => Stuck']_vars
===============================================================================
