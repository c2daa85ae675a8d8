------------------------------- MODULE TaskQueue -------------------------------
(***************************************************************************)
(* What the pool promises the code that hands it tasks, whatever threads   *)
(* it uses: tasks start in the order of the addTask calls, a task that was *)
(* started is finished at most once, a task without a worker is dropped    *)
(* unprocessed, and only deleting the pool discards tasks that have not    *)
(* been started.                                                           *)
(***************************************************************************)
EXTENDS Integers, Sequences

CONSTANTS
    MaxTasks,   \* bound: tasks ever submitted
    Workless    \* tasks that are NULL or whose m_worker is NULL

VARIABLES
    submitted,  \* number of tasks submitted; a task is its number
    pending,    \* tasks not started, oldest first
    running,    \* tasks that a thread has in hand
    runs,       \* how often each task has been processed
    closed      \* has the pool been deleted?

vars == <<submitted, pending, running, runs, closed>>

Init ==
    /\ submitted = 0
    /\ pending = <<>>
    /\ running = {}
    /\ runs = [k \in 1..MaxTasks |-> 0]
    /\ closed = FALSE

Submit ==
    /\ ~closed
    /\ submitted < MaxTasks
    /\ submitted' = submitted + 1
    /\ pending' = Append(pending, submitted + 1)
    /\ UNCHANGED <<running, runs, closed>>

Start ==
    /\ pending # <<>>
    /\ running' = running \cup {Head(pending)}
    /\ pending' = Tail(pending)
    /\ UNCHANGED <<submitted, runs, closed>>

Finish(k) ==
    /\ k \in running \ Workless
    /\ running' = running \ {k}
    /\ runs' = [runs EXCEPT ![k] = @ + 1]
    /\ UNCHANGED <<submitted, pending, closed>>

Drop(k) ==
    /\ k \in running \cap Workless
    /\ running' = running \ {k}
    /\ UNCHANGED <<submitted, pending, runs, closed>>

Close ==
    /\ ~closed
    /\ running = {}
    /\ pending' = <<>>
    /\ closed' = TRUE
    /\ UNCHANGED <<submitted, running, runs>>

Next ==
    \/ Submit \/ Start \/ Close
    \/ \E k \in running : Finish(k) \/ Drop(k)

Spec == Init /\ [][Next]_vars
===============================================================================
