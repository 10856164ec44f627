----------------------------- MODULE WorkerPool -----------------------------
(***************************************************************************)
(* The pool of asyncio workers that takes tasks by priority.  submit()     *)
(* starts the workers when the list of them is empty, queues the task and  *)
(* waits for its future; a worker runs one task after the other; a task    *)
(* that is cancelled ends its worker, because only Exception is caught;    *)
(* shutdown() cancels the workers, waits for them and empties the list.    *)
(* A member of Tasks is a submitter: once it has its answer, it may submit *)
(* its next task.                                                          *)
(***************************************************************************)
EXTENDS Integers, FiniteSets

CONSTANTS Tasks,
          Importance,    \* [Tasks -> Nat]: the priority each is submitted with
          Workers,       \* the max_workers slots of the list
          NoTask,
          MaxShutdowns   \* bound on calls of shutdown()

ASSUME PoolAssumption ==
    /\ IsFiniteSet(Tasks) /\ IsFiniteSet(Workers) /\ NoTask \notin Tasks
    /\ Importance \in [Tasks -> Nat] /\ MaxShutdowns \in Nat

VARIABLES task,          \* state of each task and of its future
          ahead,         \* waiting tasks that were in the queue before each task
          worker,        \* state of each worker
          running,       \* the task each worker runs
          staffed,       \* the list of workers is not empty
          shutdowns,     \* calls of shutdown() so far
          closing        \* shutdown() waits for the workers

poolVars == <<task, ahead, worker, running, staffed, shutdowns, closing>>

PoolTypeOK ==
    /\ task \in [Tasks -> {"new", "queued", "running", "settled", "stranded"}]
    /\ ahead \in [Tasks -> SUBSET Tasks]
    /\ worker \in [Workers -> {"none", "waiting", "busy", "dead"}]
    /\ running \in [Workers -> Tasks \cup {NoTask}]
    /\ staffed \in BOOLEAN
    /\ shutdowns \in 0 .. MaxShutdowns
    /\ closing \in BOOLEAN

PoolInit ==
    /\ task = [t \in Tasks |-> "new"]
    /\ ahead = [t \in Tasks |-> {}]
    /\ worker = [w \in Workers |-> "none"]
    /\ running = [w \in Workers |-> NoTask]
    /\ staffed = FALSE /\ shutdowns = 0 /\ closing = FALSE

\* _ensure_workers_started(): only when the list is empty, be the workers alive or
\* not.
EnsureWorkersStarted == IF staffed THEN worker ELSE [w \in Workers |-> "waiting"]

Waiting == {t \in Tasks : task[t] = "queued"}

\* submit(), up to the wait for the future.
Submit(t) ==
    /\ task[t] \in {"new", "settled"}
    /\ task' = [task EXCEPT ![t] = "queued"]
    /\ ahead' = [ahead EXCEPT ![t] = Waiting]
    /\ staffed' = TRUE
    /\ worker' = EnsureWorkersStarted
    /\ UNCHANGED <<running, shutdowns, closing>>

\* The head of the queue by a key without the sequence number.
FirstByImportance(t) == \A u \in Waiting : Importance[u] <= Importance[t]

\* The head of the queue: higher priority first, then the order of submission.
First(t) ==
    \A u \in Waiting :
        \/ Importance[u] < Importance[t]
        \/ Importance[u] = Importance[t] /\ u \notin ahead[t]

\* A worker that shutdown() cancelled takes no task.
Take(w) ==
    /\ worker[w] = "waiting" /\ ~closing
    /\ \E t \in Waiting :
          /\ First(t)
          /\ task' = [task EXCEPT ![t] = "running"]
          /\ ahead' = [u \in Tasks |-> ahead[u] \ {t}]
          /\ running' = [running EXCEPT ![w] = t]
    /\ worker' = [worker EXCEPT ![w] = "busy"]
    /\ UNCHANGED <<staffed, shutdowns, closing>>

\* The task returns or raises, and the future tells the submitter.
Settle(w) ==
    /\ worker[w] = "busy" /\ ~closing
    /\ task' = [task EXCEPT ![running[w]] = "settled"]
    /\ running' = [running EXCEPT ![w] = NoTask]
    /\ worker' = [worker EXCEPT ![w] = "waiting"]
    /\ UNCHANGED <<ahead, staffed, shutdowns, closing>>

\* CancelledError passes `except Exception`: the worker ends, the future of the
\* task it ran stays open.
EndWorker(w) ==
    /\ worker' = [worker EXCEPT ![w] = "dead"]
    /\ task' = [t \in Tasks |-> IF running[w] = t THEN "stranded" ELSE task[t]]
    /\ running' = [running EXCEPT ![w] = NoTask]
    /\ UNCHANGED <<ahead, staffed, shutdowns, closing>>

\* A task raises CancelledError: something it awaits was cancelled.
TaskCancelled(w) == worker[w] = "busy" /\ ~closing /\ EndWorker(w)

Shutdown ==
    /\ shutdowns < MaxShutdowns /\ ~closing
    /\ closing' = TRUE
    /\ shutdowns' = shutdowns + 1
    /\ UNCHANGED <<task, ahead, worker, running, staffed>>

\* The cancellation reaches a worker, waiting or in its task.
WorkerCancelled(w) == closing /\ worker[w] \in {"waiting", "busy"} /\ EndWorker(w)

\* All workers have ended: the list is emptied.
ShutdownDone ==
    /\ closing /\ \A w \in Workers : worker[w] \in {"none", "dead"}
    /\ closing' = FALSE /\ staffed' = FALSE
    /\ worker' = [w \in Workers |-> "none"]
    /\ UNCHANGED <<task, ahead, running, shutdowns>>

PoolNext ==
    \/ \E t \in Tasks : Submit(t)
    \/ \E w \in Workers : Take(w) \/ Settle(w) \/ TaskCancelled(w) \/ WorkerCancelled(w)
    \/ Shutdown \/ ShutdownDone

\* The event loop runs every coroutine that can go on, and tasks come to an end.
\* Nobody has to submit, to cancel or to shut down.
PoolFairness ==
    /\ \A w \in Workers : /\ WF_poolVars(Take(w)) /\ WF_poolVars(WorkerCancelled(w))
                          /\ WF_poolVars(Settle(w))
    /\ WF_poolVars(ShutdownDone)

PoolSpec == PoolInit /\ [][PoolNext]_poolVars /\ PoolFairness

-----------------------------------------------------------------------------
Alive == {w \in Workers : worker[w] \in {"waiting", "busy"}}

MoreImportantWaits(t) == \E u \in Waiting : Importance[u] > Importance[t]

\* A submitter gets its answer, however often the others submit again, with exactly
\* three exceptions: the run of its own task was cancelled, whose submitter waits
\* for ever then (its future is never set, worker_pool.py:111); from some time on
\* the pool has no worker, all ended by cancelled tasks or by a shutdown() that no
\* submit() follows; or more important tasks wait again and again.  Tasks of equal
\* importance, other workers that end and a shutdown that is followed by work keep
\* nobody waiting for ever.
QueuedIsSettled ==
    \A t \in Tasks :
        \/ task[t] = "queued" ~> task[t] \in {"settled", "stranded"}
        \/ <>[](Alive = {})
        \/ []<>MoreImportantWaits(t)

\* Every cancelled task costs one worker for good, and nothing else does: outside
\* shutdown() the pool has lost exactly as many workers as it stranded tasks since
\* it was staffed.
LostWorkersAreStrandings ==
    shutdowns = 0 /\ staffed =>
        Cardinality(Workers \ Alive) = Cardinality({t \in Tasks : task[t] = "stranded"})
=============================================================================
