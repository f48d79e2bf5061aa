--------------------------- MODULE InMemoryQueue ---------------------------
(***************************************************************************)
(* The default queue of src/src/zeython/queue.py, class InMemoryQueue: an  *)
(* asyncio.Queue drained by a worker task, with one more task per delayed  *)
(* push.                                                                   *)
(*                                                                         *)
(* Everything runs on one event loop, so a step is what happens between    *)
(* two awaits.  close() and join() are long coroutines: other tasks run    *)
(* while they wait, and those may push.                                    *)
(***************************************************************************)
EXTENDS Naturals, Sequences, FiniteSets

CONSTANTS Jobs,           \* jobs pushed, one element per push()
          Tasks,          \* worker tasks that may come to exist
          MaxAttempts,    \* Job.max_attempts of each job
          MaxCloses,      \* bound on calls of close()
          MaxInterrupts,  \* bound on handle() raising a BaseException
          None

VARIABLES fifo,        \* self._queue
          unfinished,  \* its count of put() without task_done()
          sleeping,    \* jobs whose _put_after_delay() task still sleeps
          tracked,     \* jobs whose delayed task is in self._delayed_tasks
          worker,      \* self._worker_task
          task,        \* the state of each worker task
          current,     \* the job a worker task runs
          cancelled,   \* tasks cancel() was called on, by their job or name
          closer,      \* where the coroutine close() is
          awaited,     \* the tasks it waits for
          joiner,      \* where the coroutine join() is
          gathered,    \* join()'s copy of self._delayed_tasks
          goal,        \* the jobs pushed before join() was called
          pushed, done, failed, runs,
          closes, interrupts

queueVars == <<fifo, unfinished>>
delayVars == <<sleeping, tracked>>
workerVars == <<worker, task, current>>
closeVars == <<closer, awaited, closes>>
joinVars == <<joiner, gathered, goal>>
historyVars == <<pushed, done, failed, runs>>
vars == <<queueVars, delayVars, workerVars, cancelled, closeVars, joinVars,
          historyVars, interrupts>>

TypeOK ==
  /\ fifo \in Seq(Jobs)
  /\ unfinished \in Nat
  /\ sleeping \in SUBSET Jobs
  /\ tracked \in SUBSET sleeping
  /\ worker \in Tasks \cup {None}
  /\ task \in [Tasks -> {"unborn", "idle", "running", "failed", "ended"}]
  /\ current \in [Tasks -> Jobs \cup {None}]
  /\ \A t \in Tasks : current[t] # None <=> task[t] \in {"running", "failed"}
  /\ cancelled \in SUBSET (Jobs \cup Tasks)
  /\ closer \in {"out", "delayed", "worker"}
  /\ awaited \in SUBSET (Jobs \cup Tasks)
  /\ joiner \in {"out", "gather", "queue", "returned"}
  /\ gathered \in SUBSET Jobs
  /\ goal \in SUBSET Jobs
  /\ pushed \in SUBSET Jobs
  /\ done \in SUBSET Jobs
  /\ failed \in SUBSET Jobs
  /\ runs \in [Jobs -> Nat]
  /\ closes \in 0 .. MaxCloses
  /\ interrupts \in 0 .. MaxInterrupts

Init ==
  /\ fifo = <<>> /\ unfinished = 0
  /\ sleeping = {} /\ tracked = {}
  /\ worker = None
  /\ task = [t \in Tasks |-> "unborn"]
  /\ current = [t \in Tasks |-> None]
  /\ cancelled = {}
  /\ closer = "out" /\ awaited = {} /\ closes = 0
  /\ joiner = "out" /\ gathered = {} /\ goal = {}
  /\ pushed = {} /\ done = {} /\ failed = {}
  /\ runs = [j \in Jobs |-> 0]
  /\ interrupts = 0

(***************************************************************************)
(* push()                                                                  *)
(***************************************************************************)

Put(j) == fifo' = Append(fifo, j) /\ unfinished' = unfinished + 1

EnsureWorker ==
  IF worker = None \/ task[worker] = "ended"
    THEN \E t \in Tasks : /\ task[t] = "unborn"
                          /\ worker' = t
                          /\ task' = [task EXCEPT ![t] = "idle"]
    ELSE UNCHANGED <<worker, task>>

Push(j) ==
  /\ j \notin pushed
  /\ pushed' = pushed \cup {j}
  /\ EnsureWorker
  /\ \/ Put(j) /\ UNCHANGED delayVars
     \/ /\ sleeping' = sleeping \cup {j}
        /\ tracked' = tracked \cup {j}
        /\ UNCHANGED queueVars
  /\ UNCHANGED <<current, cancelled, closeVars, joinVars, done, failed, runs,
                 interrupts>>

(* Mutant: a delayed task that has ended is not untracked.                 *)
WakeTracked(j) ==
  /\ j \in sleeping \ cancelled
  /\ sleeping' = sleeping \ {j}
  /\ Put(j)
  /\ UNCHANGED <<tracked, workerVars, cancelled, closeVars, joinVars,
                 historyVars, interrupts>>

(* _put_after_delay() after its sleep; the done callback untracks it.      *)
Wake(j) ==
  /\ j \in sleeping \ cancelled
  /\ sleeping' = sleeping \ {j}
  /\ tracked' = tracked \ {j}
  /\ Put(j)
  /\ UNCHANGED <<workerVars, cancelled, closeVars, joinVars, historyVars,
                 interrupts>>

(***************************************************************************)
(* _worker_loop() and _run_with_retries()                                  *)
(***************************************************************************)

Run(t, j) ==
  /\ task' = [task EXCEPT ![t] = "running"]
  /\ current' = [current EXCEPT ![t] = j]
  /\ runs' = [runs EXCEPT ![j] = @ + 1]

(* Mutant: no task_done() when the job's task is cancelled.                *)
LeaveUncounted(t, stage) ==
  /\ task' = [task EXCEPT ![t] = stage]
  /\ current' = [current EXCEPT ![t] = None]
  /\ unfinished' = IF stage = "ended" THEN unfinished ELSE unfinished - 1

(* Mutant: no task_done() for a job that succeeded or was given up.        *)
LeaveOnlyEnded(t, stage) ==
  /\ task' = [task EXCEPT ![t] = stage]
  /\ current' = [current EXCEPT ![t] = None]
  /\ unfinished' = IF stage = "ended" THEN unfinished - 1 ELSE unfinished

(* The job is left, whatever became of it: `finally: task_done()`.         *)
Leave(t, stage) ==
  /\ task' = [task EXCEPT ![t] = stage]
  /\ current' = [current EXCEPT ![t] = None]
  /\ unfinished' = unfinished - 1

Get(t) ==
  /\ task[t] = "idle" /\ t \notin cancelled /\ fifo # <<>>
  /\ Run(t, Head(fifo))
  /\ fifo' = Tail(fifo)
  /\ UNCHANGED <<unfinished, delayVars, worker, cancelled, closeVars,
                 joinVars, pushed, done, failed, interrupts>>

Succeed(t) ==
  /\ task[t] = "running" /\ t \notin cancelled
  /\ done' = done \cup {current[t]}
  /\ Leave(t, "idle")
  /\ UNCHANGED <<fifo, delayVars, worker, cancelled, closeVars, joinVars,
                 pushed, failed, runs, interrupts>>

(* Mutant: range(1, max_attempts + 2)                                      *)
OneMoreAttempt(j) == runs[j] <= MaxAttempts[j]

AttemptsLeft(j) == runs[j] < MaxAttempts[j]

(* An Exception: the next turn of the for loop, or "giving up".            *)
Raise(t) ==
  /\ task[t] = "running" /\ t \notin cancelled
  /\ IF AttemptsLeft(current[t])
       THEN /\ task' = [task EXCEPT ![t] = "failed"]
            /\ UNCHANGED <<current, unfinished, failed>>
       ELSE /\ failed' = failed \cup {current[t]}
            /\ Leave(t, "idle")
  /\ UNCHANGED <<fifo, delayVars, worker, cancelled, closeVars, joinVars,
                 pushed, done, runs, interrupts>>

Again(t) ==
  /\ task[t] = "failed"
  /\ Run(t, current[t])
  /\ UNCHANGED <<queueVars, delayVars, worker, cancelled, closeVars, joinVars,
                 pushed, done, failed, interrupts>>

(* A BaseException, such as the CancelledError of something handle()       *)
(* awaited, passes `except Exception` and ends the worker task.            *)
Interrupt(t) ==
  /\ task[t] = "running" /\ interrupts < MaxInterrupts
  /\ interrupts' = interrupts + 1
  /\ Leave(t, "ended")
  /\ UNCHANGED <<fifo, delayVars, worker, cancelled, closeVars, joinVars,
                 historyVars>>

(***************************************************************************)
(* close()                                                                 *)
(***************************************************************************)

(* Mutant: the worker is cancelled and not awaited.                        *)
CloseNotAwaiting ==
  /\ tracked' = {}
  /\ cancelled' = IF worker = None THEN cancelled ELSE cancelled \cup {worker}
  /\ closer' = "out" /\ awaited' = {}
  /\ UNCHANGED <<queueVars, sleeping, workerVars, joinVars, historyVars,
                 interrupts>>

(* self._delayed_tasks.clear(), then the worker is cancelled and awaited.  *)
CloseWorker ==
  /\ tracked' = {}
  /\ IF worker = None
       THEN closer' = "out" /\ awaited' = {} /\ UNCHANGED cancelled
       ELSE /\ closer' = "worker"
            /\ awaited' = {worker}
            /\ cancelled' = cancelled \cup {worker}
  /\ UNCHANGED <<queueVars, sleeping, workerVars, joinVars, historyVars,
                 interrupts>>

Close ==
  /\ closer = "out" /\ closes < MaxCloses
  /\ closes' = closes + 1
  /\ IF tracked = {}
       THEN CloseWorker
       ELSE /\ closer' = "delayed"
            /\ awaited' = tracked
            /\ cancelled' = cancelled \cup tracked
            /\ UNCHANGED <<queueVars, delayVars, workerVars, joinVars,
                           historyVars, interrupts>>

(* Every delayed task that was cancelled has ended.                        *)
CloseDelayedEnded ==
  /\ closer = "delayed" /\ awaited \cap sleeping = {}
  /\ CloseWorker
  /\ UNCHANGED closes

(* The cancelled worker task has ended.                                    *)
CloseWorkerEnded ==
  /\ closer = "worker"
  /\ \A t \in awaited : task[t] = "ended"
  /\ worker' = None
  /\ closer' = "out" /\ awaited' = {}
  /\ UNCHANGED <<queueVars, delayVars, task, current, cancelled, closes,
                 joinVars, historyVars, interrupts>>

(* CancelledError is thrown into a delayed task.                           *)
CancelDelayed(j) ==
  /\ j \in sleeping \cap cancelled
  /\ sleeping' = sleeping \ {j}
  /\ tracked' = tracked \ {j}
  /\ UNCHANGED <<queueVars, workerVars, cancelled, closeVars, joinVars,
                 historyVars, interrupts>>

(* CancelledError is thrown into a worker task.                            *)
CancelWorker(t) ==
  /\ t \in cancelled
  /\ \/ task[t] = "idle" /\ task' = [task EXCEPT ![t] = "ended"]
                         /\ UNCHANGED <<current, unfinished>>
     \/ task[t] = "running" /\ Leave(t, "ended")
  /\ UNCHANGED <<fifo, delayVars, worker, cancelled, closeVars, joinVars,
                 historyVars, interrupts>>

(***************************************************************************)
(* join()                                                                  *)
(***************************************************************************)

Join ==
  /\ joiner = "out"
  /\ joiner' = "gather"
  /\ gathered' = tracked
  /\ goal' = pushed
  /\ UNCHANGED <<queueVars, delayVars, workerVars, cancelled, closeVars,
                 historyVars, interrupts>>

(* Mutant: join() does not wait for the delayed pushes.                    *)
JoinUngathered ==
  /\ joiner = "gather"
  /\ joiner' = "queue"
  /\ UNCHANGED <<queueVars, delayVars, workerVars, cancelled, closeVars,
                 gathered, goal, historyVars, interrupts>>

JoinGathered ==
  /\ joiner = "gather" /\ gathered \cap sleeping = {}
  /\ joiner' = "queue"
  /\ UNCHANGED <<queueVars, delayVars, workerVars, cancelled, closeVars,
                 gathered, goal, historyVars, interrupts>>

JoinReturn ==
  /\ joiner = "queue" /\ unfinished = 0
  /\ joiner' = "returned"
  /\ UNCHANGED <<queueVars, delayVars, workerVars, cancelled, closeVars,
                 gathered, goal, historyVars, interrupts>>

WorkerStep(t) ==
  Get(t) \/ Succeed(t) \/ Raise(t) \/ Again(t) \/ CancelWorker(t)

Next ==
  \/ \E j \in Jobs : Push(j) \/ Wake(j) \/ CancelDelayed(j)
  \/ \E t \in Tasks : WorkerStep(t) \/ Interrupt(t)
  \/ Close \/ CloseDelayedEnded \/ CloseWorkerEnded
  \/ Join \/ JoinGathered \/ JoinReturn

Spec == Init /\ [][Next]_vars

(* The event loop runs every task that is ready, and handle() returns.     *)
Fairness ==
  /\ \A j \in Jobs : WF_vars(Wake(j)) /\ WF_vars(CancelDelayed(j))
  /\ \A t \in Tasks : WF_vars(WorkerStep(t))
  /\ WF_vars(CloseDelayedEnded) /\ WF_vars(CloseWorkerEnded)
  /\ WF_vars(JoinGathered) /\ WF_vars(JoinReturn)

FairSpec == Spec /\ Fairness

(***************************************************************************)
(* Properties                                                              *)
(***************************************************************************)

QueuedJobs == {fifo[i] : i \in DOMAIN fifo}
Busy == {t \in Tasks : current[t] # None}
RunningJobs == {current[t] : t \in Busy}
Settled == done \cup failed
Lost == pushed \ (QueuedJobs \cup sleeping \cup RunningJobs \cup Settled)

(* asyncio.Queue's count is right after every way a job can end, close()   *)
(* and a BaseException included: join() would hang, or return early        *)
(* (queue.py:185-191).                                                     *)
UnfinishedExact == unfinished = Len(fifo) + Cardinality(Busy)

(* join() returns only when each job pushed before the call has run or     *)
(* raised a BaseException, a delayed one included (queue.py:150-164).  A   *)
(* close() may have untracked a delayed push that still sleeps.            *)
JoinWaits ==
  joiner = "returned" /\ closes = 0 => goal \subseteq Settled \cup Lost

(* A job that did not itself raise a BaseException is only lost while a    *)
(* close() is running: close() returns after everything it cancelled has   *)
(* ended (queue.py:166-179).                                               *)
LossOnlyWhileClosing ==
  [][Lost' # Lost => closer # "out" \/ interrupts' > interrupts]_vars

Undisturbed == [](closes = 0 /\ interrupts = 0)

(* Unless the queue is closed or a job raises a BaseException, join()      *)
(* returns, whatever is pushed meanwhile: every job, delayed or not, is    *)
(* run to success or given up (queue.py:150-164, 181-205).                 *)
JoinReturns == Undisturbed => (joiner = "gather" ~> joiner = "returned")

StatusOf(j) ==
  CASE j \notin pushed -> "new"
    [] j \in done -> "done"
    [] j \in failed -> "failed"
    [] \E t \in Tasks : task[t] = "running" /\ current[t] = j -> "running"
    [] j \in Lost -> "lost"
    [] OTHER -> "queued"

Delivery == INSTANCE JobDelivery
              WITH status <- [j \in Jobs |-> StatusOf(j)], tries <- runs

(* The in-process queue lets jobs live the same lives as the Redis one.    *)
ImplementsJobDelivery == Delivery!Spec

=============================================================================
