----------------------------- MODULE RedisQueue -----------------------------
(***************************************************************************)
(* The durable queue of src/src/zeython/queue.py, class RedisQueue: a      *)
(* pending list, a delayed sorted set and a failed-jobs list in Redis,     *)
(* drained by any number of `zeython queue work` processes.                *)
(*                                                                         *)
(* Every Redis command is one step, because another worker's command may   *)
(* come between any two of them.  An entry is the JSON text of a push,     *)
(* reduced to what tells two texts apart: the push it came from ("_id")    *)
(* and its "attempts" counter, which is rewritten on every retry.          *)
(***************************************************************************)
EXTENDS Naturals, Sequences

CONSTANTS Jobs,         \* pushes: each gets its own "_id"
          Workers,      \* `zeython queue work` processes
          MaxAttempts,  \* Job.max_attempts of each push
          Loadable,     \* the jobs whose class the workers can import
          MaxFaults,    \* bound on crashes and shutdown requests
          None

ASSUME MaxAttemptsAssumption == MaxAttempts \in [Jobs -> Nat \ {0}]
ASSUME LoadableAssumption == Loadable \subseteq Jobs
ASSUME FaultsAssumption == MaxFaults \in Nat

Entry == [job : Jobs, attempts : Nat]

ASSUME NoneAssumption == None \notin Entry

VARIABLES pending,   \* <base>pending, from its right end (popped) to its left
          delayed,   \* members of the sorted set <base>delayed
          due,       \* those of its members whose score is in the past
          failed,    \* [Jobs -> Nat]: entries of <base>failed, by job
          pc,        \* where each worker is in run_worker()
          ready,     \* a worker's zrangebyscore() result still to be walked
          held,      \* the entry that is in this worker's memory only
          shutdown,  \* the worker's shutdown Event
          pushed,    \* jobs push() was called for
          done,      \* jobs whose handle() returned
          runs,      \* how often handle() was started for a job
          faults     \* crashes and shutdown requests so far

redisVars == <<pending, delayed, due, failed>>
workerVars == <<pc, ready, held>>
historyVars == <<pushed, done, runs>>
envVars == <<shutdown, faults>>
vars == <<redisVars, workerVars, historyVars, envVars>>

Stages == {"poll", "reclaim", "requeue", "popped", "running", "raised",
           "stopped", "dead"}
Holding == {"requeue", "popped", "running", "raised"}

TypeOK ==
  /\ pending \in Seq(Entry)
  /\ delayed \in SUBSET Entry
  /\ due \in SUBSET delayed
  /\ failed \in [Jobs -> Nat]
  /\ pc \in [Workers -> Stages]
  /\ ready \in [Workers -> SUBSET Entry]
  /\ held \in [Workers -> Entry \cup {None}]
  /\ \A w \in Workers : held[w] # None <=> pc[w] \in Holding
  /\ shutdown \in [Workers -> BOOLEAN]
  /\ pushed \in SUBSET Jobs
  /\ done \in SUBSET Jobs
  /\ runs \in [Jobs -> Nat]
  /\ faults \in 0 .. MaxFaults

Init ==
  /\ pending = <<>>
  /\ delayed = {}
  /\ due = {}
  /\ failed = [j \in Jobs |-> 0]
  /\ pc = [w \in Workers |-> "poll"]
  /\ ready = [w \in Workers |-> {}]
  /\ held = [w \in Workers |-> None]
  /\ shutdown = [w \in Workers |-> FALSE]
  /\ pushed = {}
  /\ done = {}
  /\ runs = [j \in Jobs |-> 0]
  /\ faults = 0

(***************************************************************************)
(* Redis commands                                                          *)
(***************************************************************************)

LPush(e) == pending' = Append(pending, e)

(* ZADD of a member that is already there only moves its score. *)
ZAdd(e) == /\ delayed' = delayed \cup {e}
           /\ due' = due \ {e}

(* Mutant: the score outlives the member.                                  *)
ZRemButScore(e) == delayed' = delayed \ {e} /\ UNCHANGED due

ZRem(e) == /\ delayed' = delayed \ {e}
           /\ due' = due \ {e}

Goto(w, stage) == pc' = [pc EXCEPT ![w] = stage]
Take(w, e) == held' = [held EXCEPT ![w] = e]

(***************************************************************************)
(* push()                                                                  *)
(***************************************************************************)

NewEntry(j) == [job |-> j, attempts |-> 0]

Push(j) ==
  /\ j \notin pushed
  /\ pushed' = pushed \cup {j}
  /\ \/ LPush(NewEntry(j)) /\ UNCHANGED <<delayed, due>>
     \/ ZAdd(NewEntry(j)) /\ UNCHANGED pending
  /\ UNCHANGED <<failed, workerVars, done, runs, envVars>>

(* The clock passes the score of a delayed entry. *)
Elapse(e) ==
  /\ e \in delayed \ due
  /\ due' = due \cup {e}
  /\ UNCHANGED <<pending, delayed, failed, workerVars, historyVars, envVars>>

(***************************************************************************)
(* run_worker() and _reclaim_delayed()                                     *)
(***************************************************************************)

(* Top of the loop, then zrangebyscore(): the result is a snapshot. *)
ReadDue(w) ==
  /\ pc[w] = "poll" /\ ~shutdown[w]
  /\ ready' = [ready EXCEPT ![w] = due]
  /\ Goto(w, "reclaim")
  /\ UNCHANGED <<redisVars, held, historyVars, envVars>>

Stop(w) ==
  /\ pc[w] = "poll" /\ shutdown[w]
  /\ Goto(w, "stopped")
  /\ UNCHANGED <<redisVars, ready, held, historyVars, envVars>>

(* Mutant: zrem()'s answer is not looked at.                               *)
ReclaimUnchecked(w, e) ==
  /\ pc[w] = "reclaim" /\ e \in ready[w]
  /\ ready' = [ready EXCEPT ![w] = @ \ {e}]
  /\ ZRem(e)
  /\ Goto(w, "requeue") /\ Take(w, e)
  /\ UNCHANGED <<pending, failed, historyVars, envVars>>

(* zrem() of one snapshot member: only the worker that removed it goes on. *)
Reclaim(w, e) ==
  /\ pc[w] = "reclaim" /\ e \in ready[w]
  /\ ready' = [ready EXCEPT ![w] = @ \ {e}]
  /\ ZRem(e)
  /\ IF e \in delayed THEN Goto(w, "requeue") /\ Take(w, e)
                      ELSE UNCHANGED <<pc, held>>
  /\ UNCHANGED <<pending, failed, historyVars, envVars>>

Requeue(w) ==
  /\ pc[w] = "requeue"
  /\ LPush(held[w])
  /\ Take(w, None)
  /\ Goto(w, "reclaim")
  /\ UNCHANGED <<delayed, due, failed, ready, historyVars, envVars>>

Pop(w) ==
  /\ pc[w] = "reclaim" /\ ready[w] = {} /\ pending # <<>>
  /\ Take(w, Head(pending))
  /\ pending' = Tail(pending)
  /\ Goto(w, "popped")
  /\ UNCHANGED <<delayed, due, failed, ready, historyVars, envVars>>

(* brpop() returned None after poll_interval. *)
PopTimeout(w) ==
  /\ pc[w] = "reclaim" /\ ready[w] = {} /\ pending = <<>>
  /\ Goto(w, "poll")
  /\ UNCHANGED <<redisVars, ready, held, historyVars, envVars>>

(***************************************************************************)
(* _process()                                                              *)
(***************************************************************************)

Start(w) ==
  /\ pc[w] = "popped" /\ held[w].job \in Loadable
  /\ runs' = [runs EXCEPT ![held[w].job] = @ + 1]
  /\ Goto(w, "running")
  /\ UNCHANGED <<redisVars, ready, held, pushed, done, envVars>>

(* _deserialize_job() is called before the try: its ImportError,           *)
(* AttributeError or TypeError leaves run_worker(), and with it the        *)
(* process.                                                                *)
LoadFails(w) ==
  /\ pc[w] = "popped" /\ held[w].job \notin Loadable
  /\ Goto(w, "dead")
  /\ Take(w, None)
  /\ UNCHANGED <<redisVars, ready, historyVars, envVars>>

Succeed(w) ==
  /\ pc[w] = "running"
  /\ done' = done \cup {held[w].job}
  /\ Take(w, None)
  /\ Goto(w, "poll")
  /\ UNCHANGED <<redisVars, ready, pushed, runs, envVars>>

(* Mutant: the retry is delayed with the text it was popped with.          *)
AttemptNotCounted(e) == e

AttemptFailed(e) == [job |-> e.job, attempts |-> e.attempts + 1]

(* handle(), or the commit of its database session, raised. *)
Raise(w) ==
  /\ pc[w] = "running"
  /\ Take(w, AttemptFailed(held[w]))
  /\ Goto(w, "raised")
  /\ UNCHANGED <<redisVars, ready, historyVars, envVars>>

(* Mutant: one attempt too many.                                           *)
OneMoreAttempt(e) == e.attempts <= MaxAttempts[e.job]

AttemptsLeft(e) == e.attempts < MaxAttempts[e.job]

ScheduleRetry(w) ==
  /\ pc[w] = "raised" /\ AttemptsLeft(held[w])
  /\ ZAdd(held[w])
  /\ Take(w, None)
  /\ Goto(w, "poll")
  /\ UNCHANGED <<pending, failed, ready, historyVars, envVars>>

(* Mutant: an exhausted job is only logged.                                *)
OnlyLog(w) ==
  /\ pc[w] = "raised" /\ ~AttemptsLeft(held[w])
  /\ Take(w, None)
  /\ Goto(w, "poll")
  /\ UNCHANGED <<redisVars, ready, historyVars, envVars>>

Bury(w) ==
  /\ pc[w] = "raised" /\ ~AttemptsLeft(held[w])
  /\ failed' = [failed EXCEPT ![held[w].job] = @ + 1]
  /\ Take(w, None)
  /\ Goto(w, "poll")
  /\ UNCHANGED <<pending, delayed, due, ready, historyVars, envVars>>

(***************************************************************************)
(* Processes                                                               *)
(***************************************************************************)

(* A kill, a Ctrl+C (the CancelledError passes `except Exception`), or a   *)
(* Redis error raised out of run_worker(): what only the process knew is   *)
(* gone.                                                                   *)
Crash(w) ==
  /\ pc[w] \notin {"stopped", "dead"} /\ faults < MaxFaults
  /\ faults' = faults + 1
  /\ Goto(w, "dead")
  /\ Take(w, None)
  /\ ready' = [ready EXCEPT ![w] = {}]
  /\ UNCHANGED <<redisVars, historyVars, shutdown>>

RequestShutdown(w) ==
  /\ ~shutdown[w] /\ faults < MaxFaults
  /\ faults' = faults + 1
  /\ shutdown' = [shutdown EXCEPT ![w] = TRUE]
  /\ UNCHANGED <<redisVars, workerVars, historyVars>>

(* Mutant: the Event of the last run is still set.                         *)
RestartStillSet(w) ==
  /\ pc[w] \in {"stopped", "dead"}
  /\ Goto(w, "poll")
  /\ UNCHANGED <<redisVars, ready, held, historyVars, envVars>>

(* `zeython queue work` is started again: a fresh process, a fresh Event. *)
Restart(w) ==
  /\ pc[w] \in {"stopped", "dead"}
  /\ Goto(w, "poll")
  /\ shutdown' = [shutdown EXCEPT ![w] = FALSE]
  /\ UNCHANGED <<redisVars, ready, held, historyVars, faults>>

WorkerStep(w) ==
  \/ ReadDue(w) \/ Stop(w)
  \/ \E e \in ready[w] : Reclaim(w, e)
  \/ Requeue(w) \/ Pop(w) \/ PopTimeout(w)
  \/ Start(w) \/ LoadFails(w)
  \/ Succeed(w) \/ Raise(w) \/ ScheduleRetry(w) \/ Bury(w)

Next ==
  \/ \E j \in Jobs : Push(j)
  \/ \E e \in delayed : Elapse(e)
  \/ \E w \in Workers : WorkerStep(w) \/ Crash(w) \/ RequestShutdown(w)
                          \/ Restart(w)

Spec == Init /\ [][Next]_vars

(* Time passes, a live worker keeps running, a stopped one is started      *)
(* again by its supervisor.  push() and the faults are under no            *)
(* obligation.                                                             *)
Fairness ==
  /\ \A j \in Jobs : \A n \in 0 .. MaxAttempts[j] :
       WF_vars(Elapse([job |-> j, attempts |-> n]))
  /\ \A w \in Workers : WF_vars(WorkerStep(w)) /\ WF_vars(Restart(w))

FairSpec == Spec /\ Fairness

(***************************************************************************)
(* Properties                                                              *)
(***************************************************************************)

DistinctJobs(s) == \A i, k \in DOMAIN s : s[i].job = s[k].job => i = k

Holders == {w \in Workers : held[w] # None}

EntriesOf(s) == {s[i] : i \in DOMAIN s}
InPending == EntriesOf(pending)
QueuedJobs == {e.job : e \in InPending}
DelayedJobs == {e.job : e \in delayed}
HeldJobs == {held[w].job : w \in Holders}
BuriedJobs == {j \in Jobs : failed[j] > 0}

(* The job is somewhere: in Redis, in a live worker, or finished.          *)
Accounted == QueuedJobs \cup DelayedJobs \cup HeldJobs \cup BuriedJobs
               \cup done

OneHolder == \A v, w \in Holders : held[v].job = held[w].job => v = w

(* A push exists at most once, whatever two workers do to the same delayed *)
(* entry: one position of the pending list, one delayed member, one        *)
(* worker, or one of the two final states (the zrem() result test,         *)
(* queue.py:371-376).                                                      *)
SingleCopy ==
  /\ DistinctJobs(pending)
  /\ \A d, e \in delayed : d.job = e.job => d = e
  /\ OneHolder
  /\ \A j \in Jobs : failed[j] <= 1
  /\ QueuedJobs \cap DelayedJobs = {}
  /\ QueuedJobs \cap HeldJobs = {}
  /\ DelayedJobs \cap HeldJobs = {}
  /\ (QueuedJobs \cup DelayedJobs \cup HeldJobs) \cap (BuriedJobs \cup done) = {}
  /\ BuriedJobs \cap done = {}

(* handle() is never started more often than max_attempts, across all      *)
(* workers, crashes and restarts, and a job on the failed-jobs list was    *)
(* given every one of its attempts (queue.py:383-405).                     *)
ExactAttempts ==
  \A j \in Jobs : /\ runs[j] <= MaxAttempts[j]
                  /\ failed[j] > 0 => runs[j] = MaxAttempts[j]

(* A delayed entry leaves the sorted set only after its score has passed,  *)
(* even when the worker that removes it read the set long ago and the job  *)
(* was reclaimed, run and delayed again since (queue.py:363-376 against    *)
(* :395).                                                                  *)
NoEarlyRetry == [][delayed \ delayed' \subseteq due]_vars

(* A job disappears only together with a process that held it: a graceful  *)
(* shutdown, a race for a delayed entry and a retry lose nothing           *)
(* (queue.py:345-405).                                                     *)
LossOnlyWithDeadWorker ==
  [][\A j \in Accounted \ Accounted' :
       \E w \in Holders : held[w].job = j /\ pc'[w] = "dead"]_vars

(* Whatever crashes and shutdowns do, no push stays in the queue for ever: *)
(* it is completed, buried, or went down with a worker.                    *)
NoneStuck ==
  \A j \in Jobs : j \in pushed ~> \/ j \in done \cup BuriedJobs
                                  \/ j \notin Accounted

(* The class's docstring: "nothing that couldn't be processed is silently  *)
(* lost" (queue.py:283-284).  Not what the code does: see LoadFails.       *)
NothingSilentlyLost == pushed \subseteq Accounted

(***************************************************************************)
(* The queue implements JobDelivery.                                       *)
(***************************************************************************)

RunningJobs == {held[w].job : w \in {v \in Workers : pc[v] \in {"running", "raised"}}}

StatusOf(j) ==
  CASE j \notin pushed -> "new"
    [] j \in done -> "done"
    [] j \in BuriedJobs -> "failed"
    [] j \in RunningJobs -> "running"
    [] j \in Accounted \ (done \cup BuriedJobs \cup RunningJobs) -> "queued"
    [] OTHER -> "lost"

Delivery == INSTANCE JobDelivery
              WITH status <- [j \in Jobs |-> StatusOf(j)], tries <- runs

(* Seen from outside, every interleaving of the workers is one of the      *)
(* legal lives of a job: queued, running, then done, retried, given up     *)
(* after max_attempts, or lost.                                            *)
ImplementsJobDelivery == Delivery!Spec

=============================================================================
