------------------------------ MODULE JobBatch ------------------------------
(***************************************************************************)
(* dispatch_batch() of src/src/zeython/queue.py with the in-process        *)
(* InMemoryBatchTracker, whose updates are atomic under its lock.  The     *)
(* batch over Redis, module RedisBatch, is shown to implement this one.    *)
(*                                                                         *)
(* A member is the _BatchedJob wrapping one job of the batch.  Its queue   *)
(* runs it at most once (max_attempts = 1); SyncQueue.push() runs it       *)
(* inside dispatch_batch() itself.                                         *)
(***************************************************************************)
EXTENDS Naturals, FiniteSets

CONSTANTS Members,      \* the jobs of the batch
          MaxAttempts,  \* the wrapped jobs' own max_attempts
          MaxLosses     \* bound on members and dispatchers that die

VARIABLES sync,        \* QUEUE_DRIVER is "sync"
          dispatcher,  \* where dispatch_batch() is
          stage,       \* where each member is
          tries,       \* failed attempts of the wrapped job
          outcome,     \* what its last attempt came to
          seen,        \* `progress.pending` as the member saw it
          pending,     \* the tracker's count
          failed,      \* the tracker's count
          thens,       \* how often `then` was pushed
          losses

memberVars == <<stage, tries, outcome, seen>>
trackerVars == <<pending, failed>>
batchVars == <<sync, dispatcher, memberVars, trackerVars, thens, losses>>

Stages == {"none", "queued", "running", "recorded", "fired", "finished",
           "lost"}
InFlight == {m \in Members : stage[m] \notin {"none", "finished"}}

TypeOK ==
  /\ sync \in BOOLEAN
  /\ dispatcher \in {"new", "pushing", "returned", "raised"}
  /\ stage \in [Members -> Stages]
  /\ tries \in [Members -> Nat]
  /\ outcome \in [Members -> {"open", "ok", "failed"}]
  /\ seen \in [Members -> 0 .. Cardinality(Members)]
  /\ pending \in 0 .. Cardinality(Members)
  /\ failed \in 0 .. Cardinality(Members)
  /\ thens \in Nat
  /\ losses \in 0 .. MaxLosses

Init ==
  /\ sync \in BOOLEAN
  /\ dispatcher = "new"
  /\ stage = [m \in Members |-> "none"]
  /\ tries = [m \in Members |-> 0]
  /\ outcome = [m \in Members |-> "open"]
  /\ seen = [m \in Members |-> 0]
  /\ pending = 0 /\ failed = 0
  /\ thens = 0
  /\ losses = 0

Move(m, from, to) == stage[m] = from /\ stage' = [stage EXCEPT ![m] = to]

(***************************************************************************)
(* dispatch_batch()                                                        *)
(***************************************************************************)

(* Mutant: one member too many is expected.                                *)
CreateOneTooMany ==
  /\ dispatcher = "new"
  /\ dispatcher' = "pushing"
  /\ pending' = Cardinality(Members) + 1
  /\ failed' = 0
  /\ UNCHANGED <<sync, memberVars, thens, losses>>

(* tracker.create() comes before the first push.                           *)
Create ==
  /\ dispatcher = "new"
  /\ dispatcher' = "pushing"
  /\ pending' = Cardinality(Members)
  /\ failed' = 0
  /\ UNCHANGED <<sync, memberVars, thens, losses>>

Dispatch(m) ==
  /\ dispatcher = "pushing"
  /\ sync => InFlight = {}
  /\ Move(m, "none", "queued")
  /\ UNCHANGED <<sync, dispatcher, tries, outcome, seen, trackerVars, thens,
                 losses>>

DispatchReturns ==
  /\ dispatcher = "pushing"
  /\ \A m \in Members : stage[m] # "none"
  /\ sync => InFlight = {}
  /\ dispatcher' = "returned"
  /\ UNCHANGED <<sync, memberVars, trackerVars, thens, losses>>

(* A push fails, or the dispatching process dies between two pushes.       *)
DispatchFails ==
  /\ dispatcher = "pushing" /\ losses < MaxLosses
  /\ losses' = losses + 1
  /\ dispatcher' = "raised"
  /\ UNCHANGED <<sync, memberVars, trackerVars, thens>>

(***************************************************************************)
(* _BatchedJob.handle()                                                    *)
(***************************************************************************)

Begin(m) ==
  /\ Move(m, "queued", "running")
  /\ UNCHANGED <<sync, dispatcher, tries, outcome, seen, trackerVars, thens,
                 losses>>

(* An attempt raised and the for loop has another one.                     *)
TryAgain(m) ==
  /\ stage[m] = "running" /\ tries[m] + 1 < MaxAttempts[m]
  /\ tries' = [tries EXCEPT ![m] = @ + 1]
  /\ UNCHANGED <<sync, dispatcher, stage, outcome, seen, trackerVars, thens,
                 losses>>

Outcomes(m) == {"ok"} \cup IF tries[m] + 1 = MaxAttempts[m] THEN {"failed"}
                                                            ELSE {}

(* Mutant: the answer is read after the lock is left.                      *)
RecordUnlocked(m) ==
  /\ Move(m, "running", "recorded")
  /\ \E o \in Outcomes(m) :
       /\ outcome' = [outcome EXCEPT ![m] = o]
       /\ failed' = IF o = "failed" THEN failed + 1 ELSE failed
  /\ pending' = pending - 1
  /\ \E later \in 0 .. pending' : seen' = [seen EXCEPT ![m] = later]
  /\ UNCHANGED <<sync, dispatcher, tries, thens, losses>>

(* record_completion(): one critical section.                              *)
Record(m) ==
  /\ Move(m, "running", "recorded")
  /\ \E o \in Outcomes(m) :
       /\ outcome' = [outcome EXCEPT ![m] = o]
       /\ failed' = IF o = "failed" THEN failed + 1 ELSE failed
  /\ pending' = pending - 1
  /\ seen' = [seen EXCEPT ![m] = pending']
  /\ UNCHANGED <<sync, dispatcher, tries, thens, losses>>

(* `progress.finished`: this member pushes `then`.                         *)
Fire(m) ==
  /\ Move(m, "recorded", "fired") /\ seen[m] = 0
  /\ thens' = thens + 1
  /\ UNCHANGED <<sync, dispatcher, tries, outcome, seen, trackerVars, losses>>

(* handle() returns, or raises the failure of the wrapped job.  SyncQueue  *)
(* lets that through push() into dispatch_batch().                         *)
Finish(m) ==
  /\ \/ Move(m, "recorded", "finished") /\ seen[m] # 0
     \/ Move(m, "fired", "finished")
  /\ dispatcher' = IF sync /\ outcome[m] = "failed" THEN "raised"
                                                    ELSE dispatcher
  /\ UNCHANGED <<sync, tries, outcome, seen, trackerVars, thens, losses>>

(* The process that runs or holds the member dies.                         *)
Lose(m) ==
  /\ stage[m] \in {"queued", "running", "recorded", "fired"}
  /\ losses < MaxLosses
  /\ losses' = losses + 1
  /\ stage' = [stage EXCEPT ![m] = "lost"]
  /\ UNCHANGED <<sync, dispatcher, tries, outcome, seen, trackerVars, thens>>

MemberStep(m) == Begin(m) \/ TryAgain(m) \/ Record(m) \/ Fire(m) \/ Finish(m)

Next == \/ Create \/ DispatchReturns \/ DispatchFails
        \/ \E m \in Members : Dispatch(m) \/ MemberStep(m) \/ Lose(m)

Spec == Init /\ [][Next]_batchVars

(* The caller goes on pushing, the queue runs what was pushed.             *)
Fairness == /\ WF_batchVars(DispatchReturns)
            /\ \A m \in Members : /\ WF_batchVars(Dispatch(m))
                                  /\ WF_batchVars(MemberStep(m))

FairSpec == Spec /\ Fairness

(***************************************************************************)
(* Properties                                                              *)
(***************************************************************************)

(* `then` is pushed at most once, and only when every member, the not yet  *)
(* dispatched ones included, has run and was counted (queue.py:661-667).   *)
ThenOnceAfterAll == /\ thens <= 1
                    /\ thens = 1 => \A m \in Members : outcome[m] # "open"

(* Without losses `then` is pushed eventually, whatever the members'       *)
(* outcomes.  SyncQueue lets the first failure out of dispatch_batch(),    *)
(* and the members after it are never dispatched.                          *)
ThenFires ==
  [](losses = 0) =>
    (dispatcher = "pushing" ~> thens = 1 \/ (sync /\ dispatcher = "raised"))

=============================================================================
