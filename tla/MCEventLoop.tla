---------------------------- MODULE MCEventLoop ----------------------------
(***************************************************************************)
(* What the tasks of one event loop share, for TLC: InMemoryQueue, or the  *)
(* locks of IdempotencyMiddleware.  A behaviour takes the steps of one of  *)
(* the two; the other stays new, and none of its fair steps is enabled.    *)
(***************************************************************************)
EXTENDS Idempotency

CONSTANTS
  r1, r2, r3, r4, j1, j2, t1, t2, t3,
  Jobs, Tasks, MaxAttempts, MaxCloses, MaxInterrupts    \* of InMemoryQueue

ASSUME QueueAssumption ==
  /\ None \notin Jobs \cup Tasks /\ Jobs \cap Tasks = {} /\ IsFiniteSet(Tasks)
  /\ MaxAttempts \in [Jobs -> Nat \ {0}]
  /\ MaxCloses \in Nat /\ MaxInterrupts \in Nat

VARIABLES
  shared,                                            \* which one it is
  fifo, unfinished, sleeping, tracked, worker, task, current, cancelled,
  closer, awaited, joiner, gathered, goal, pushed, done, failed, jobRuns,
  closes, interrupts                                 \* of InMemoryQueue

queueVars ==
  <<fifo, unfinished, sleeping, tracked, worker, task, current, cancelled,
    closer, awaited, joiner, gathered, goal, pushed, done, failed, jobRuns,
    closes, interrupts>>

(* One request reuses the key with another body.                           *)
Bodies == [r \in Requests |-> IF r = r2 THEN "other" ELSE "body"]

Attempts == [j \in {j1, j2} |-> IF j = j1 THEN 2 ELSE 1]

Queue == INSTANCE InMemoryQueue WITH runs <- jobRuns

LoopInit == shared \in {"queue", "key"} /\ Init /\ Queue!Init

LoopNext ==
  \/ shared = "queue" /\ Queue!Next /\ UNCHANGED <<shared, vars>>
  \/ shared = "key" /\ Next /\ UNCHANGED <<shared, queueVars>>

FairLoopSpec ==
  /\ LoopInit /\ [][LoopNext]_<<shared, vars, queueVars>>
  /\ Fairness /\ Queue!Fairness

BothTypeOK == TypeOK /\ Queue!TypeOK

(* InMemoryQueue's properties of its count of unfinished jobs, which       *)
(* join() trusts, and of what has run when join() returns                  *)
(* (queue.py:150-164, 185-191).                                            *)
JoinExact == Queue!UnfinishedExact /\ Queue!JoinWaits

(* InMemoryQueue's properties of a job's life, which is one of             *)
(* JobDelivery's, and of what close() may lose (queue.py:166-179,          *)
(* 181-205).                                                               *)
LivesAndLosses == Queue!ImplementsJobDelivery /\ Queue!LossOnlyWhileClosing

(* Nobody waits for ever: InMemoryQueue's property of join(), and          *)
(* Idempotency's of the requests that wait for a key's lock                *)
(* (queue.py:150-164, idempotency.py:116-124).                             *)
WaitingEnds == Queue!JoinReturns /\ EveryRequestAnswered

=============================================================================
