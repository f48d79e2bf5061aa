------------------------------ MODULE MCQueue ------------------------------
(***************************************************************************)
(* Jobs that several processes run, for TLC: single ones on RedisQueue, a  *)
(* batch over either tracker, which QueueServiceProvider binds by          *)
(* QUEUE_DRIVER, or a chain.  A behaviour takes the steps of one of the    *)
(* four; the others stay new, in one of their initial states.              *)
(***************************************************************************)
EXTENDS RedisQueue, Integers, FiniteSets

CONSTANTS j1, j2, w1, w2, m1, m2,
          Members, MemberAttempts, MaxLosses, TTL, MaxTicks, Gone,
          Length, LinkAttempts, MaxChainFaults, MaxPushes

(* dispatch_batch() and chain() raise ValueError for no jobs at all.       *)
ASSUME BatchAssumption ==
  /\ IsFiniteSet(Members) /\ Members # {}
  /\ MemberAttempts \in [Members -> Nat \ {0}]
  /\ MaxLosses \in Nat /\ MaxTicks \in Nat
  /\ TTL \in Nat \ {0} /\ Gone \notin Int

ASSUME ChainAssumption ==
  Length \in Nat \ {0} /\ MaxPushes \in Nat \ {0} /\ MaxChainFaults \in Nat

VARIABLES dispatched,                                  \* which one it is
          lasting, dispatcher, stage, tries, outcome,
          seen, thens, losses, key, age, gotThen,
          ticks,                                       \* of RedisBatch
          sync, caller, at, fails, result, told,
          left, lost, fired, gone,                     \* of JobBatch
          driver, pushes, link, place, attempts,
          handled, committed, chainFaults              \* of JobChain

batchVars ==
  <<lasting, dispatcher, stage, tries, outcome, seen, thens, losses, key, age,
    gotThen, ticks>>
memoryVars ==
  <<sync, caller, at, fails, result, told, left, lost, fired, gone>>
chainVars ==
  <<driver, pushes, link, place, attempts, handled, committed, chainFaults>>

(* Two attempts for the first job, one for the other: a retry is possible, *)
(* and so is a job that is buried on its first failure.                    *)
Attempts == [j \in Jobs |-> IF j = j1 THEN 2 ELSE 1]

AttemptsOfMembers == [m \in Members |-> IF m = m1 THEN 2 ELSE 1]
AttemptsOfLinks == [k \in 1 .. Length |-> 2]

Redis == INSTANCE RedisBatch WITH MaxAttempts <- MemberAttempts

Memory == INSTANCE JobBatch
            WITH MaxAttempts <- MemberAttempts,
                 dispatcher <- caller, stage <- at, tries <- fails,
                 outcome <- result, seen <- told, pending <- left,
                 failed <- lost, thens <- fired, losses <- gone

Chain == INSTANCE JobChain
           WITH stage <- place, MaxAttempts <- LinkAttempts,
                faults <- chainFaults, MaxFaults <- MaxChainFaults

QueueInit ==
  /\ dispatched \in {"jobs", "redis batch", "memory batch", "chain"}
  /\ Init /\ Redis!Init /\ Memory!Init /\ Chain!Init
  /\ lasting \/ dispatched = "redis batch"
  /\ sync \/ dispatched = "memory batch"
  /\ driver = "redis" \/ dispatched = "chain"

QueueNext ==
  \/ /\ dispatched = "jobs" /\ Next
     /\ UNCHANGED <<dispatched, batchVars, memoryVars, chainVars>>
  \/ /\ dispatched = "redis batch" /\ Redis!Next
     /\ UNCHANGED <<dispatched, vars, memoryVars, chainVars>>
  \/ /\ dispatched = "memory batch" /\ Memory!Next
     /\ UNCHANGED <<dispatched, vars, batchVars, chainVars>>
  \/ /\ dispatched = "chain" /\ Chain!Next
     /\ UNCHANGED <<dispatched, vars, batchVars, memoryVars>>

(* RedisQueue's Fairness, asked for in its own behaviours only: its idle   *)
(* workers could always go on.  No fair step of a new batch or chain is    *)
(* enabled.                                                                *)
WorkersRun ==
  /\ \A j \in Jobs : \A n \in 0 .. MaxAttempts[j] :
       WF_vars(Elapse([job |-> j, attempts |-> n]))
  /\ \A w \in Workers : /\ WF_vars(dispatched = "jobs" /\ WorkerStep(w))
                        /\ WF_vars(Restart(w))

FairQueueSpec ==
  /\ QueueInit
  /\ [][QueueNext]_<<dispatched, vars, batchVars, memoryVars, chainVars>>
  /\ WorkersRun /\ Redis!Fairness /\ Memory!Fairness /\ Chain!Fairness

WorkflowsTypeOK == Redis!TypeOK /\ Memory!TypeOK /\ Chain!TypeOK

(* Of batches, `then` is pushed once and after all members; of chains, the *)
(* links begin in order, and none after a link that gave up: RedisBatch's, *)
(* JobBatch's and JobChain's properties (queue.py:442-447, 457-459,        *)
(* 661-667).                                                               *)
OnceAndInOrder ==
  /\ Redis!ThenOnceAfterAll /\ Memory!ThenOnceAfterAll
  /\ Chain!LinksInOrder /\ Chain!StopsAtFailure

(* RedisBatch's property that it implements JobBatch, whose tracker counts *)
(* in one step (queue.py:543-549, 597-611).                                *)
ImplementsJobBatch == Redis!ImplementsJobBatch

(* "the next link only starts once the previous one finishes successfully" *)
(* (queue.py:451-452), as JobChain puts it.                                *)
NextAfterCommit == Chain!NextAfterCommit

(* Each kind gets to its end: RedisQueue's property that no job is stuck,  *)
(* RedisBatch's and JobBatch's that `then` is pushed at last, and          *)
(* JobChain's that the last link is committed unless a link is given up    *)
(* (queue.py:345-378, 439-447, 661-667).                                   *)
EndsAtLast ==
  NoneStuck /\ Redis!ThenFires /\ Memory!ThenFires /\ Chain!ChainEnds

=============================================================================
