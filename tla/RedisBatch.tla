----------------------------- MODULE RedisBatch -----------------------------
(***************************************************************************)
(* dispatch_batch() over RedisQueue: src/src/zeython/queue.py, class       *)
(* RedisBatchTracker.  Every command is a step of its own; the commands of *)
(* two members on two workers interleave, and keys expire between them.    *)
(***************************************************************************)
EXTENDS Naturals, Integers, FiniteSets

CONSTANTS Members, MaxAttempts, MaxLosses,
          TTL,       \* the tracker's ttl, in ticks of the clock
          MaxTicks,  \* bound on the clock
          Gone       \* the value of a key that does not exist

VARIABLES lasting,   \* ttl outlasts the batch: no key expires
          dispatcher, stage, tries, outcome, seen, thens, losses,
          key,       \* the counters and the `then` spec kept in Redis
          age,       \* ticks since a key's expiry was set; TTL: it has none
          gotThen,   \* get_then()'s answer to the last member
          ticks

memberVars == <<stage, tries, outcome, seen>>
redisVars == <<key, age>>
vars == <<lasting, dispatcher, memberVars, redisVars, thens, losses, gotThen,
          ticks>>

Keys == {"total", "pending", "failed", "then"}
N == Cardinality(Members)

Stages == {"none", "queued", "running", "counted", "tallied", "kept",
           "recorded", "thenRead", "fired", "finished", "lost"}

TypeOK ==
  /\ lasting \in BOOLEAN
  /\ dispatcher \in {"new", "pushing", "returned", "raised"}
  /\ stage \in [Members -> Stages]
  /\ tries \in [Members -> Nat]
  /\ outcome \in [Members -> {"open", "ok", "failed"}]
  /\ seen \in [Members -> -N .. N]
  /\ thens \in Nat
  /\ losses \in 0 .. MaxLosses
  /\ key \in [Keys -> (-N .. N) \cup {Gone}]
  /\ age \in [Keys -> 0 .. TTL]
  /\ gotThen \in [Members -> BOOLEAN]
  /\ ticks \in 0 .. MaxTicks

Init ==
  /\ lasting \in BOOLEAN
  /\ dispatcher = "new"
  /\ stage = [m \in Members |-> "none"]
  /\ tries = [m \in Members |-> 0]
  /\ outcome = [m \in Members |-> "open"]
  /\ seen = [m \in Members |-> 0]
  /\ thens = 0 /\ losses = 0
  /\ key = [k \in Keys |-> Gone]
  /\ age = [k \in Keys |-> 0]
  /\ gotThen = [m \in Members |-> FALSE]
  /\ ticks = 0

(***************************************************************************)
(* Redis                                                                   *)
(***************************************************************************)

Number(k) == IF key[k] = Gone THEN 0 ELSE key[k]

(* INCRBY creates a missing key at zero, without an expiry.                *)
IncrBy(k, n) ==
  /\ key' = [key EXCEPT ![k] = Number(k) + n]
  /\ age' = IF key[k] = Gone THEN [age EXCEPT ![k] = TTL] ELSE age

(* EXPIRE of a missing key does nothing.                                   *)
ExpireAfterTTL(k) ==
  /\ age' = IF key[k] = Gone THEN age ELSE [age EXCEPT ![k] = 0]
  /\ UNCHANGED key

(* Mutant: a key outlives its expiry.                                      *)
TickUncleared ==
  /\ ~lasting /\ ticks < MaxTicks
  /\ ticks' = ticks + 1
  /\ age' = [k \in Keys |-> age[k] + 1]
  /\ UNCHANGED <<lasting, dispatcher, memberVars, key, thens, losses, gotThen>>

(* Time passes: a key whose expiry is reached is gone.                     *)
Tick ==
  /\ ~lasting /\ ticks < MaxTicks
  /\ ticks' = ticks + 1
  /\ LET ending == {k \in Keys : age[k] = TTL - 1} IN
       /\ key' = [k \in Keys |-> IF k \in ending THEN Gone ELSE key[k]]
       /\ age' = [k \in Keys |-> CASE k \in ending \/ key[k] = Gone -> 0
                                   [] age[k] = TTL -> TTL
                                   [] OTHER -> age[k] + 1]
  /\ UNCHANGED <<lasting, dispatcher, memberVars, thens, losses, gotThen>>

(***************************************************************************)
(* dispatch_batch() and create(), one MULTI/EXEC                           *)
(***************************************************************************)

Create ==
  /\ dispatcher = "new"
  /\ dispatcher' = "pushing"
  /\ key' = [total |-> N, pending |-> N, failed |-> 0, then |-> 1]
  /\ age' = [k \in Keys |-> 0]
  /\ UNCHANGED <<lasting, memberVars, thens, losses, gotThen, ticks>>

Move(m, from, to) == stage[m] = from /\ stage' = [stage EXCEPT ![m] = to]

Dispatch(m) ==
  /\ dispatcher = "pushing"
  /\ Move(m, "none", "queued")
  /\ UNCHANGED <<lasting, dispatcher, tries, outcome, seen, redisVars, thens,
                 losses, gotThen, ticks>>

DispatchReturns ==
  /\ dispatcher = "pushing"
  /\ \A m \in Members : stage[m] # "none"
  /\ dispatcher' = "returned"
  /\ UNCHANGED <<lasting, memberVars, redisVars, thens, losses, gotThen,
                 ticks>>

DispatchFails ==
  /\ dispatcher = "pushing" /\ losses < MaxLosses
  /\ losses' = losses + 1
  /\ dispatcher' = "raised"
  /\ UNCHANGED <<lasting, memberVars, redisVars, thens, gotThen, ticks>>

(***************************************************************************)
(* _BatchedJob.handle() and record_completion()                            *)
(***************************************************************************)

Begin(m) ==
  /\ Move(m, "queued", "running")
  /\ UNCHANGED <<lasting, dispatcher, tries, outcome, seen, redisVars, thens,
                 losses, gotThen, ticks>>

TryAgain(m) ==
  /\ stage[m] = "running" /\ tries[m] + 1 < MaxAttempts[m]
  /\ tries' = [tries EXCEPT ![m] = @ + 1]
  /\ UNCHANGED <<lasting, dispatcher, stage, outcome, seen, redisVars, thens,
                 losses, gotThen, ticks>>

Outcomes(m) == {"ok"} \cup IF tries[m] + 1 = MaxAttempts[m] THEN {"failed"}
                                                            ELSE {}

(* DECR, whose answer decides who pushes `then`.                           *)
CountDown(m) ==
  /\ Move(m, "running", "counted")
  /\ \E o \in Outcomes(m) : outcome' = [outcome EXCEPT ![m] = o]
  /\ IncrBy("pending", -1)
  /\ seen' = [seen EXCEPT ![m] = Number("pending") - 1]
  /\ UNCHANGED <<lasting, dispatcher, tries, thens, losses, gotThen, ticks>>

(* Mutant: the last member is told by a GET after the DECR.                *)
ReadLate(m) ==
  /\ Move(m, "counted", "tallied")
  /\ IF outcome[m] = "failed" THEN IncrBy("failed", 1) ELSE UNCHANGED redisVars
  /\ seen' = [seen EXCEPT ![m] = Number("pending")]
  /\ UNCHANGED <<lasting, dispatcher, tries, outcome, thens, losses, gotThen,
                 ticks>>

(* INCR or GET of "failed", and GET of "total".                            *)
Tally(m) ==
  /\ Move(m, "counted", "tallied")
  /\ IF outcome[m] = "failed" THEN IncrBy("failed", 1) ELSE UNCHANGED redisVars
  /\ UNCHANGED <<lasting, dispatcher, tries, outcome, seen, thens, losses,
                 gotThen, ticks>>

Keep(m, k, from, to) ==
  /\ Move(m, from, to)
  /\ ExpireAfterTTL(k)
  /\ UNCHANGED <<lasting, dispatcher, tries, outcome, seen, thens, losses,
                 gotThen, ticks>>

KeepPending(m) == Keep(m, "pending", "tallied", "kept")
KeepFailed(m) == Keep(m, "failed", "kept", "recorded")

(* get_then()                                                              *)
GetThen(m) ==
  /\ Move(m, "recorded", "thenRead") /\ seen[m] = 0
  /\ gotThen' = [gotThen EXCEPT ![m] = key["then"] # Gone]
  /\ UNCHANGED <<lasting, dispatcher, tries, outcome, seen, redisVars, thens,
                 losses, ticks>>

Fire(m) ==
  /\ Move(m, "thenRead", "fired") /\ gotThen[m]
  /\ thens' = thens + 1
  /\ UNCHANGED <<lasting, dispatcher, tries, outcome, seen, redisVars,
                 losses, gotThen, ticks>>

Finish(m) ==
  /\ \/ Move(m, "recorded", "finished") /\ seen[m] # 0
     \/ Move(m, "thenRead", "finished") /\ ~gotThen[m]
     \/ Move(m, "fired", "finished")
  /\ UNCHANGED <<lasting, dispatcher, tries, outcome, seen, redisVars, thens,
                 losses, gotThen, ticks>>

(* The worker that holds the member dies, or a command raises out of it.   *)
Lose(m) ==
  /\ stage[m] \notin {"none", "finished", "lost"} /\ losses < MaxLosses
  /\ losses' = losses + 1
  /\ stage' = [stage EXCEPT ![m] = "lost"]
  /\ UNCHANGED <<lasting, dispatcher, tries, outcome, seen, redisVars, thens,
                 gotThen, ticks>>

MemberStep(m) ==
  \/ Begin(m) \/ TryAgain(m) \/ CountDown(m) \/ Tally(m) \/ KeepPending(m)
  \/ KeepFailed(m) \/ GetThen(m) \/ Fire(m) \/ Finish(m)

Next == \/ Create \/ DispatchReturns \/ DispatchFails \/ Tick
        \/ \E m \in Members : Dispatch(m) \/ MemberStep(m) \/ Lose(m)

Spec == Init /\ [][Next]_vars

Fairness == /\ WF_vars(DispatchReturns)
            /\ \A m \in Members : WF_vars(Dispatch(m))
                               /\ WF_vars(MemberStep(m))

FairSpec == Spec /\ Fairness

(***************************************************************************)
(* Properties                                                              *)
(***************************************************************************)

(* "exactly once" as far as safety goes: `then` is pushed at most once and *)
(* after every member ran, however the members' commands interleave and    *)
(* whichever keys expire (queue.py:597-623, 661-667).                      *)
ThenOnceAfterAll == /\ thens <= 1
                    /\ thens = 1 => \A m \in Members : outcome[m] # "open"

(* Nothing lost and nothing expired: `then` is pushed.                     *)
ThenFires ==
  lasting /\ [](losses = 0) => (dispatcher = "pushing" ~> thens = 1)

(***************************************************************************)
(* RedisBatch implements JobBatch, read by the members' outcomes.          *)
(***************************************************************************)

StageOf(m) ==
  CASE stage[m] \in {"counted", "tallied", "kept"} -> "recorded"
    [] stage[m] = "thenRead" -> "recorded"
    [] OTHER -> stage[m]

(* In a behaviour whose keys expire the abstract batch is never begun.     *)
IfLasting(now, atFirst) == IF lasting THEN now ELSE atFirst

Failures == {m \in Members : outcome[m] = "failed"}

Batch == INSTANCE JobBatch
           WITH sync <- FALSE,
                dispatcher <- IfLasting(dispatcher, "new"),
                stage <- [m \in Members |-> IfLasting(StageOf(m), "none")],
                tries <- [m \in Members |-> IfLasting(tries[m], 0)],
                outcome <- [m \in Members |-> IfLasting(outcome[m], "open")],
                seen <- [m \in Members |-> IfLasting(seen[m], 0)],
                pending <- IfLasting(Number("pending"), 0),
                failed <- IfLasting(Cardinality(Failures), 0),
                thens <- IfLasting(thens, 0),
                losses <- IfLasting(losses, 0)

(* As long as no key expires, whatever the order of the members' commands, *)
(* the DECR alone decides who pushes `then`: the batch behaves as with the *)
(* lock of the in-process tracker, except for the failed count kept in     *)
(* Redis, which may lag behind.                                            *)
ImplementsJobBatch == Batch!Spec

=============================================================================
