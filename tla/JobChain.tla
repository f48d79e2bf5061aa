------------------------------ MODULE JobChain ------------------------------
(***************************************************************************)
(* chain() of src/src/zeython/queue.py: each _ChainedJob runs one link     *)
(* and, before its own handle() returns, pushes the next one.  Queue       *)
(* ._invoke() commits the link's database session only after handle().     *)
(*                                                                         *)
(* An instance is one push of one link.  The driver is InMemoryQueue (one  *)
(* worker in one process, which retries on the spot) or RedisQueue (any    *)
(* number of workers, retries through the delayed set).                    *)
(***************************************************************************)
EXTENDS Naturals, FiniteSets

CONSTANTS Length,       \* links of the chain
          MaxAttempts,  \* max_attempts of each link
          MaxFaults,    \* bound on commits and pushes that fail, and crashes
          MaxPushes     \* bound on instances

Links == 1 .. Length
Instances == 1 .. MaxPushes

VARIABLES driver,     \* QUEUE_DRIVER: "memory" or "redis"
          pushes,     \* instances pushed so far
          link,       \* the link of each instance
          stage,      \* where each instance is
          attempts,   \* attempts begun for it
          handled,    \* links whose own handle() has returned
          committed,  \* how often a link's session was committed
          faults

vars == <<driver, pushes, link, stage, attempts, handled, committed, faults>>

Stages == {"none", "queued", "handling", "handled", "pushed", "raised",
           "done", "failed", "lost"}
Busy == {"handling", "handled", "pushed", "raised"}

TypeOK ==
  /\ driver \in {"memory", "redis"}
  /\ pushes \in 0 .. MaxPushes
  /\ link \in [Instances -> Links]
  /\ stage \in [Instances -> Stages]
  /\ \A i \in Instances : stage[i] = "none" <=> i > pushes
  /\ attempts \in [Instances -> Nat]
  /\ handled \in SUBSET Links
  /\ committed \in [Links -> Nat]
  /\ faults \in 0 .. MaxFaults

Init ==
  /\ driver \in {"memory", "redis"}
  /\ pushes = 0
  /\ link = [i \in Instances |-> 1]
  /\ stage = [i \in Instances |-> "none"]
  /\ attempts = [i \in Instances |-> 0]
  /\ handled = {}
  /\ committed = [k \in Links |-> 0]
  /\ faults = 0

(* dispatch(chain(jobs)) pushes the first link.                            *)
Dispatch ==
  /\ pushes = 0
  /\ pushes' = 1 /\ stage' = [stage EXCEPT ![1] = "queued"]
  /\ UNCHANGED <<driver, link, attempts, handled, committed, faults>>

Goto(i, to) == stage' = [stage EXCEPT ![i] = to]
Fault == faults < MaxFaults /\ faults' = faults + 1

(* _invoke() is entered.  The one worker of InMemoryQueue takes the jobs   *)
(* in the order they were pushed, one at a time.                           *)
Free(i) ==
  driver = "memory" => \A n \in Instances : /\ stage[n] \notin Busy
                                            /\ stage[n] = "queued" => i <= n

Start(i) ==
  /\ stage[i] = "queued" /\ Free(i)
  /\ Goto(i, "handling")
  /\ attempts' = [attempts EXCEPT ![i] = @ + 1]
  /\ UNCHANGED <<driver, pushes, link, handled, committed, faults>>

(* `await container.call(job.handle)` returns.                             *)
Handle(i) ==
  /\ stage[i] = "handling"
  /\ Goto(i, "handled")
  /\ handled' = handled \cup {link[i]}
  /\ UNCHANGED <<driver, pushes, link, attempts, committed, faults>>

HandleRaises(i) ==
  /\ stage[i] = "handling"
  /\ Goto(i, "raised")
  /\ UNCHANGED <<driver, pushes, link, attempts, handled, committed, faults>>

(* Mutant: the next link is pushed before the wrapped job is awaited.      *)
PushNextEarly(i) ==
  /\ stage[i] \in {"handling", "handled"}
  /\ IF link[i] < Length
       THEN /\ pushes < MaxPushes
            /\ pushes' = pushes + 1
            /\ link' = [link EXCEPT ![pushes'] = link[i] + 1]
            /\ stage' = [stage EXCEPT ![i] = "pushed", ![pushes'] = "queued"]
       ELSE Goto(i, "pushed") /\ UNCHANGED <<pushes, link>>
  /\ UNCHANGED <<driver, attempts, handled, committed, faults>>

(* Mutant: the push of the next link is not awaited and never runs.        *)
PushUnawaited(i) ==
  /\ stage[i] = "handled"
  /\ pushes' = IF link[i] < Length /\ pushes < MaxPushes THEN pushes + 1
                                                    ELSE pushes
  /\ Goto(i, "pushed")
  /\ UNCHANGED <<driver, link, attempts, handled, committed, faults>>

(* queue.push() of the next link, if one remains.                          *)
PushNext(i) ==
  /\ stage[i] = "handled"
  /\ IF link[i] < Length
       THEN /\ pushes < MaxPushes
            /\ pushes' = pushes + 1
            /\ link' = [link EXCEPT ![pushes'] = link[i] + 1]
            /\ stage' = [stage EXCEPT ![i] = "pushed", ![pushes'] = "queued"]
       ELSE Goto(i, "pushed") /\ UNCHANGED <<pushes, link>>
  /\ UNCHANGED <<driver, attempts, handled, committed, faults>>

PushFails(i) ==
  /\ stage[i] = "handled" /\ link[i] < Length
  /\ Fault
  /\ Goto(i, "raised")
  /\ UNCHANGED <<driver, pushes, link, attempts, handled, committed>>

(* database.session() is left: the link's writes become visible.           *)
Commit(i) ==
  /\ stage[i] = "pushed"
  /\ Goto(i, "done")
  /\ committed' = [committed EXCEPT ![link[i]] = @ + 1]
  /\ UNCHANGED <<driver, pushes, link, attempts, handled, faults>>

CommitFails(i) ==
  /\ stage[i] = "pushed"
  /\ Fault
  /\ Goto(i, "raised")
  /\ UNCHANGED <<driver, pushes, link, attempts, handled, committed>>

AttemptsLeft(i) == attempts[i] < MaxAttempts[link[i]]

(* The driver's retry: InMemoryQueue goes round its for loop, RedisQueue   *)
(* delays the instance.                                                    *)
Retry(i) ==
  /\ stage[i] = "raised" /\ AttemptsLeft(i)
  /\ IF driver = "memory"
       THEN Goto(i, "handling") /\ attempts' = [attempts EXCEPT ![i] = @ + 1]
       ELSE Goto(i, "queued") /\ UNCHANGED attempts
  /\ UNCHANGED <<driver, pushes, link, handled, committed, faults>>

(* Mutant: a link that is given up hands over to the next one.             *)
GiveUpContinues(i) ==
  /\ stage[i] = "raised" /\ ~AttemptsLeft(i)
  /\ IF link[i] < Length /\ pushes < MaxPushes
       THEN /\ pushes' = pushes + 1
            /\ link' = [link EXCEPT ![pushes'] = link[i] + 1]
            /\ stage' = [stage EXCEPT ![i] = "failed", ![pushes'] = "queued"]
       ELSE Goto(i, "failed") /\ UNCHANGED <<pushes, link>>
  /\ UNCHANGED <<driver, attempts, handled, committed, faults>>

GiveUp(i) ==
  /\ stage[i] = "raised" /\ ~AttemptsLeft(i)
  /\ Goto(i, "failed")
  /\ UNCHANGED <<driver, pushes, link, attempts, handled, committed, faults>>

(* The process that runs the instance dies, with the queue if it is there. *)
Crash(i) ==
  /\ stage[i] \in Busy
  /\ Fault
  /\ stage' = [n \in Instances |->
                 IF n = i \/ (driver = "memory" /\ stage[n] = "queued")
                   THEN "lost" ELSE stage[n]]
  /\ UNCHANGED <<driver, pushes, link, attempts, handled, committed>>

Step(i) == \/ Start(i) \/ Handle(i) \/ HandleRaises(i) \/ PushNext(i)
           \/ Commit(i) \/ Retry(i) \/ GiveUp(i)

Next == \/ Dispatch
        \/ \E i \in Instances : \/ Step(i) \/ PushFails(i) \/ CommitFails(i)
                                \/ Crash(i)

Spec == Init /\ [][Next]_vars

(* The workers run what is queued.                                         *)
Fairness == \A i \in Instances : WF_vars(Step(i))

FairSpec == Spec /\ Fairness

(***************************************************************************)
(* Properties                                                              *)
(***************************************************************************)

Started(k) == \E i \in Instances : link[i] = k /\ attempts[i] > 0
GaveUp(k) == \E i \in Instances : link[i] = k /\ stage[i] = "failed"

(* A link starts only after the wrapped job of every earlier link has      *)
(* returned, whatever is retried, fails to commit or crashes               *)
(* (queue.py:442-447).                                                     *)
LinksInOrder ==
  \A k \in Links : Started(k) => \A n \in 1 .. k - 1 : n \in handled

(* "If a link exhausts its own max_attempts, the rest of the chain never   *)
(* runs" (queue.py:457-459), and no link succeeds twice, as long as no     *)
(* commit or push fails and no worker dies.  A link whose commit fails has *)
(* already pushed the next one.                                            *)
StopsAtFailure ==
  faults = 0 =>
    /\ \A k, n \in Links : GaveUp(k) /\ n > k => ~Started(n)
    /\ \A k \in Links : committed[k] <= 1

(* "the next link only starts once the previous one finishes successfully" *)
(* (queue.py:451-452): what the earlier link wrote is committed.  Not with *)
(* RedisQueue: another worker may start the next link before.              *)
NextAfterCommit ==
  \A k \in Links : Started(k) => \A n \in 1 .. k - 1 : committed[n] > 0

(* Without faults the chain runs to its end or stops at a failed link.     *)
ChainEnds ==
  [](faults = 0) =>
    (pushes > 0 ~> committed[Length] = 1 \/ \E k \in Links : GaveUp(k))

=============================================================================
