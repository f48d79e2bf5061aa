---------------------------- MODULE Idempotency ----------------------------
(***************************************************************************)
(* src/src/zeython/idempotency.py, IdempotencyMiddleware: the requests     *)
(* that carry one Idempotency-Key, within one process.                     *)
(*                                                                         *)
(* An asyncio.Lock is named by the request that created it.  _locks maps   *)
(* the key to one lock at a time, but a request keeps the lock it found,   *)
(* so several locks for the one key can be in use.                         *)
(***************************************************************************)
EXTENDS Naturals, Sequences, FiniteSets, SequencesExt

CONSTANTS Requests,
          Body,        \* the hash of each request's body
          MaxFails,    \* bound on 5xx answers, exceptions and cancellations
          MaxExpiries, \* bound on expiries of the stored record
          None

ASSUME RequestsAssumption ==
  /\ IsFiniteSet(Requests) /\ None \notin Requests
  /\ MaxFails \in Nat /\ MaxExpiries \in Nat

VARIABLES lockOf,    \* self._locks[cache_key]
          owner,     \* who holds each lock
          waiters,   \* who waits for each lock, in order
          myLock,    \* the lock a request found or created
          pc,
          record,    \* whose response the cache holds
          replayed,  \* whose response each request was given
          runs,      \* operations completed
          fails, expiries

vars == <<lockOf, owner, waiters, myLock, pc, record, replayed, runs, fails,
          expiries>>

Stages == {"new", "waiting", "checking", "running", "storing", "found",
           "done", "replayed", "conflict", "failed"}
Finished == {"done", "replayed", "conflict", "failed"}
Holding == {"checking", "running", "storing"}

TypeOK ==
  /\ lockOf \in Requests \cup {None}
  /\ owner \in [Requests -> Requests \cup {None}]
  /\ waiters \in [Requests -> Seq(Requests)]
  /\ myLock \in [Requests -> Requests \cup {None}]
  /\ pc \in [Requests -> Stages]
  /\ \A r, l \in Requests : owner[l] = r <=> myLock[r] = l /\ pc[r] \in Holding
  /\ record \in Requests \cup {None}
  /\ replayed \in [Requests -> Requests \cup {None}]
  /\ runs \in Nat
  /\ fails \in 0 .. MaxFails
  /\ expiries \in 0 .. MaxExpiries

Init ==
  /\ lockOf = None
  /\ owner = [l \in Requests |-> None]
  /\ waiters = [l \in Requests |-> <<>>]
  /\ myLock = [r \in Requests |-> None]
  /\ pc = [r \in Requests |-> "new"]
  /\ record = None
  /\ replayed = [r \in Requests |-> None]
  /\ runs = 0 /\ fails = 0 /\ expiries = 0

(***************************************************************************)
(* __call__()                                                              *)
(***************************************************************************)

(* self._locks.setdefault(), then `async with lock`.                       *)
Arrive(r) ==
  /\ pc[r] = "new"
  /\ LET l == IF lockOf = None THEN r ELSE lockOf IN
       /\ lockOf' = l
       /\ myLock' = [myLock EXCEPT ![r] = l]
       /\ IF owner[l] = None
            THEN /\ owner' = [owner EXCEPT ![l] = r]
                 /\ pc' = [pc EXCEPT ![r] = "checking"]
                 /\ UNCHANGED waiters
            ELSE /\ waiters' = [waiters EXCEPT ![l] = Append(@, r)]
                 /\ pc' = [pc EXCEPT ![r] = "waiting"]
                 /\ UNCHANGED owner
  /\ UNCHANGED <<record, replayed, runs, fails, expiries>>

(* self._locks.pop(cache_key, None), whatever lock is there by now.        *)
Forget(r) == lockOf' = None

(* Mutant: the next waiter is not woken.                                   *)
LeaveUnwoken(r, stage) ==
  /\ Forget(r)
  /\ owner' = [owner EXCEPT ![myLock[r]] = None]
  /\ pc' = [pc EXCEPT ![r] = stage]
  /\ UNCHANGED waiters

(* Mutant: the next waiter is woken, and the owner still holds the lock.   *)
LeaveHeld(r, stage) ==
  /\ Forget(r)
  /\ pc' = [q \in Requests |->
               IF q = r THEN stage
               ELSE IF waiters[myLock[r]] # <<>> /\ q = Head(waiters[myLock[r]])
                 THEN "checking" ELSE pc[q]]
  /\ waiters' = [waiters EXCEPT ![myLock[r]] = IF @ = <<>> THEN @ ELSE Tail(@)]
  /\ UNCHANGED owner

(* The lock is left and forgotten; the first waiter has it now.            *)
Leave(r, stage) ==
  LET l == myLock[r] IN
    /\ Forget(r)
    /\ IF waiters[l] = <<>>
         THEN /\ owner' = [owner EXCEPT ![l] = None]
              /\ pc' = [pc EXCEPT ![r] = stage]
              /\ UNCHANGED waiters
         ELSE /\ owner' = [owner EXCEPT ![l] = Head(waiters[l])]
              /\ pc' = [pc EXCEPT ![r] = stage, ![Head(waiters[l])] = "checking"]
              /\ waiters' = [waiters EXCEPT ![l] = Tail(@)]

(* cache.get(): a record is replayed after the lock is left, none means    *)
(* that this request runs the operation.                                   *)
Check(r) ==
  /\ pc[r] = "checking"
  /\ IF record = None
       THEN /\ pc' = [pc EXCEPT ![r] = "running"]
            /\ UNCHANGED <<lockOf, owner, waiters, replayed>>
       ELSE /\ Leave(r, "found")
            /\ replayed' = [replayed EXCEPT ![r] = record]
  /\ UNCHANGED <<myLock, record, runs, fails, expiries>>

(* self.app() answered below 500.                                          *)
Complete(r) ==
  /\ pc[r] = "running"
  /\ pc' = [pc EXCEPT ![r] = "storing"]
  /\ runs' = runs + 1
  /\ UNCHANGED <<lockOf, owner, waiters, myLock, record, replayed, fails, expiries>>

(* Mutant: the lock is left and no record is stored.                        *)
StoreNothing(r) ==
  /\ pc[r] = "storing"
  /\ Leave(r, "done")
  /\ UNCHANGED <<myLock, record, replayed, runs, fails, expiries>>

(* cache.put()                                                             *)
Store(r) ==
  /\ pc[r] = "storing"
  /\ record' = r
  /\ Leave(r, "done")
  /\ UNCHANGED <<myLock, replayed, runs, fails, expiries>>

(* A status of 500 or more is not stored; an exception and a cancellation  *)
(* leave __call__() the same way, from any of its awaits under the lock.   *)
Fail(r) ==
  /\ pc[r] \in Holding /\ fails < MaxFails
  /\ fails' = fails + 1
  /\ Leave(r, "failed")
  /\ UNCHANGED <<myLock, record, replayed, runs, expiries>>

(* The request's task is cancelled while it waits for the lock, whose      *)
(* acquire() takes it out of the lock's deque.                             *)
CancelWaiting(r) ==
  /\ pc[r] = "waiting" /\ fails < MaxFails
  /\ fails' = fails + 1
  /\ \E i \in DOMAIN waiters[myLock[r]] :
       /\ waiters[myLock[r]][i] = r
       /\ waiters' = [waiters EXCEPT ![myLock[r]] = RemoveAt(@, i)]
  /\ pc' = [pc EXCEPT ![r] = "failed"]
  /\ Forget(r)
  /\ UNCHANGED <<owner, myLock, record, replayed, runs, expiries>>

SameBody(r) == Body[replayed[r]] = Body[r]

(* _send_stored(), or 409 for another body.                                *)
Answer(r) ==
  /\ pc[r] = "found"
  /\ pc' = [pc EXCEPT ![r] = IF SameBody(r) THEN "replayed" ELSE "conflict"]
  /\ UNCHANGED <<lockOf, owner, waiters, myLock, record, replayed, runs, fails,
                 expiries>>

(* The record's ttl is over.                                               *)
Expire ==
  /\ record # None /\ expiries < MaxExpiries
  /\ expiries' = expiries + 1
  /\ record' = None
  /\ UNCHANGED <<lockOf, owner, waiters, myLock, pc, replayed, runs, fails>>

Step(r) == Check(r) \/ Complete(r) \/ Store(r) \/ Answer(r)

Next == \/ \E r \in Requests : Arrive(r) \/ Step(r) \/ Fail(r) \/ CancelWaiting(r)
        \/ Expire

Spec == Init /\ [][Next]_vars

(* The event loop runs what is ready, and the application answers.         *)
Fairness == \A r \in Requests : WF_vars(Step(r))

FairSpec == Spec /\ Fairness

(***************************************************************************)
(* Properties                                                              *)
(***************************************************************************)

(* While the record does not expire, the operation is completed once per   *)
(* key, and twice more for each failure or cancellation at most: by the    *)
(* next waiter with the old lock and by a newcomer with a new one, since   *)
(* the failed request forgets the lock (idempotency.py:116-124).           *)
OncePerKey == expiries = 0 => runs <= 1 + 2 * fails

(* Every request gets an answer: its own, a replay, or 409; a failure or a *)
(* cancellation of the lock's owner passes the lock on.                    *)
EveryRequestAnswered ==
  \A r \in Requests : pc[r] # "new" ~> pc[r] \in Finished

(* A repeated key is replayed "instead of running the operation a second   *)
(* time in parallel -- correct within one worker process"                  *)
(* (idempotency.py:70-74).  Not after a failure or a cancellation: the     *)
(* next waiter has the old lock and a newcomer creates another.            *)
NeverParallel ==
  \A q, r \in Requests : pc[q] = "running" /\ pc[r] = "running" => q = r

(* What is kept of that: no two requests are between the start of the      *)
(* operation and the storing of its response while nothing has failed, was *)
(* cancelled or has expired, though every request that leaves forgets the  *)
(* lock, and newcomers create others (idempotency.py:116-124).             *)
OneRunner ==
  fails + expiries = 0 =>
    \A q, r \in Requests : pc[q] \in {"running", "storing"}
                           /\ pc[r] \in {"running", "storing"} => q = r

(* Both at once: as often and as many at a time as the locks let through   *)
(* (idempotency.py:116-124).                                               *)
RunsGuarded == OncePerKey /\ OneRunner

=============================================================================
