----------------------------- MODULE SamlReplay -----------------------------
(***************************************************************************)
(* src/src/zeython/saml.py, SamlManager.handle_acs(): the callbacks that   *)
(* present one validated assertion, to several processes that share the    *)
(* replay cache (docs/saml.md:181-195).  The lock is a process's own, and  *)
(* whoever leaves it removes it for those that come later, but those that  *)
(* wait keep the one they found.  All of it is within one replay_window.   *)
(***************************************************************************)
EXTENDS Naturals, FiniteSets

CONSTANTS Callbacks, Processes,
          ProcessOf,    \* where each callback arrives
          MaxFaults      \* bound on failing cache commands and cancellations

VARIABLES
  replayLock,  \* self._replay_locks[replay_key] of each process: 0 or a lock
  lockFound,   \* the lock that each callback has found
  step,        \* of each callback
  seen,        \* the cache holds the assertion's key
  locks, faults

vars == <<replayLock, lockFound, step, seen, locks, faults>>

Inside == {"has", "put"}
Steps == {"valid", "waiting", "accepted", "refused", "failed"} \cup Inside

TypeOK ==
  /\ locks \in 0 .. Cardinality(Callbacks)
  /\ replayLock \in [Processes -> 0 .. locks]
  /\ lockFound \in [Callbacks -> 0 .. locks]
  /\ step \in [Callbacks -> Steps]
  /\ seen \in BOOLEAN
  /\ faults \in 0 .. MaxFaults

Init ==
  /\ replayLock = [p \in Processes |-> 0]
  /\ lockFound = [c \in Callbacks |-> 0]
  /\ step = [c \in Callbacks |-> "valid"]
  /\ seen = FALSE /\ locks = 0 /\ faults = 0

Become(c, s) == step' = [step EXCEPT ![c] = s]

(* self._replay_locks.setdefault(); locks are numbered as they are made.   *)
Arrive(c) ==
  LET p == ProcessOf[c] IN
  /\ step[c] = "valid"
  /\ locks' = IF replayLock[p] = 0 THEN locks + 1 ELSE locks
  /\ lockFound' = [lockFound EXCEPT ![c] = IF replayLock[p] = 0 THEN locks' ELSE replayLock[p]]
  /\ replayLock' = [replayLock EXCEPT ![p] = lockFound'[c]]
  /\ Become(c, "waiting")
  /\ UNCHANGED <<seen, faults>>

(* Mutant: nobody waits.                                                   *)
FreeAlways(lock) == TRUE

Free(lock) == ~\E c \in Callbacks : lockFound[c] = lock /\ step[c] \in Inside

(* `async with lock`; who of those that wait comes first is left open.     *)
Acquire(c) ==
  /\ step[c] = "waiting" /\ Free(lockFound[c])
  /\ Become(c, "has")
  /\ UNCHANGED <<replayLock, lockFound, seen, locks, faults>>

(* `finally`: the key's entry goes, whichever lock it holds by now.        *)
Leave(c, s) ==
  /\ Become(c, s)
  /\ replayLock' = [replayLock EXCEPT ![ProcessOf[c]] = 0]
  /\ UNCHANGED <<lockFound, locks>>

Has(c) ==
  /\ step[c] = "has"
  /\ IF seen THEN Leave(c, "refused") /\ UNCHANGED <<seen, faults>>
     ELSE Become(c, "put") /\ UNCHANGED <<replayLock, lockFound, seen, locks, faults>>

(* Mutant: the answer comes and nothing is remembered.                     *)
PutNothing(c) ==
  /\ step[c] = "put"
  /\ Leave(c, "accepted")
  /\ UNCHANGED <<seen, faults>>

Put(c) ==
  /\ step[c] = "put"
  /\ seen' = TRUE
  /\ Leave(c, "accepted")
  /\ UNCHANGED faults

(* The cache raises, before or after it has done what it was asked, or the *)
(* request is cancelled, also while it waits.                              *)
Fail(c) ==
  /\ step[c] \in Inside \cup {"waiting"} /\ faults < MaxFaults
  /\ faults' = faults + 1
  /\ seen' \in {seen, seen \/ step[c] = "put"}
  /\ Leave(c, "failed")

Next ==
  \E c \in Callbacks : Arrive(c) \/ Acquire(c) \/ Has(c) \/ Put(c) \/ Fail(c)

Spec == Init /\ [][Next]_vars

(* An assertion that is presented again is refused (docs/saml.md:168-175)  *)
(* in the window it is remembered for.  The exceptions: processes check it *)
(* at the same time, each under its own lock, and each fault may let a     *)
(* newcomer in beside one that had waited for the lock.                    *)
AcceptedOnce ==
  Cardinality({c \in Callbacks : step[c] = "accepted"})
    <= Cardinality(Processes) + faults
=============================================================================
