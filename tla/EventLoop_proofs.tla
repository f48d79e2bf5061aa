-------------------------- MODULE EventLoop_proofs --------------------------
(***************************************************************************)
(* Proofs about what MCEventLoop runs: the locks of IdempotencyMiddleware, *)
(* for any finite set of requests, and InMemoryQueue, for any jobs and any *)
(* finite set of worker tasks; with any number of failures, expiries,      *)
(* calls of close() and interrupted jobs.                                  *)
(***************************************************************************)
EXTENDS MCEventLoop, FiniteSetTheorems, TLAPS

(***************************************************************************)
(* Idempotency: the inductive invariant                                    *)
(***************************************************************************)

(* Those that may still complete the operation: with a record, only who    *)
(* has looked before it was there.                                         *)
Contenders ==
  {r \in Requests : \/ pc[r] = "running"
                    \/ pc[r] = "checking" /\ record = None}

(* Without a lock under the key, a newcomer makes one.                     *)
Open == IF record = None /\ lockOf = None THEN 1 ELSE 0

(* What has been completed, and what may be if nothing fails any more.     *)
Bounded == runs + Cardinality(Contenders) + Open <= 1 + 2 * fails

(* The lock that the key has is held by someone.                           *)
LockHeld == lockOf # None => lockOf \in Requests /\ owner[lockOf] # None

TypesKept ==
  /\ runs \in Nat /\ fails \in 0 .. MaxFails /\ expiries \in 0 .. MaxExpiries
  /\ pc \in [Requests -> Stages]
  /\ owner = [l \in Requests |-> owner[l]]
  /\ record \in Requests \cup {None}
  /\ replayed \in [Requests -> Requests \cup {None}]

LocksTyped ==
  /\ owner \in [Requests -> Requests \cup {None}]
  /\ waiters \in [Requests -> Seq(Requests)]
  /\ myLock \in [Requests -> Requests \cup {None}]

(* The queue of a lock has those that wait for it, once.                   *)
QueuesWait ==
  \A l \in Requests :
    /\ \A i \in 1 .. Len(waiters[l]) :
         pc[waiters[l][i]] = "waiting" /\ myLock[waiters[l][i]] = l
    /\ \A i, k \in 1 .. Len(waiters[l]) : waiters[l][i] = waiters[l][k] => i = k

HoldersOwn ==
  \A r \in Requests :
    /\ pc[r] \in Holding => myLock[r] \in Requests /\ owner[myLock[r]] = r
    /\ pc[r] = "waiting" => myLock[r] \in Requests

OwnersHold ==
  \A l \in Requests :
    owner[l] # None => pc[owner[l]] \in Holding /\ myLock[owner[l]] = l

Locks == LocksTyped /\ QueuesWait /\ HoldersOwn /\ OwnersHold

(* While nothing has failed, all have the same lock until there is a       *)
(* record, and later nobody runs the operation.                            *)
OneLock ==
  \A r \in Requests :
    IF record = None THEN pc[r] \in Holding \cup {"waiting"} => myLock[r] = lockOf
                     ELSE pc[r] \notin {"running", "storing"}

IInv ==
  /\ TypesKept /\ LockHeld /\ Locks
  /\ expiries = 0 => Bounded
  /\ fails = 0 /\ expiries = 0 => OneLock

(***************************************************************************)
(* Types, and the lock under the key                                       *)
(***************************************************************************)

(* Whoever leaves forgets the lock under the key, and at most one other    *)
(* request is woken.                                                       *)
LEMMA LeaveWakesOne ==
  ASSUME TypesKept, NEW r \in Requests, NEW stage \in Stages, Leave(r, stage)
  PROVE  /\ pc' \in [Requests -> Stages]
         /\ owner' = [l \in Requests |-> owner'[l]]
         /\ lockOf' = None
         /\ \E w : \A q \in Requests :
              \/ pc'[q] = pc[q] /\ q # r
              \/ q = r /\ pc'[q] = stage
              \/ q = w /\ pc'[q] = "checking"
<1>1. lockOf' = None
  BY DEF Leave, Forget
<1>2. CASE waiters[myLock[r]] = <<>>
  BY <1>1, <1>2 DEF Leave, TypesKept
<1>3. CASE waiters[myLock[r]] # <<>>
  <2> DEFINE w == Head(waiters[myLock[r]])
  <2>1. /\ owner' = [owner EXCEPT ![myLock[r]] = w]
        /\ pc' = [pc EXCEPT ![r] = stage, ![w] = "checking"]
    BY <1>3 DEF Leave
  <2>2. pc' \in [Requests -> Stages]
    BY <2>1 DEF TypesKept, Stages
  <2>3. owner' = [l \in Requests |-> owner'[l]]
    BY <2>1 DEF TypesKept
  <2>4. \A q \in Requests :
          \/ pc'[q] = pc[q] /\ q # r
          \/ q = r /\ pc'[q] = stage
          \/ q = w /\ pc'[q] = "checking"
    BY <2>1 DEF TypesKept
  <2> QED BY <1>1, <2>2, <2>3, <2>4
<1> QED BY <1>2, <1>3

(* Every step keeps the types.                                             *)
LEMMA TypesInductive ==
  ASSUME TypesKept, LockHeld, [Next]_vars, None \notin Requests
  PROVE  TypesKept' /\ LockHeld'
<1>1. ASSUME NEW r \in Requests, Arrive(r) PROVE TypesKept' /\ LockHeld'
  <2> DEFINE l == IF lockOf = None THEN r ELSE lockOf
  <2>1. l \in Requests
    BY DEF LockHeld
  <2>2. CASE owner[l] = None
    BY <1>1, <2>1, <2>2 DEF Arrive, TypesKept, LockHeld, Stages
  <2>3. CASE owner[l] # None
    BY <1>1, <2>1, <2>3 DEF Arrive, TypesKept, LockHeld, Stages
  <2> QED BY <2>2, <2>3
<1>2. ASSUME NEW r \in Requests, Check(r) PROVE TypesKept' /\ LockHeld'
  <2>1. CASE record = None
    BY <1>2, <2>1 DEF Check, TypesKept, LockHeld, Stages
  <2>2. CASE record # None
    <3>1. /\ Leave(r, "found") /\ UNCHANGED <<runs, fails, expiries, record>>
          /\ replayed' = [replayed EXCEPT ![r] = record]
      BY <1>2, <2>2 DEF Check
    <3> QED BY <3>1, LeaveWakesOne DEF TypesKept, LockHeld, Stages
  <2> QED BY <2>1, <2>2
<1>3. ASSUME NEW r \in Requests, Complete(r) PROVE TypesKept' /\ LockHeld'
  BY <1>3 DEF Complete, TypesKept, LockHeld, Stages
<1>4. ASSUME NEW r \in Requests, Store(r) PROVE TypesKept' /\ LockHeld'
  <2>1. /\ Leave(r, "done") /\ UNCHANGED <<runs, fails, expiries, replayed>>
        /\ record' = r
    BY <1>4 DEF Store
  <2> QED BY <2>1, LeaveWakesOne DEF TypesKept, LockHeld, Stages
<1>5. ASSUME NEW r \in Requests, Fail(r) PROVE TypesKept' /\ LockHeld'
  <2>1. /\ Leave(r, "failed") /\ fails < MaxFails /\ fails' = fails + 1
        /\ UNCHANGED <<runs, expiries, record, replayed>>
    BY <1>5 DEF Fail
  <2> QED BY <2>1, LeaveWakesOne, RequestsAssumption DEF TypesKept, LockHeld, Stages
<1>6. ASSUME NEW r \in Requests, CancelWaiting(r) PROVE TypesKept' /\ LockHeld'
  BY <1>6, RequestsAssumption DEF CancelWaiting, Forget, TypesKept, LockHeld, Stages
<1>7. ASSUME NEW r \in Requests, Answer(r) PROVE TypesKept' /\ LockHeld'
  BY <1>7 DEF Answer, TypesKept, LockHeld, Stages
<1>8. ASSUME Expire PROVE TypesKept' /\ LockHeld'
  BY <1>8, RequestsAssumption DEF Expire, TypesKept, LockHeld
<1>9. ASSUME UNCHANGED vars PROVE TypesKept' /\ LockHeld'
  BY <1>9 DEF vars, TypesKept, LockHeld
<1> QED
  BY <1>1, <1>2, <1>3, <1>4, <1>5, <1>6, <1>7, <1>8, <1>9 DEF Next, Step

(***************************************************************************)
(* How often the operation is completed                                    *)
(***************************************************************************)

(* What one request more or less makes of a number of requests.            *)
LEMMA OneMoreOrLess ==
  ASSUME IsFiniteSet(Requests), NEW S \in SUBSET Requests,
         NEW T \in SUBSET Requests, NEW x
  PROVE  /\ Cardinality(S) \in Nat /\ Cardinality(T) \in Nat
         /\ T \subseteq S => Cardinality(T) <= Cardinality(S)
         /\ T \subseteq S \cup {x} => Cardinality(T) <= Cardinality(S) + 1
         /\ x \in S /\ T \subseteq S \ {x} => Cardinality(T) <= Cardinality(S) - 1
<1>1. IsFiniteSet(S) /\ IsFiniteSet(T)
  BY FS_Subset
<1>2. Cardinality(S) \in Nat /\ Cardinality(T) \in Nat
  BY <1>1, FS_CardinalityType
<1>3. T \subseteq S => Cardinality(T) <= Cardinality(S)
  BY <1>1, FS_Subset
<1>4. ASSUME T \subseteq S \cup {x}
      PROVE  Cardinality(T) <= Cardinality(S) + 1
  <2>1. /\ IsFiniteSet(S \cup {x})
        /\ Cardinality(S \cup {x}) \in {Cardinality(S), Cardinality(S) + 1}
    BY <1>1, FS_AddElement
  <2>2. Cardinality(T) <= Cardinality(S \cup {x})
    BY <1>4, <2>1, FS_Subset
  <2> QED BY <1>2, <2>1, <2>2
<1>5. ASSUME x \in S, T \subseteq S \ {x}
      PROVE  Cardinality(T) <= Cardinality(S) - 1
  <2>1. /\ IsFiniteSet(S \ {x})
        /\ Cardinality(S \ {x}) = Cardinality(S) - 1
    BY <1>1, <1>5, FS_RemoveElement
  <2> QED BY <1>5, <2>1, FS_Subset
<1> QED BY <1>2, <1>3, <1>4, <1>5

(* While no record expires, each step keeps the bound: a newcomer uses up  *)
(* the freedom to make a lock, a completion its own turn, and a failure    *)
(* gives two turns more, to the next waiter and to a newcomer.             *)
LEMMA BoundedInductive ==
  ASSUME IsFiniteSet(Requests), None \notin Requests,
         TypesKept, LockHeld, Bounded, [Next]_vars, expiries' = expiries
  PROVE  Bounded'
<1> DEFINE C == Contenders
           C2 == Contenders'
<1>1. C \in SUBSET Requests /\ C2 \in SUBSET Requests
  BY DEF Contenders
<1>2. /\ Cardinality(C) \in Nat /\ Cardinality(C2) \in Nat
      /\ C2 \subseteq C => Cardinality(C2) <= Cardinality(C)
  BY <1>1, OneMoreOrLess
<1>3. /\ runs + Cardinality(C) + Open <= 1 + 2 * fails
      /\ runs \in Nat /\ fails \in Nat /\ Open \in {0, 1} /\ Open' \in {0, 1}
  BY DEF Bounded, TypesKept, Open
<1>4. Bounded' <=> runs' + Cardinality(C2) + Open' <= 1 + 2 * fails'
  BY DEF Bounded
<1> HIDE DEF C, C2
<1>5. ASSUME NEW r \in Requests, Arrive(r) PROVE Bounded'
  <2>1. /\ runs' = runs /\ fails' = fails /\ record' = record
        /\ lockOf' = IF lockOf = None THEN r ELSE lockOf
        /\ lockOf' # None /\ Open' = 0
        /\ pc' \in [Requests -> Stages]
        /\ \A q \in Requests : q # r => pc'[q] = pc[q]
        /\ pc'[r] \in {"checking", "waiting"}
    BY <1>5 DEF Arrive, TypesKept, Open, Stages
  <2>2. CASE lockOf = None /\ record = None
    <3>1. C2 \subseteq C \cup {r}
      BY <2>1 DEF C, C2, Contenders
    <3>2. Cardinality(C2) <= Cardinality(C) + 1
      BY <1>1, <3>1, OneMoreOrLess
    <3>3. Open = 1
      BY <2>2 DEF Open
    <3> HIDE DEF Open
    <3> QED BY <1>2, <1>3, <1>4, <2>1, <3>2, <3>3
  <2>3. CASE record # None
    <3>1. C2 \subseteq C
      BY <2>1, <2>3 DEF C, C2, Contenders
    <3> QED BY <1>2, <1>3, <1>4, <2>1, <3>1
  <2>4. CASE lockOf # None
    <3>1. pc'[r] = "waiting"
      BY <1>5, <2>4 DEF Arrive, LockHeld, TypesKept
    <3>2. C2 \subseteq C
      BY <2>1, <3>1 DEF C, C2, Contenders
    <3> QED BY <1>2, <1>3, <1>4, <2>1, <3>2
  <2> QED BY <2>2, <2>3, <2>4
<1>6. ASSUME NEW r \in Requests, Check(r) PROVE Bounded'
  <2>1. runs' = runs /\ fails' = fails /\ record' = record
    BY <1>6 DEF Check
  <2>2. CASE record = None
    <3>1. C2 \subseteq C
      BY <1>6, <2>2 DEF Check, TypesKept, C, C2, Contenders
    <3>2. Open' = Open
      BY <1>6, <2>2 DEF Check, Open
    <3> QED BY <1>2, <1>3, <1>4, <2>1, <3>1, <3>2
  <2>3. CASE record # None
    <3>1. Leave(r, "found")
      BY <1>6, <2>3 DEF Check
    <3>2. C2 \subseteq C
      BY <2>1, <2>3, <3>1, LeaveWakesOne DEF Stages, C, C2, Contenders
    <3>3. Open' = 0
      BY <2>1, <2>3 DEF Open
    <3> QED BY <1>2, <1>3, <1>4, <2>1, <3>2, <3>3
  <2> QED BY <2>2, <2>3
<1>7. ASSUME NEW r \in Requests, Complete(r) PROVE Bounded'
  <2>1. runs' = runs + 1 /\ fails' = fails /\ record' = record /\ Open' = Open
    BY <1>7 DEF Complete, Open
  <2>2. r \in C /\ C2 \subseteq C \ {r}
    BY <1>7 DEF Complete, TypesKept, C, C2, Contenders
  <2>3. Cardinality(C2) <= Cardinality(C) - 1
    BY <1>1, <2>2, OneMoreOrLess
  <2> QED BY <1>2, <1>3, <1>4, <2>1, <2>3
<1>8. ASSUME NEW r \in Requests, Store(r) PROVE Bounded'
  <2>1. /\ runs' = runs /\ fails' = fails
        /\ record' # None /\ Leave(r, "done") /\ Open' = 0
    BY <1>8 DEF Store, Open
  <2>2. C2 \subseteq C
    BY <2>1, LeaveWakesOne DEF Stages, C, C2, Contenders
  <2> QED BY <1>2, <1>3, <1>4, <2>1, <2>2
<1>9. ASSUME NEW r \in Requests, Fail(r) PROVE Bounded'
  <2>1. /\ runs' = runs /\ fails' = fails + 1
        /\ record' = record /\ Leave(r, "failed")
    BY <1>9 DEF Fail
  <2>2. PICK w : C2 \subseteq C \cup {w}
    BY <2>1, LeaveWakesOne DEF Stages, C, C2, Contenders
  <2>3. Cardinality(C2) <= Cardinality(C) + 1
    BY <1>1, <2>2, OneMoreOrLess
  <2> QED BY <1>2, <1>3, <1>4, <2>1, <2>3
<1>10. ASSUME NEW r \in Requests, CancelWaiting(r) PROVE Bounded'
  <2>1. runs' = runs /\ fails' = fails + 1 /\ record' = record
    BY <1>10 DEF CancelWaiting
  <2>2. C2 \subseteq C
    BY <1>10 DEF CancelWaiting, TypesKept, C, C2, Contenders
  <2> QED BY <1>2, <1>3, <1>4, <2>1, <2>2
<1>11. ASSUME NEW r \in Requests, Answer(r) PROVE Bounded'
  <2>1. runs' = runs /\ fails' = fails /\ record' = record /\ Open' = Open
    BY <1>11 DEF Answer, Open
  <2>2. C2 \subseteq C
    BY <1>11 DEF Answer, TypesKept, C, C2, Contenders
  <2> QED BY <1>2, <1>3, <1>4, <2>1, <2>2
<1>12. ASSUME Expire PROVE Bounded'
  <2>1. expiries \in Nat /\ expiries' = expiries + 1
    BY <1>12 DEF Expire, TypesKept
  <2> QED BY <2>1
<1>13. ASSUME UNCHANGED vars PROVE Bounded'
  BY <1>13 DEF vars, Bounded, Contenders, Open
<1> QED
  BY <1>5, <1>6, <1>7, <1>8, <1>9, <1>10, <1>11, <1>12, <1>13 DEF Next, Step

(***************************************************************************)
(* Who holds and who waits for the locks                                   *)
(***************************************************************************)

(* The lock goes to the first that waits for it, and to nobody else.       *)
LEMMA LeaveHandsOver ==
  ASSUME None \notin Requests, TypesKept, Locks,
         NEW r \in Requests, pc[r] \in Holding,
         NEW stage \in {"found", "done", "failed"}, Leave(r, stage), myLock' = myLock
  PROVE  /\ Locks'
         /\ \A q \in Requests :
              pc'[q] \in {"running", "storing"} => q # r /\ pc[q] = pc'[q]
<1> USE DEF Locks
<1> DEFINE l == myLock[r]
<1>1. l \in Requests /\ owner[l] = r
  BY DEF HoldersOwn
<1>2. pc \in [Requests -> Stages]
  BY DEF TypesKept
<1>3. \A q \in Requests : q # r /\ pc[q] \in Holding => myLock[q] # l
  BY <1>1 DEF HoldersOwn
<1>4. \A k \in Requests : \A i \in 1 .. Len(waiters[k]) :
        waiters[k][i] \in Requests \ {r}
  BY DEF LocksTyped, QueuesWait, Holding
<1> HIDE DEF l
<1>0. /\ \A k \in Requests \ {l} : owner[k] # r
      /\ \A k \in Requests : owner[k] # None => owner[k] \in Requests
  BY <1>1 DEF OwnersHold, LocksTyped
<1>5. CASE waiters[l] = <<>>
  <2>1. /\ owner' = [owner EXCEPT ![l] = None]
        /\ pc' = [pc EXCEPT ![r] = stage]
        /\ waiters' = waiters
    BY <1>5 DEF Leave, l
  <2>2. LocksTyped'
    BY <1>1, <2>1 DEF LocksTyped
  <2>3. \A q \in Requests : pc'[q] = IF q = r THEN stage ELSE pc[q]
    BY <1>2, <2>1
  <2>4. QueuesWait'
    BY <1>4, <2>1, <2>3 DEF QueuesWait
  <2>5. HoldersOwn'
    BY <1>1, <1>3, <2>1, <2>3 DEF HoldersOwn, Holding, LocksTyped
  <2>6. \A k \in Requests : owner'[k] = IF k = l THEN None ELSE owner[k]
    BY <1>1, <2>1 DEF LocksTyped
  <2>7. OwnersHold'
    BY <1>0, <2>3, <2>6 DEF OwnersHold
  <2> QED BY <2>2, <2>3, <2>4, <2>5, <2>7
<1>6. CASE waiters[l] # <<>>
  <2> DEFINE w == Head(waiters[l])
  <2>1. /\ owner' = [owner EXCEPT ![l] = w]
        /\ pc' = [pc EXCEPT ![r] = stage, ![w] = "checking"]
        /\ waiters' = [waiters EXCEPT ![l] = Tail(waiters[l])]
    BY <1>6 DEF Leave, l
  <2>2. /\ waiters[l] \in Seq(Requests)
        /\ Tail(waiters[l]) \in Seq(Requests)
        /\ Len(waiters[l]) \in Nat \ {0}
        /\ Len(Tail(waiters[l])) = Len(waiters[l]) - 1
        /\ \A i \in 1 .. Len(waiters[l]) - 1 : Tail(waiters[l])[i] = waiters[l][i + 1]
        /\ w = waiters[l][1]
    BY <1>1, <1>6 DEF LocksTyped
  <2>3. w \in Requests /\ w # r /\ pc[w] = "waiting" /\ myLock[w] = l
    BY <1>1, <1>4, <2>2 DEF QueuesWait
  <2> HIDE DEF w
  <2>4. LocksTyped'
    BY <1>1, <2>1, <2>2, <2>3 DEF LocksTyped
  <2>5. \A q \in Requests : pc'[q] = IF q = r THEN stage
                                    ELSE IF q = w THEN "checking" ELSE pc[q]
    BY <1>2, <2>1, <2>3
  <2>6. \A k \in Requests :
          waiters'[k] = IF k = l THEN Tail(waiters[l]) ELSE waiters[k]
    BY <2>1 DEF LocksTyped
  <2>7. ASSUME NEW k \in Requests
        PROVE  /\ \A i \in 1 .. Len(waiters'[k]) :
                    pc'[waiters'[k][i]] = "waiting" /\ myLock[waiters'[k][i]] = k
               /\ \A i, j \in 1 .. Len(waiters'[k]) :
                    waiters'[k][i] = waiters'[k][j] => i = j
    <3>1. CASE k = l
      <4>1. \A i \in 1 .. Len(waiters[l]) - 1 :
              /\ Tail(waiters[l])[i] = waiters[l][i + 1]
              /\ i + 1 \in 1 .. Len(waiters[l]) /\ i + 1 # 1
              /\ waiters[l][i + 1] # w
        BY <1>1, <2>2 DEF QueuesWait
      <4>2. ASSUME NEW i \in 1 .. Len(waiters[l]) - 1
            PROVE  /\ pc'[Tail(waiters[l])[i]] = "waiting"
                   /\ myLock[Tail(waiters[l])[i]] = l
        <5> DEFINE x == waiters[l][i + 1]
        <5>1. /\ Tail(waiters[l])[i] = x
              /\ i + 1 \in 1 .. Len(waiters[l]) /\ x # w
          BY <4>1
        <5>2. /\ x \in Requests \ {r}
              /\ pc[x] = "waiting" /\ myLock[x] = l
          BY <1>1, <1>4, <5>1 DEF QueuesWait
        <5> HIDE DEF x
        <5>3. pc'[x] = pc[x]
          BY <2>5, <5>1, <5>2
        <5> QED BY <5>1, <5>2, <5>3
      <4>3. \A i, j \in 1 .. Len(waiters[l]) - 1 :
              Tail(waiters[l])[i] = Tail(waiters[l])[j] => i = j
        BY <1>1, <2>2, <4>1 DEF QueuesWait
      <4>4. waiters'[k] = Tail(waiters[l]) /\ Len(waiters'[k]) = Len(waiters[l]) - 1
        BY <2>2, <2>6, <3>1
      <4> HIDE DEF w
      <4> QED BY <3>1, <4>2, <4>3, <4>4
    <3>2. CASE k # l
      BY <1>4, <2>3, <2>5, <2>6, <3>2 DEF QueuesWait
    <3> QED BY <3>1, <3>2
  <2>8. QueuesWait'
    BY <2>7 DEF QueuesWait
  <2>9. ASSUME NEW q \in Requests
        PROVE  /\ pc'[q] \in Holding =>
                    myLock[q] \in Requests /\ owner'[myLock[q]] = q
               /\ pc'[q] = "waiting" => myLock[q] \in Requests
    <3>1. owner'[l] = w /\ \A k \in Requests \ {l} : owner'[k] = owner[k]
      BY <1>1, <2>1 DEF LocksTyped
    <3>2. CASE q = r
      BY <2>5, <3>2 DEF Holding
    <3>3. CASE q = w
      BY <1>1, <2>3, <2>5, <3>1, <3>3
    <3>4. CASE q # r /\ q # w
      <4>1. pc'[q] = pc[q]
        BY <2>5, <3>4
      <4> QED BY <1>3, <3>1, <3>4, <4>1 DEF HoldersOwn
    <3> QED BY <3>2, <3>3, <3>4
  <2>10. HoldersOwn'
    BY <2>9 DEF HoldersOwn
  <2>11. \A k \in Requests : owner'[k] = IF k = l THEN w ELSE owner[k]
    BY <1>1, <2>1 DEF LocksTyped
  <2>12. OwnersHold'
    BY <1>0, <2>3, <2>5, <2>11 DEF OwnersHold, Holding
  <2> QED BY <2>4, <2>5, <2>8, <2>10, <2>12
<1> QED BY <1>5, <1>6

(* A stage of a request that neither takes a lock nor leaves one.          *)
LEMMA StageChanges ==
  ASSUME TypesKept, Locks, NEW r \in Requests, NEW stage,
         pc[r] # "waiting", stage # "waiting",
         pc[r] \in Holding <=> stage \in Holding,
         pc' = [pc EXCEPT ![r] = stage], UNCHANGED <<owner, waiters, myLock>>
  PROVE  Locks'
<1> USE DEF Locks
<1>1. \A q \in Requests : pc'[q] = IF q = r THEN stage ELSE pc[q]
  BY DEF TypesKept
<1>2. \A k \in Requests : \A i \in 1 .. Len(waiters[k]) :
        waiters[k][i] \in Requests \ {r}
  BY DEF LocksTyped, QueuesWait
<1>3. LocksTyped' /\ QueuesWait'
  BY <1>1, <1>2 DEF LocksTyped, QueuesWait
<1>4. HoldersOwn'
  BY <1>1 DEF HoldersOwn
<1>5. OwnersHold'
  BY <1>1 DEF OwnersHold, LocksTyped
<1> QED BY <1>3, <1>4, <1>5

(* What is left of a queue without its i-th member.                        *)
LEMMA WithoutOne ==
  ASSUME NEW S, NEW s \in Seq(S), NEW i \in DOMAIN s
  PROVE  /\ RemoveAt(s, i) \in Seq(S)
         /\ Len(RemoveAt(s, i)) = Len(s) - 1
         /\ \A j \in 1 .. Len(s) - 1 :
              RemoveAt(s, i)[j] = IF j < i THEN s[j] ELSE s[j + 1]
<1>1. i \in 1 .. Len(s) /\ Len(s) \in Nat
  OBVIOUS
<1> DEFINE a == SubSeq(s, 1, i - 1)
           b == SubSeq(s, i + 1, Len(s))
<1>2. /\ a \in Seq(S) /\ Len(a) = i - 1
      /\ \A j \in 1 .. i - 1 : a[j] = s[j]
  BY <1>1
<1>3. /\ b \in Seq(S) /\ Len(b) = Len(s) - i
      /\ \A j \in 1 .. Len(s) - i : b[j] = s[i + j]
  BY <1>1
<1> HIDE DEF a, b
<1>4. /\ a \o b \in Seq(S) /\ Len(a \o b) = Len(s) - 1
      /\ \A j \in 1 .. Len(s) - 1 :
           (a \o b)[j] = IF j < i THEN a[j] ELSE b[j - (i - 1)]
  BY <1>1, <1>2, <1>3
<1>5. \A j \in 1 .. Len(s) - 1 : (a \o b)[j] = IF j < i THEN s[j] ELSE s[j + 1]
  BY <1>1, <1>2, <1>3, <1>4
<1>6. RemoveAt(s, i) = a \o b
  BY DEF RemoveAt, a, b
<1> QED BY <1>4, <1>5, <1>6

(* Whoever is cancelled while it waits is in the queue no more.            *)
LEMMA WaiterLeaves ==
  ASSUME TypesKept, Locks, NEW r \in Requests, CancelWaiting(r)
  PROVE  Locks'
<1> USE DEF Locks
<1> DEFINE l == myLock[r]
<1>1. PICK i \in DOMAIN waiters[l] :
        /\ waiters[l][i] = r
        /\ waiters' = [waiters EXCEPT ![l] = RemoveAt(waiters[l], i)]
  BY DEF CancelWaiting
<1>2. /\ l \in Requests /\ pc[r] = "waiting"
      /\ owner' = owner /\ myLock' = myLock
      /\ \A q \in Requests : pc'[q] = IF q = r THEN "failed" ELSE pc[q]
  BY DEF CancelWaiting, HoldersOwn, TypesKept
<1> DEFINE s == waiters[l]
           t == RemoveAt(s, i)
<1>3. /\ s \in Seq(Requests) /\ i \in DOMAIN s /\ i \in 1 .. Len(s)
      /\ Len(s) \in Nat /\ s[i] = r
      /\ \A k \in Requests : waiters'[k] = IF k = l THEN t ELSE waiters[k]
  BY <1>1, <1>2 DEF LocksTyped
<1>4. /\ t \in Seq(Requests) /\ Len(t) = Len(s) - 1
      /\ \A j \in 1 .. Len(s) - 1 : t[j] = IF j < i THEN s[j] ELSE s[j + 1]
  BY <1>3, WithoutOne
<1>5. waiters' = [waiters EXCEPT ![l] = t]
  BY <1>1
<1>6. /\ \A j \in 1 .. Len(s) : pc[s[j]] = "waiting" /\ myLock[s[j]] = l
      /\ \A j, k \in 1 .. Len(s) : s[j] = s[k] => j = k
      /\ \A j \in 1 .. Len(s) : s[j] \in Requests
  BY <1>2, <1>3 DEF QueuesWait
<1> HIDE DEF t, s, l
<1>7. LocksTyped'
  BY <1>2, <1>4, <1>5 DEF LocksTyped
<1>8. \A j \in 1 .. Len(s) - 1 :
        \E k \in 1 .. Len(s) : k # i /\ t[j] = s[k] /\ k = IF j < i THEN j ELSE j + 1
  BY <1>3, <1>4
<1>9. ASSUME NEW j \in 1 .. Len(t)
      PROVE  pc'[t[j]] = "waiting" /\ myLock'[t[j]] = l
  <2>1. PICK k \in 1 .. Len(s) : k # i /\ t[j] = s[k]
    BY <1>4, <1>8
  <2>2. s[k] \in Requests /\ s[k] # r /\ pc[s[k]] = "waiting" /\ myLock[s[k]] = l
    BY <1>3, <1>6, <2>1
  <2> QED BY <1>2, <2>1, <2>2
<1>10. \A j, k \in 1 .. Len(t) : t[j] = t[k] => j = k
  BY <1>3, <1>4, <1>6, <1>8
<1>11. ASSUME NEW k \in Requests \ {l}
       PROVE  /\ \A j \in 1 .. Len(waiters[k]) :
                   pc'[waiters[k][j]] = "waiting" /\ myLock'[waiters[k][j]] = k
              /\ \A j, h \in 1 .. Len(waiters[k]) :
                   waiters[k][j] = waiters[k][h] => j = h
  <2>1. \A j \in 1 .. Len(waiters[k]) :
          /\ waiters[k][j] \in Requests
          /\ pc[waiters[k][j]] = "waiting" /\ myLock[waiters[k][j]] = k
    BY DEF LocksTyped, QueuesWait
  <2>2. \A j \in 1 .. Len(waiters[k]) : waiters[k][j] # r
    BY <2>1 DEF l
  <2>3. \A j, h \in 1 .. Len(waiters[k]) : waiters[k][j] = waiters[k][h] => j = h
    BY DEF QueuesWait
  <2> QED BY <1>2, <2>1, <2>2, <2>3
<1>12. ASSUME NEW k \in Requests
       PROVE  /\ \A j \in 1 .. Len(waiters'[k]) :
                   pc'[waiters'[k][j]] = "waiting" /\ myLock'[waiters'[k][j]] = k
              /\ \A j, h \in 1 .. Len(waiters'[k]) :
                   waiters'[k][j] = waiters'[k][h] => j = h
  <2>1. CASE k = l
    BY <1>3, <1>9, <1>10, <2>1
  <2>2. CASE k # l
    BY <1>3, <1>11, <2>2
  <2> QED BY <2>1, <2>2
<1>13. HoldersOwn' /\ OwnersHold'
  <2>0. pc[r] \notin Holding
    BY <1>2 DEF Holding
  <2>1. \A k \in Requests : owner[k] # None => owner[k] \in Requests \ {r}
    BY <2>0 DEF OwnersHold, LocksTyped
  <2>2. OwnersHold'
    BY <1>2, <2>1 DEF OwnersHold
  <2>3. HoldersOwn'
    BY <1>2 DEF HoldersOwn, Holding
  <2> QED BY <2>2, <2>3
<1>14. QueuesWait'
  BY <1>12 DEF QueuesWait
<1> QED BY <1>7, <1>13, <1>14

(* Every step keeps the locks, and whoever waits for one or holds it.      *)
LEMMA LocksInductive ==
  ASSUME None \notin Requests, TypesKept, LockHeld, Locks, [Next]_vars
  PROVE  Locks'
<1> USE DEF Locks
<1>1. ASSUME NEW r \in Requests, Arrive(r) PROVE Locks'
  <2> DEFINE l == IF lockOf = None THEN r ELSE lockOf
  <2>1. /\ l \in Requests /\ pc[r] = "new" /\ lockOf' = l
        /\ myLock' = [myLock EXCEPT ![r] = l] /\ record' = record
    BY <1>1 DEF Arrive, LockHeld
  <2>2. \A q \in Requests : myLock'[q] = IF q = r THEN l ELSE myLock[q]
    BY <2>1 DEF LocksTyped
  <2>3. \A k \in Requests : \A i \in 1 .. Len(waiters[k]) :
          waiters[k][i] \in Requests \ {r}
    BY <2>1 DEF LocksTyped, QueuesWait
  <2>5. CASE owner[l] = None
    <3>1. l = r /\ lockOf = None
      BY <2>5 DEF LockHeld
    <3>2. /\ owner' = [owner EXCEPT ![r] = r]
          /\ pc' = [pc EXCEPT ![r] = "checking"]
          /\ waiters' = waiters
      BY <1>1, <2>5, <3>1 DEF Arrive
    <3>3. \A q \in Requests : pc'[q] = IF q = r THEN "checking" ELSE pc[q]
      BY <3>2 DEF TypesKept
    <3>4. LocksTyped'
      BY <2>1, <3>2 DEF LocksTyped
    <3>5. QueuesWait'
      <4>1. ASSUME NEW k \in Requests, NEW i \in 1 .. Len(waiters[k])
            PROVE  /\ pc'[waiters[k][i]] = pc[waiters[k][i]]
                   /\ myLock'[waiters[k][i]] = myLock[waiters[k][i]]
        BY <2>2, <2>3, <3>3
      <4> QED BY <3>2, <4>1 DEF QueuesWait
    <3>6. HoldersOwn'
      BY <2>2, <2>5, <3>1, <3>2, <3>3 DEF HoldersOwn, Holding, LocksTyped
    <3>7. \A k \in Requests : owner'[k] = IF k = r THEN r ELSE owner[k]
      BY <3>2 DEF LocksTyped
    <3>8. \A k \in Requests : owner[k] # None => owner[k] \in Requests \ {r}
      BY <2>1 DEF OwnersHold, LocksTyped, Holding
    <3>9. OwnersHold'
      BY <2>2, <3>1, <3>3, <3>7, <3>8 DEF OwnersHold, Holding
    <3> QED BY <3>4, <3>5, <3>6, <3>9
  <2>6. CASE owner[l] # None
    <3>1. /\ owner' = owner
          /\ pc' = [pc EXCEPT ![r] = "waiting"]
          /\ waiters' = [waiters EXCEPT ![l] = Append(waiters[l], r)]
      BY <1>1, <2>6 DEF Arrive
    <3>2. \A q \in Requests : pc'[q] = IF q = r THEN "waiting" ELSE pc[q]
      BY <3>1 DEF TypesKept
    <3>3. LocksTyped'
      BY <2>1, <3>1 DEF LocksTyped
    <3>4. /\ waiters[l] \in Seq(Requests)
          /\ Len(waiters[l]) \in Nat
          /\ Len(Append(waiters[l], r)) = Len(waiters[l]) + 1
          /\ \A i \in 1 .. Len(waiters[l]) : Append(waiters[l], r)[i] = waiters[l][i]
          /\ Append(waiters[l], r)[Len(waiters[l]) + 1] = r
      BY <2>1 DEF LocksTyped
    <3>5. \A k \in Requests :
            waiters'[k] = IF k = l THEN Append(waiters[l], r) ELSE waiters[k]
      BY <3>1 DEF LocksTyped
    <3> HIDE DEF l
    <3>6. ASSUME NEW k \in Requests
          PROVE  /\ \A i \in 1 .. Len(waiters'[k]) :
                      /\ pc'[waiters'[k][i]] = "waiting"
                      /\ myLock'[waiters'[k][i]] = k
                 /\ \A i, j \in 1 .. Len(waiters'[k]) :
                      waiters'[k][i] = waiters'[k][j] => i = j
      <4>1. CASE k = l
        <5> DEFINE s == Append(waiters[l], r)
        <5>1. \A i \in 1 .. Len(waiters[l]) + 1 :
                \/ i = Len(waiters[l]) + 1 /\ s[i] = r
                \/ i \in 1 .. Len(waiters[l]) /\ s[i] = waiters[l][i] /\ s[i] # r
          BY <2>1, <2>3, <3>4
        <5> HIDE DEF s
        <5>2. \A i \in 1 .. Len(waiters[l]) + 1 :
                pc'[s[i]] = "waiting" /\ myLock'[s[i]] = l
          BY <2>1, <2>2, <2>3, <3>2, <5>1 DEF QueuesWait
        <5>3. \A i, j \in 1 .. Len(waiters[l]) + 1 : s[i] = s[j] => i = j
          BY <2>1, <5>1 DEF QueuesWait
        <5>4. waiters'[k] = s /\ Len(s) = Len(waiters[l]) + 1
          BY <3>4, <3>5, <4>1 DEF s
        <5> QED BY <4>1, <5>2, <5>3, <5>4
      <4>2. CASE k # l
        BY <2>2, <2>3, <3>2, <3>5, <4>2 DEF QueuesWait
      <4> QED BY <4>1, <4>2
    <3>7. QueuesWait'
      BY <3>6 DEF QueuesWait
    <3>8. HoldersOwn'
      BY <2>1, <2>2, <3>1, <3>2 DEF HoldersOwn, Holding
    <3>9. \A k \in Requests : owner[k] # None => owner[k] \in Requests \ {r}
      BY <2>1 DEF OwnersHold, LocksTyped, Holding
    <3>10. OwnersHold'
      BY <2>2, <3>1, <3>2, <3>9 DEF OwnersHold
    <3> QED BY <3>3, <3>7, <3>8, <3>10
  <2> QED BY <2>5, <2>6
<1>2. ASSUME NEW r \in Requests, Check(r) PROVE Locks'
  <2>1. CASE record = None
    BY <1>2, <2>1, StageChanges DEF Check, Holding
  <2>2. CASE record # None
    BY <1>2, <2>2, LeaveHandsOver DEF Check, Holding
  <2> QED BY <2>1, <2>2
<1>3. ASSUME NEW r \in Requests, Complete(r) PROVE Locks'
  BY <1>3, StageChanges DEF Complete, Holding
<1>4. ASSUME NEW r \in Requests, Store(r) PROVE Locks'
  BY <1>4, LeaveHandsOver DEF Store, Holding
<1>5. ASSUME NEW r \in Requests, Fail(r) PROVE Locks'
  BY <1>5, LeaveHandsOver DEF Fail
<1>6. ASSUME NEW r \in Requests, CancelWaiting(r) PROVE Locks'
  BY <1>6, WaiterLeaves
<1>7. ASSUME NEW r \in Requests, Answer(r) PROVE Locks'
  <2> DEFINE stage == IF SameBody(r) THEN "replayed" ELSE "conflict"
  <2>1. stage \in {"replayed", "conflict"}
    OBVIOUS
  <2>2. /\ pc[r] = "found" /\ pc' = [pc EXCEPT ![r] = stage]
        /\ UNCHANGED <<owner, waiters, myLock>>
    BY <1>7 DEF Answer
  <2> HIDE DEF stage
  <2> QED BY <2>1, <2>2, StageChanges DEF Holding
<1>8. ASSUME Expire PROVE Locks'
  BY <1>8 DEF Expire, LocksTyped, QueuesWait, HoldersOwn, OwnersHold
<1>9. ASSUME UNCHANGED vars PROVE Locks'
  BY <1>9 DEF vars, LocksTyped, QueuesWait, HoldersOwn, OwnersHold
<1> QED
  BY <1>1, <1>2, <1>3, <1>4, <1>5, <1>6, <1>7, <1>8, <1>9 DEF Next, Step

(***************************************************************************)
(* One runner while nothing fails                                          *)
(***************************************************************************)

(* While nothing fails, is cancelled or expires, all share one lock.       *)
LEMMA OneLockInductive ==
  ASSUME None \notin Requests, TypesKept, LockHeld, Locks, OneLock, [Next]_vars,
         fails' = fails, expiries' = expiries
  PROVE  OneLock'
<1> USE DEF Locks
<1>1. ASSUME NEW r \in Requests, Arrive(r) PROVE OneLock'
  <2> DEFINE l == IF lockOf = None THEN r ELSE lockOf
  <2>1. /\ pc[r] = "new" /\ lockOf' = l /\ record' = record
        /\ \A q \in Requests : myLock'[q] = IF q = r THEN l ELSE myLock[q]
        /\ \A q \in Requests \ {r} : pc'[q] = pc[q]
        /\ pc'[r] \in {"checking", "waiting"}
    BY <1>1 DEF Arrive, LocksTyped, TypesKept
  <2>2. record = None /\ lockOf = None =>
          \A q \in Requests : pc[q] \notin Holding \cup {"waiting"}
    BY DEF OneLock, HoldersOwn
  <2> QED BY <2>1, <2>2 DEF OneLock, Holding
<1>2. ASSUME NEW r \in Requests, Check(r) PROVE OneLock'
  <2>1. CASE record = None
    BY <1>2, <2>1 DEF Check, OneLock, TypesKept, Holding
  <2>2. CASE record # None
    <3>1. \A q \in Requests :
            pc'[q] \in {"running", "storing"} => pc[q] = pc'[q]
      BY <1>2, <2>2, LeaveHandsOver DEF Check, Holding
    <3>2. record' = record
      BY <1>2 DEF Check
    <3> QED BY <2>2, <3>1, <3>2 DEF OneLock
  <2> QED BY <2>1, <2>2
<1>3. ASSUME NEW r \in Requests, Complete(r) PROVE OneLock'
  BY <1>3 DEF Complete, OneLock, TypesKept, Holding
<1>4. ASSUME NEW r \in Requests, Store(r) PROVE OneLock'
  <2>1. /\ pc[r] = "storing" /\ Leave(r, "done") /\ record' = r
        /\ myLock' = myLock
    BY <1>4 DEF Store
  <2>2. \A q \in Requests :
          pc'[q] \in {"running", "storing"} => q # r /\ pc[q] = pc'[q]
    BY <2>1, LeaveHandsOver DEF Holding
  <2>3. record = None
    BY <2>1 DEF OneLock
  <2>4. \A q \in Requests : pc[q] \in {"running", "storing"} => q = r
    BY <2>1, <2>3 DEF OneLock, HoldersOwn, Holding
  <2> QED BY <2>1, <2>2, <2>4 DEF OneLock
<1>5. ASSUME NEW r \in Requests, Fail(r) PROVE OneLock'
  BY <1>5 DEF Fail, TypesKept
<1>6. ASSUME NEW r \in Requests, CancelWaiting(r) PROVE OneLock'
  BY <1>6 DEF CancelWaiting, TypesKept
<1>7. ASSUME NEW r \in Requests, Answer(r) PROVE OneLock'
  BY <1>7 DEF Answer, OneLock, TypesKept, Holding
<1>8. ASSUME Expire PROVE OneLock'
  BY <1>8 DEF Expire, TypesKept
<1>9. ASSUME UNCHANGED vars PROVE OneLock'
  BY <1>9 DEF vars, OneLock
<1> QED
  BY <1>1, <1>2, <1>3, <1>4, <1>5, <1>6, <1>7, <1>8, <1>9 DEF Next, Step

(***************************************************************************)
(* Idempotency: the invariant holds, and what it says                      *)
(***************************************************************************)

(* At first nothing holds or wants a lock, and one newcomer may make it.   *)
LEMMA InitIInv ==
  ASSUME Init
  PROVE  IInv
<1>1. TypesKept /\ LockHeld
  BY RequestsAssumption DEF Init, TypesKept, LockHeld, Stages
<1>2. Contenders = {}
  BY DEF Init, Contenders
<1>3. Bounded
  BY <1>2, FS_EmptySet DEF Init, Bounded, Open
<1>4. Locks /\ OneLock
  BY DEF Init, Locks, LocksTyped, QueuesWait, HoldersOwn, OwnersHold, OneLock,
         Holding
<1> QED BY <1>1, <1>3, <1>4 DEF IInv

(* Every step keeps the invariant: the counters only grow.                 *)
LEMMA NextIInv ==
  ASSUME IInv, [Next]_vars
  PROVE  IInv'
<1> USE RequestsAssumption
<1>1. TypesKept' /\ LockHeld' /\ Locks'
  BY TypesInductive, LocksInductive DEF IInv
<1>2. fails \in Nat /\ expiries \in Nat
  BY DEF IInv, TypesKept
<1>3. fails' \in {fails, fails + 1} /\ expiries' \in {expiries, expiries + 1}
  BY DEF Next, Step, Arrive, Check, Complete, Store, Fail, CancelWaiting, Answer,
         Expire, vars
<1>4. ASSUME expiries' = 0 PROVE Bounded'
  <2>1. expiries = 0 /\ expiries' = expiries
    BY <1>2, <1>3, <1>4
  <2> QED BY <2>1, BoundedInductive DEF IInv
<1>5. ASSUME fails' = 0, expiries' = 0 PROVE OneLock'
  <2>1. fails = 0 /\ expiries = 0 /\ fails' = fails /\ expiries' = expiries
    BY <1>2, <1>3, <1>5
  <2> QED BY <2>1, OneLockInductive DEF IInv
<1> QED BY <1>1, <1>4, <1>5 DEF IInv

(* While nothing fails at most one request runs the operation.             *)
LEMMA IInvGuards ==
  ASSUME IInv
  PROVE  RunsGuarded
<1>1. ASSUME expiries = 0 PROVE runs <= 1 + 2 * fails
  <2>1. Bounded
    BY <1>1 DEF IInv
  <2>2. Contenders \in SUBSET Requests
    BY DEF Contenders
  <2>3. Cardinality(Contenders) \in Nat
    BY <2>2, OneMoreOrLess, RequestsAssumption
  <2>4. runs \in Nat /\ fails \in Nat /\ Open \in {0, 1}
    BY DEF IInv, TypesKept, Open
  <2> QED BY <2>1, <2>3, <2>4 DEF Bounded
<1>2. ASSUME fails + expiries = 0,
             NEW q \in Requests, pc[q] \in {"running", "storing"},
             NEW r \in Requests, pc[r] \in {"running", "storing"}
      PROVE  q = r
  <2>1. OneLock /\ HoldersOwn
    BY <1>2 DEF IInv, TypesKept, Locks
  <2> QED BY <1>2, <2>1 DEF OneLock, HoldersOwn, Holding
<1> QED BY <1>1, <1>2 DEF RunsGuarded, OncePerKey, OneRunner

(* The types, who holds which lock included.                               *)
LEMMA IInvTypes ==
  ASSUME IInv
  PROVE  TypeOK
<1>1. lockOf \in Requests \cup {None}
  BY DEF IInv, LockHeld
<1>2. \A r, l \in Requests : owner[l] = r <=> myLock[r] = l /\ pc[r] \in Holding
  BY RequestsAssumption DEF IInv, Locks, HoldersOwn, OwnersHold
<1> QED BY <1>1, <1>2 DEF IInv, TypesKept, Locks, LocksTyped, TypeOK

(***************************************************************************)
(* InMemoryQueue: the inductive invariant                                  *)
(***************************************************************************)

(* A job is in one place at a time, ...                                    *)
OneCopy ==
  /\ \A i, k \in 1 .. Len(fifo) : fifo[i] = fifo[k] => i = k
  /\ Queue!QueuedJobs \cap (sleeping \cup Queue!RunningJobs) = {}
  /\ sleeping \cap Queue!RunningJobs = {}
  /\ \A t, u \in Queue!Busy : current[t] = current[u] => t = u

(* ... and in none once it has succeeded or was given up.                  *)
Apart ==
  /\ (Queue!QueuedJobs \cup sleeping \cup Queue!RunningJobs) \cap (done \cup failed) = {}
  /\ done \cap failed = {}
  /\ Queue!QueuedJobs \cup sleeping \cup Queue!RunningJobs \cup done \cup failed
       \subseteq pushed

RunsCounted ==
  /\ \A j \in Jobs : j \notin pushed \/ j \in Queue!QueuedJobs \cup sleeping
                       => jobRuns[j] = 0
  /\ \A t \in Tasks :
       /\ task[t] = "running" =>
            0 < jobRuns[current[t]] /\ jobRuns[current[t]] <= MaxAttempts[current[t]]
       /\ task[t] = "failed" => jobRuns[current[t]] < MaxAttempts[current[t]]

(* What close() has cancelled it still awaits, or it has ended.            *)
Closing ==
  /\ closes = 0 => closer = "out"
  /\ closer = "delayed" => awaited \subseteq Jobs
  /\ closer = "worker" => awaited \subseteq Tasks
  /\ sleeping \cap cancelled # {} =>
       closer = "delayed" /\ sleeping \cap cancelled \subseteq awaited
  /\ cancelled \cap Jobs \subseteq pushed
  /\ \A t \in Tasks \cap cancelled :
       /\ task[t] # "unborn"
       /\ task[t] # "ended" => closer = "worker" /\ t \in awaited
  /\ worker # None => worker \in Tasks /\ task[worker] # "unborn"

(* What join() has still to wait for.                                      *)
Joining ==
  /\ goal \subseteq pushed
  /\ closes = 0 => 
       /\ tracked = sleeping
       /\ joiner = "gather" => goal \cap sleeping \subseteq gathered
       /\ joiner \in {"queue", "returned"} => goal \cap sleeping = {}
       /\ joiner = "returned" =>
            goal \cap (Queue!QueuedJobs \cup Queue!RunningJobs) = {}

QueueInv ==
  /\ Queue!TypeOK /\ Queue!UnfinishedExact
  /\ OneCopy /\ Apart /\ RunsCounted /\ Closing /\ Joining

LEMMA SameCardinality == \A S : Queue!Cardinality(S) = Cardinality(S)
BY DEF Queue!Cardinality, Cardinality

(***************************************************************************)
(* The jobs in the queue, and those that run                               *)
(***************************************************************************)

LEMMA Appended ==
  ASSUME fifo \in Seq(Jobs), NEW j \in Jobs, fifo' = Append(fifo, j)
  PROVE  /\ fifo' \in Seq(Jobs) /\ Len(fifo') = Len(fifo) + 1
         /\ Queue!QueuedJobs' = Queue!QueuedJobs \cup {j}
         /\ \A i \in 1 .. Len(fifo) : fifo'[i] = fifo[i] /\ fifo[i] \in Queue!QueuedJobs
         /\ fifo'[Len(fifo) + 1] = j
<1>1. /\ Len(fifo) \in Nat /\ DOMAIN fifo = 1 .. Len(fifo)
      /\ fifo' \in Seq(Jobs) /\ Len(fifo') = Len(fifo) + 1
      /\ DOMAIN fifo' = 1 .. Len(fifo) + 1
      /\ \A i \in 1 .. Len(fifo) : fifo'[i] = fifo[i]
      /\ fifo'[Len(fifo) + 1] = j
  OBVIOUS
<1> QED BY <1>1 DEF Queue!QueuedJobs

LEMMA Popped ==
  ASSUME fifo \in Seq(Jobs), fifo # <<>>, fifo' = Tail(fifo),
         \A i, k \in 1 .. Len(fifo) : fifo[i] = fifo[k] => i = k
  PROVE  /\ fifo' \in Seq(Jobs) /\ Len(fifo') = Len(fifo) - 1
         /\ Head(fifo) \in Jobs /\ Head(fifo) \in Queue!QueuedJobs
         /\ Queue!QueuedJobs' = Queue!QueuedJobs \ {Head(fifo)}
         /\ \A i, k \in 1 .. Len(fifo') : fifo'[i] = fifo'[k] => i = k
<1>1. /\ Len(fifo) \in Nat \ {0} /\ DOMAIN fifo = 1 .. Len(fifo)
      /\ fifo' \in Seq(Jobs) /\ Len(fifo') = Len(fifo) - 1
      /\ DOMAIN fifo' = 1 .. Len(fifo) - 1
      /\ \A i \in 1 .. Len(fifo) - 1 : fifo'[i] = fifo[i + 1]
      /\ Head(fifo) = fifo[1] /\ Head(fifo) \in Jobs
  OBVIOUS
<1>2. ASSUME NEW i \in 1 .. Len(fifo), i # 1
      PROVE  i - 1 \in 1 .. Len(fifo) - 1 /\ fifo'[i - 1] = fifo[i]
  <2>1. i - 1 \in 1 .. Len(fifo) - 1 /\ (i - 1) + 1 = i
    BY <1>1, <1>2
  <2> QED BY <1>1, <2>1
<1>3. ASSUME NEW x \in Queue!QueuedJobs, x # Head(fifo)
      PROVE  x \in Queue!QueuedJobs'
  <2>1. PICK i \in 1 .. Len(fifo) : x = fifo[i]
    BY <1>1, <1>3 DEF Queue!QueuedJobs
  <2>2. i # 1 /\ i - 1 \in DOMAIN fifo' /\ x = fifo'[i - 1]
    BY <1>1, <1>2, <1>3, <2>1
  <2> QED BY <2>2 DEF Queue!QueuedJobs
<1>4. Queue!QueuedJobs' \subseteq Queue!QueuedJobs \ {Head(fifo)}
  BY <1>1 DEF Queue!QueuedJobs
<1>5. Head(fifo) \in Queue!QueuedJobs
  BY <1>1 DEF Queue!QueuedJobs
<1> QED BY <1>1, <1>3, <1>4, <1>5

LEMMA Started ==
  ASSUME None \notin Jobs, current \in [Tasks -> Jobs \cup {None}],
         NEW t \in Tasks, current[t] = None, NEW j \in Jobs,
         current' = [current EXCEPT ![t] = j]
  PROVE  /\ Queue!Busy' = Queue!Busy \cup {t}
         /\ Queue!RunningJobs' = Queue!RunningJobs \cup {j}
         /\ t \notin Queue!Busy
<1>1. \A u \in Tasks : current'[u] = IF u = t THEN j ELSE current[u]
  OBVIOUS
<1>2. Queue!Busy' = Queue!Busy \cup {t} /\ t \notin Queue!Busy
  BY <1>1 DEF Queue!Busy
<1> QED BY <1>1, <1>2 DEF Queue!RunningJobs, Queue!Busy

LEMMA Left ==
  ASSUME current \in [Tasks -> Jobs \cup {None}],
         \A u, v \in Queue!Busy : current[u] = current[v] => u = v,
         NEW t \in Tasks, current[t] # None,
         current' = [current EXCEPT ![t] = None]
  PROVE  /\ Queue!Busy' = Queue!Busy \ {t} /\ t \in Queue!Busy
         /\ Queue!RunningJobs' = Queue!RunningJobs \ {current[t]}
         /\ current[t] \in Queue!RunningJobs /\ current[t] \in Jobs
<1>1. \A u \in Tasks : current'[u] = IF u = t THEN None ELSE current[u]
  OBVIOUS
<1>2. Queue!Busy' = Queue!Busy \ {t} /\ t \in Queue!Busy
  BY <1>1 DEF Queue!Busy
<1>3. \A u \in Queue!Busy \ {t} : current'[u] = current[u] /\ current[u] # current[t]
  BY <1>1, <1>2 DEF Queue!Busy
<1> QED BY <1>1, <1>2, <1>3 DEF Queue!RunningJobs, Queue!Busy

(* The busy tasks can be counted.                                          *)
LEMMA BusyCounted ==
  /\ IsFiniteSet(Queue!Busy) /\ Cardinality(Queue!Busy) \in Nat
  /\ \A t \in Tasks :
       IF t \in Queue!Busy
         THEN /\ Cardinality(Queue!Busy \ {t}) = Cardinality(Queue!Busy) - 1
              /\ Cardinality(Queue!Busy) > 0
         ELSE Cardinality(Queue!Busy \cup {t}) = Cardinality(Queue!Busy) + 1
<1>1. Queue!Busy \subseteq Tasks
  BY DEF Queue!Busy
<1>2. IsFiniteSet(Queue!Busy)
  BY <1>1, QueueAssumption, FS_Subset
<1>3. Cardinality(Queue!Busy) \in Nat
  BY <1>2, FS_CardinalityType
<1>4. ASSUME NEW t \in Queue!Busy
      PROVE  /\ Cardinality(Queue!Busy \ {t}) = Cardinality(Queue!Busy) - 1
             /\ Cardinality(Queue!Busy) > 0
  BY <1>2, <1>3, FS_RemoveElement, FS_EmptySet
<1>5. ASSUME NEW t \in Tasks \ Queue!Busy
      PROVE  Cardinality(Queue!Busy \cup {t}) = Cardinality(Queue!Busy) + 1
  BY <1>2, FS_AddElement
<1> QED BY <1>2, <1>3, <1>4, <1>5

(***************************************************************************)
(* Every step keeps the invariant                                          *)
(***************************************************************************)

(* Steps that move no job.                                                 *)
LEMMA PlacesStay ==
  ASSUME Queue!UnfinishedExact, OneCopy, Apart, RunsCounted,
         UNCHANGED <<fifo, unfinished, sleeping, task, current, pushed, done, failed,
                     jobRuns>>
  PROVE  /\ Queue!UnfinishedExact' /\ OneCopy' /\ Apart' /\ RunsCounted'
         /\ Queue!QueuedJobs' = Queue!QueuedJobs
         /\ Queue!RunningJobs' = Queue!RunningJobs
<1>1. /\ Queue!QueuedJobs' = Queue!QueuedJobs /\ Queue!Busy' = Queue!Busy
      /\ Queue!RunningJobs' = Queue!RunningJobs
  BY DEF Queue!QueuedJobs, Queue!Busy, Queue!RunningJobs
<1>2. Queue!UnfinishedExact'
  BY <1>1 DEF Queue!UnfinishedExact
<1>3. OneCopy' /\ Apart'
  BY <1>1 DEF OneCopy, Apart
<1>4. RunsCounted'
  BY <1>1 DEF RunsCounted
<1> QED BY <1>1, <1>2, <1>3, <1>4

(* push(), from another task's turn.                                       *)
LEMMA PushKeeps ==
  ASSUME QueueInv, NEW j \in Jobs, Queue!Push(j)
  PROVE  QueueInv'
<1> USE DEF QueueInv
<1>1. /\ j \notin pushed /\ pushed' = pushed \cup {j}
      /\ UNCHANGED <<current, cancelled, closer, awaited, closes, joiner, gathered,
                     goal, done, failed, jobRuns, interrupts>>
      /\ \/ /\ fifo' = Append(fifo, j) /\ unfinished' = unfinished + 1
            /\ sleeping' = sleeping /\ tracked' = tracked
         \/ /\ fifo' = fifo /\ unfinished' = unfinished
            /\ sleeping' = sleeping \cup {j} /\ tracked' = tracked \cup {j}
  BY DEF Queue!Push, Queue!Put, Queue!delayVars, Queue!queueVars, Queue!closeVars,
         Queue!joinVars
<1>2. \/ worker' = worker /\ task' = task
      \/ \E t \in Tasks : /\ task[t] = "unborn" /\ worker' = t
                          /\ task' = [task EXCEPT ![t] = "idle"]
  BY DEF Queue!Push, Queue!EnsureWorker
<1>3. /\ \A t \in Tasks :
           task'[t] = task[t] \/ (task[t] = "unborn" /\ task'[t] = "idle")
      /\ worker' # None =>
           (worker' = worker /\ task' = task) \/ task'[worker'] = "idle"
      /\ task' \in [Tasks -> {"unborn", "idle", "running", "failed", "ended"}]
      /\ worker' \in Tasks \cup {None}
  BY <1>2, QueueAssumption DEF Queue!TypeOK
<1>4. Queue!Busy' = Queue!Busy /\ Queue!RunningJobs' = Queue!RunningJobs
  BY <1>1 DEF Queue!Busy, Queue!RunningJobs
<1>5. /\ Queue!QueuedJobs' \cup sleeping' = Queue!QueuedJobs \cup sleeping \cup {j}
      /\ fifo' \in Seq(Jobs)
      /\ \/ Queue!QueuedJobs' = Queue!QueuedJobs
         \/ Queue!QueuedJobs' = Queue!QueuedJobs \cup {j} /\ sleeping' = sleeping
      /\ unfinished' = Len(fifo') + Cardinality(Queue!Busy)
  <2>1. CASE /\ fifo' = Append(fifo, j) /\ unfinished' = unfinished + 1
             /\ sleeping' = sleeping
    <3>1. Len(fifo) \in Nat /\ Cardinality(Queue!Busy) \in Nat
      BY BusyCounted DEF Queue!TypeOK
    <3> QED BY <2>1, <3>1, Appended, SameCardinality
            DEF Queue!TypeOK, Queue!UnfinishedExact
  <2>2. CASE /\ fifo' = fifo /\ unfinished' = unfinished
             /\ sleeping' = sleeping \cup {j}
    <3>1. Queue!QueuedJobs' = Queue!QueuedJobs
      BY <2>2 DEF Queue!QueuedJobs
    <3> QED BY <1>1, <2>2, <3>1, SameCardinality DEF Queue!TypeOK, Queue!UnfinishedExact
  <2> QED BY <1>1, <2>1, <2>2
<1>6. Queue!UnfinishedExact' /\ unfinished' \in Nat
  <2>1. Len(fifo') \in Nat
    BY <1>5
  <2> QED BY <1>4, <1>5, <2>1, BusyCounted, SameCardinality DEF Queue!UnfinishedExact
<1>7. Queue!TypeOK'
  BY <1>1, <1>3, <1>5, <1>6 DEF Queue!TypeOK
<1>8. OneCopy'
  <2>1. \A i, k \in 1 .. Len(fifo') : fifo'[i] = fifo'[k] => i = k
    <3>1. CASE fifo' = fifo
      BY <3>1 DEF OneCopy
    <3>2. CASE fifo' = Append(fifo, j)
      <4>1. j \notin Queue!QueuedJobs /\ Len(fifo) \in Nat
        BY <1>1 DEF Apart, Queue!TypeOK
      <4> QED BY <3>2, <4>1, Appended DEF OneCopy, Queue!TypeOK
    <3> QED BY <1>1, <3>1, <3>2
  <2> QED BY <1>1, <1>4, <1>5, <2>1 DEF OneCopy, Apart
<1>9. Apart'
  BY <1>1, <1>4, <1>5 DEF Apart
<1>10. RunsCounted'
  BY <1>1, <1>3, <1>5 DEF RunsCounted
<1>11. Closing'
  BY <1>1, <1>3 DEF Closing
<1>12. Joining'
  BY <1>1, <1>4, <1>5 DEF Joining
<1> QED BY <1>6, <1>7, <1>8, <1>9, <1>10, <1>11, <1>12

(* A delayed push that puts its job at last.                               *)
LEMMA WakeKeeps ==
  ASSUME QueueInv, NEW j \in Jobs, Queue!Wake(j)
  PROVE  QueueInv'
<1> USE DEF QueueInv
<1>1. /\ j \in sleeping /\ sleeping' = sleeping \ {j} /\ tracked' = tracked \ {j}
      /\ fifo' = Append(fifo, j) /\ unfinished' = unfinished + 1
      /\ UNCHANGED <<worker, task, current, cancelled, closer, awaited, closes, joiner,
                     gathered, goal, pushed, done, failed, jobRuns, interrupts>>
  BY DEF Queue!Wake, Queue!Put, Queue!workerVars, Queue!closeVars, Queue!joinVars,
         Queue!historyVars
<1>2. Queue!Busy' = Queue!Busy /\ Queue!RunningJobs' = Queue!RunningJobs
  BY <1>1 DEF Queue!Busy, Queue!RunningJobs
<1>0. fifo \in Seq(Jobs) /\ Len(fifo) \in Nat
  BY DEF Queue!TypeOK
<1>3. /\ fifo' \in Seq(Jobs) /\ Len(fifo') = Len(fifo) + 1 /\ Len(fifo) \in Nat
      /\ Queue!QueuedJobs' = Queue!QueuedJobs \cup {j}
  BY <1>0, <1>1, Appended
<1>4. Queue!UnfinishedExact' /\ unfinished' \in Nat
  <2>1. unfinished = Len(fifo) + Cardinality(Queue!Busy)
    BY SameCardinality DEF Queue!UnfinishedExact
  <2>2. unfinished' = Len(fifo') + Cardinality(Queue!Busy)
    BY <1>1, <1>3, <2>1, BusyCounted
  <2> QED BY <1>2, <1>3, <2>2, BusyCounted, SameCardinality DEF Queue!UnfinishedExact
<1>5. Queue!TypeOK'
  BY <1>1, <1>3, <1>4 DEF Queue!TypeOK
<1>6. OneCopy'
  <2>1. \A i, k \in 1 .. Len(fifo') : fifo'[i] = fifo'[k] => i = k
    BY <1>1, <1>3, Appended DEF OneCopy, Queue!TypeOK
  <2> QED BY <1>1, <1>2, <1>3, <2>1 DEF OneCopy
<1>7. Apart'
  BY <1>1, <1>2, <1>3 DEF Apart
<1>8. RunsCounted'
  BY <1>1, <1>3 DEF RunsCounted
<1>9. Closing'
  BY <1>1 DEF Closing
<1>10. Joining'
  BY <1>1, <1>2, <1>3 DEF Joining
<1> QED BY <1>4, <1>5, <1>6, <1>7, <1>8, <1>9, <1>10

(* A delayed push that is cancelled.                                       *)
LEMMA CancelDelayedKeeps ==
  ASSUME QueueInv, NEW j \in Jobs, Queue!CancelDelayed(j)
  PROVE  QueueInv'
<1> USE DEF QueueInv
<1>1. /\ j \in sleeping /\ sleeping' = sleeping \ {j} /\ tracked' = tracked \ {j}
      /\ UNCHANGED <<fifo, unfinished, worker, task, current, cancelled, closer,
                     awaited, closes, joiner, gathered, goal, pushed, done, failed,
                     jobRuns, interrupts>>
  BY DEF Queue!CancelDelayed, Queue!queueVars, Queue!workerVars, Queue!closeVars,
         Queue!joinVars, Queue!historyVars
<1>2. /\ Queue!QueuedJobs' = Queue!QueuedJobs /\ Queue!Busy' = Queue!Busy
      /\ Queue!RunningJobs' = Queue!RunningJobs
  BY <1>1 DEF Queue!QueuedJobs, Queue!Busy, Queue!RunningJobs
<1>3. Queue!TypeOK'
  BY <1>1 DEF Queue!TypeOK
<1>4. Queue!UnfinishedExact'
  BY <1>1, <1>2 DEF Queue!UnfinishedExact
<1>5. OneCopy' /\ Apart'
  BY <1>1, <1>2 DEF OneCopy, Apart
<1>6. RunsCounted' /\ Closing' /\ Joining'
  BY <1>1, <1>2 DEF RunsCounted, Closing, Joining
<1> QED BY <1>3, <1>4, <1>5, <1>6

(* What Run() and Leave() make of the tasks and the jobs they run.         *)
LEMMA RunTypes ==
  ASSUME QueueInv, NEW t \in Tasks, NEW j \in Jobs, Queue!Run(t, j)
  PROVE  /\ \A u \in Tasks : task'[u] = IF u = t THEN "running" ELSE task[u]
         /\ \A u \in Tasks : current'[u] = IF u = t THEN j ELSE current[u]
         /\ \A k \in Jobs :
              jobRuns'[k] = IF k = j THEN jobRuns[j] + 1 ELSE jobRuns[k]
         /\ task' \in [Tasks -> {"unborn", "idle", "running", "failed", "ended"}]
         /\ current' \in [Tasks -> Jobs \cup {None}]
         /\ jobRuns' \in [Jobs -> Nat]
         /\ \A u \in Tasks : current'[u] # None <=> task'[u] \in {"running", "failed"}
BY QueueAssumption DEF QueueInv, Queue!TypeOK, Queue!Run

LEMMA GetKeeps ==
  ASSUME QueueInv, NEW t \in Tasks, Queue!Get(t)
  PROVE  QueueInv'
<1> USE DEF QueueInv
<1> DEFINE j == Head(fifo)
<1>1. /\ task[t] = "idle" /\ t \notin cancelled /\ fifo # <<>> /\ fifo' = Tail(fifo)
      /\ Queue!Run(t, j)
      /\ UNCHANGED <<unfinished, sleeping, tracked, worker, cancelled, closer, awaited,
                     closes, joiner, gathered, goal, pushed, done, failed, interrupts>>
  BY DEF Queue!Get, Queue!delayVars, Queue!closeVars, Queue!joinVars
<1>2. /\ fifo' \in Seq(Jobs) /\ Len(fifo') = Len(fifo) - 1
      /\ j \in Jobs /\ j \in Queue!QueuedJobs
      /\ Queue!QueuedJobs' = Queue!QueuedJobs \ {j}
      /\ \A i, k \in 1 .. Len(fifo') : fifo'[i] = fifo'[k] => i = k
  BY <1>1, Popped DEF Queue!TypeOK, OneCopy
<1>3. current[t] = None /\ current \in [Tasks -> Jobs \cup {None}] /\ Len(fifo) \in Nat
  BY <1>1 DEF Queue!TypeOK
<1> HIDE DEF j
<1>4. current' = [current EXCEPT ![t] = j]
  BY <1>1 DEF Queue!Run
<1>5. /\ Queue!Busy' = Queue!Busy \cup {t} /\ t \notin Queue!Busy
      /\ Queue!RunningJobs' = Queue!RunningJobs \cup {j}
  BY <1>2, <1>3, <1>4, QueueAssumption, Started
<1>6. Queue!UnfinishedExact'
  <2>1. unfinished = Len(fifo) + Cardinality(Queue!Busy)
    BY SameCardinality DEF Queue!UnfinishedExact
  <2>2. Cardinality(Queue!Busy') = Cardinality(Queue!Busy) + 1
    BY <1>5, BusyCounted
  <2>3. unfinished = Len(fifo') + Cardinality(Queue!Busy')
    BY <1>2, <1>3, <2>1, <2>2, BusyCounted
  <2> QED BY <1>1, <2>3, SameCardinality DEF Queue!UnfinishedExact
<1>7. Queue!TypeOK'
  BY <1>1, <1>2, RunTypes DEF Queue!TypeOK
<1>8. OneCopy'
  <2>1. j \notin Queue!RunningJobs /\ j \notin sleeping
    BY <1>2 DEF OneCopy
  <2>2. \A u \in Queue!Busy : current[u] # j
    BY <2>1 DEF Queue!RunningJobs
  <2>3. \A u \in Queue!Busy \cup {t} : current'[u] = IF u = t THEN j ELSE current[u]
    BY <1>1, <1>2, RunTypes DEF Queue!Busy
  <2>4. \A u, v \in Queue!Busy' : current'[u] = current'[v] => u = v
    BY <1>5, <2>2, <2>3 DEF OneCopy
  <2> QED BY <1>1, <1>2, <1>5, <2>1, <2>4 DEF OneCopy
<1>9. Apart'
  BY <1>1, <1>2, <1>5 DEF Apart
<1>10. RunsCounted'
  <2>1. /\ jobRuns[j] = 0 /\ MaxAttempts[j] \in Nat \ {0}
        /\ j \notin Queue!RunningJobs /\ j \in pushed /\ j \notin sleeping
    BY <1>2, QueueAssumption DEF RunsCounted, OneCopy, Apart
  <2>2. ASSUME NEW u \in Tasks, task[u] \in {"running", "failed"}
        PROVE  current[u] # j /\ current[u] \in Jobs
    <3>1. u \in Queue!Busy /\ current[u] \in Jobs
      BY <2>2, QueueAssumption DEF Queue!TypeOK, Queue!Busy
    <3> QED BY <2>1, <3>1 DEF Queue!RunningJobs
  <2>3. ASSUME NEW k \in Jobs, k \notin pushed' \/ k \in Queue!QueuedJobs' \cup sleeping'
        PROVE  jobRuns'[k] = 0
    <3>1. k # j /\ jobRuns[k] = 0
      BY <1>1, <1>2, <2>1, <2>3 DEF RunsCounted
    <3> QED BY <1>1, <1>2, <3>1, RunTypes
  <2>4. ASSUME NEW u \in Tasks \ {t}
        PROVE  /\ task'[u] = task[u] /\ current'[u] = current[u]
               /\ task[u] \in {"running", "failed"} =>
                    jobRuns'[current[u]] = jobRuns[current[u]]
    BY <1>1, <1>2, <2>2, RunTypes
  <2>5. task'[t] = "running" /\ current'[t] = j /\ jobRuns'[j] = 1
    BY <1>1, <1>2, <2>1, RunTypes
  <2> HIDE DEF j
  <2>6. ASSUME NEW u \in Tasks
        PROVE  /\ task'[u] = "running" =>
                    /\ 0 < jobRuns'[current'[u]]
                    /\ jobRuns'[current'[u]] <= MaxAttempts[current'[u]]
               /\ task'[u] = "failed" =>
                    jobRuns'[current'[u]] < MaxAttempts[current'[u]]
    <3>1. CASE u = t
      BY <2>1, <2>5, <3>1
    <3>2. CASE u # t
      BY <2>4, <3>2 DEF RunsCounted
    <3> QED BY <3>1, <3>2
  <2> QED BY <2>3, <2>6 DEF RunsCounted
<1>11. Closing'
  BY <1>1, <1>2, RunTypes DEF Closing
<1>12. Joining'
  BY <1>1, <1>2, <1>5 DEF Joining
<1> QED BY <1>6, <1>7, <1>8, <1>9, <1>10, <1>11, <1>12 DEF Queue!TypeOK

LEMMA AgainKeeps ==
  ASSUME QueueInv, NEW t \in Tasks, Queue!Again(t)
  PROVE  QueueInv'
<1> USE DEF QueueInv
<1> DEFINE j == current[t]
<1>1. /\ task[t] = "failed" /\ Queue!Run(t, j)
      /\ UNCHANGED <<fifo, unfinished, sleeping, tracked, worker, cancelled, closer,
                     awaited, closes, joiner, gathered, goal, pushed, done, failed,
                     interrupts>>
  BY DEF Queue!Again, Queue!queueVars, Queue!delayVars, Queue!closeVars, Queue!joinVars
<1>2. j \in Jobs /\ j # None /\ t \in Queue!Busy /\ j \in Queue!RunningJobs
  BY <1>1 DEF Queue!TypeOK, Queue!Busy, Queue!RunningJobs
<1>3. \A u \in Tasks : current'[u] = current[u]
  BY <1>1, <1>2, RunTypes
<1>4. /\ Queue!QueuedJobs' = Queue!QueuedJobs /\ Queue!Busy' = Queue!Busy
      /\ Queue!RunningJobs' = Queue!RunningJobs
  BY <1>1, <1>3 DEF Queue!QueuedJobs, Queue!Busy, Queue!RunningJobs
<1>5. Queue!UnfinishedExact' /\ Apart' /\ Joining'
  BY <1>1, <1>4 DEF Queue!UnfinishedExact, Apart, Joining
<1>6. OneCopy'
  BY <1>1, <1>3, <1>4 DEF OneCopy, Queue!Busy
<1>7. Queue!TypeOK'
  BY <1>1, <1>2, RunTypes DEF Queue!TypeOK
<1>8. RunsCounted'
  <2>1. /\ jobRuns[j] < MaxAttempts[j] /\ MaxAttempts[j] \in Nat /\ jobRuns[j] \in Nat
        /\ j \notin Queue!QueuedJobs \cup sleeping /\ j \in pushed
    BY <1>1, <1>2, QueueAssumption DEF RunsCounted, OneCopy, Apart, Queue!TypeOK
  <2>2. ASSUME NEW u \in Tasks \ {t}, task[u] \in {"running", "failed"}
        PROVE  current[u] # j /\ current[u] \in Jobs
    BY <1>2, <2>2 DEF Queue!TypeOK, OneCopy, Queue!Busy
  <2>3. ASSUME NEW k \in Jobs, k \notin pushed' \/ k \in Queue!QueuedJobs' \cup sleeping'
        PROVE  jobRuns'[k] = 0
    <3>1. k # j /\ jobRuns[k] = 0
      BY <1>1, <1>4, <2>1, <2>3 DEF RunsCounted
    <3> QED BY <1>1, <1>2, <3>1, RunTypes
  <2>4. ASSUME NEW u \in Tasks \ {t}
        PROVE  /\ task'[u] = task[u] /\ current'[u] = current[u]
               /\ task[u] \in {"running", "failed"} =>
                    jobRuns'[current[u]] = jobRuns[current[u]]
    BY <1>1, <1>2, <1>3, <2>2, RunTypes
  <2>5. task'[t] = "running" /\ current'[t] = j /\ jobRuns'[j] = jobRuns[j] + 1
    BY <1>1, <1>2, <1>3, RunTypes
  <2> HIDE DEF j
  <2>6. ASSUME NEW u \in Tasks
        PROVE  /\ task'[u] = "running" =>
                    /\ 0 < jobRuns'[current'[u]]
                    /\ jobRuns'[current'[u]] <= MaxAttempts[current'[u]]
               /\ task'[u] = "failed" =>
                    jobRuns'[current'[u]] < MaxAttempts[current'[u]]
    <3>1. CASE u = t
      BY <2>1, <2>5, <3>1
    <3>2. CASE u # t
      BY <2>4, <3>2 DEF RunsCounted
    <3> QED BY <3>1, <3>2
  <2> QED BY <2>3, <2>6 DEF RunsCounted
<1>9. Closing'
  BY <1>1, <1>2, RunTypes DEF Closing
<1> QED BY <1>5, <1>6, <1>7, <1>8, <1>9

(* What Leave() makes of them.                                             *)
LEMMA LeaveKeeps ==
  ASSUME QueueInv, NEW t \in Tasks, current[t] # None,
         NEW stage \in {"idle", "ended"}, Queue!Leave(t, stage),
         UNCHANGED <<fifo, sleeping, pushed, jobRuns>>
  PROVE  /\ Queue!UnfinishedExact' /\ OneCopy' /\ unfinished' \in Nat
         /\ Queue!QueuedJobs' = Queue!QueuedJobs
         /\ Queue!RunningJobs' = Queue!RunningJobs \ {current[t]}
         /\ current[t] \in Queue!RunningJobs
         /\ \A u \in Tasks : task'[u] = IF u = t THEN stage ELSE task[u]
         /\ task' \in [Tasks -> {"unborn", "idle", "running", "failed", "ended"}]
         /\ current' \in [Tasks -> Jobs \cup {None}]
         /\ \A u \in Tasks : current'[u] # None <=> task'[u] \in {"running", "failed"}
         /\ RunsCounted'
<1> USE DEF QueueInv
<1>1. /\ current' = [current EXCEPT ![t] = None] /\ task' = [task EXCEPT ![t] = stage]
      /\ unfinished' = unfinished - 1
  BY DEF Queue!Leave
<1>2. /\ current \in [Tasks -> Jobs \cup {None}]
      /\ task \in [Tasks -> {"unborn", "idle", "running", "failed", "ended"}]
      /\ \A u \in Tasks : current[u] # None <=> task[u] \in {"running", "failed"}
      /\ Len(fifo) \in Nat
  BY DEF Queue!TypeOK
<1>3. /\ Queue!Busy' = Queue!Busy \ {t} /\ t \in Queue!Busy
      /\ Queue!RunningJobs' = Queue!RunningJobs \ {current[t]}
      /\ current[t] \in Queue!RunningJobs
  BY <1>1, <1>2, Left DEF OneCopy
<1>4. /\ \A u \in Tasks : task'[u] = IF u = t THEN stage ELSE task[u]
      /\ \A u \in Tasks : current'[u] = IF u = t THEN None ELSE current[u]
  BY <1>1, <1>2
<1>5. /\ task' \in [Tasks -> {"unborn", "idle", "running", "failed", "ended"}]
      /\ current' \in [Tasks -> Jobs \cup {None}]
      /\ \A u \in Tasks : current'[u] # None <=> task'[u] \in {"running", "failed"}
  BY <1>1, <1>2, <1>4
<1>6. Queue!UnfinishedExact' /\ unfinished' \in Nat
  <2>1. unfinished = Len(fifo) + Cardinality(Queue!Busy)
    BY SameCardinality DEF Queue!UnfinishedExact
  <2>2. /\ Cardinality(Queue!Busy') = Cardinality(Queue!Busy) - 1
        /\ Cardinality(Queue!Busy) \in Nat /\ Cardinality(Queue!Busy) > 0
    BY <1>3, BusyCounted
  <2>3. unfinished' = Len(fifo) + Cardinality(Queue!Busy') /\ unfinished' \in Nat
    BY <1>1, <1>2, <2>1, <2>2
  <2> QED BY <2>3, SameCardinality DEF Queue!UnfinishedExact
<1>7. Queue!QueuedJobs' = Queue!QueuedJobs
  BY DEF Queue!QueuedJobs
<1>8. OneCopy'
  <2>1. \A u \in Queue!Busy' : current'[u] = current[u] /\ u \in Queue!Busy
    BY <1>3, <1>4 DEF Queue!Busy
  <2>2. \A u, v \in Queue!Busy' : current'[u] = current'[v] => u = v
    BY <2>1 DEF OneCopy
  <2> QED BY <1>3, <1>7, <2>2 DEF OneCopy
<1>9. RunsCounted'
  BY <1>4, <1>7 DEF RunsCounted
<1> QED BY <1>3, <1>5, <1>4, <1>6, <1>7, <1>8, <1>9

LEMMA SucceedKeeps ==
  ASSUME QueueInv, NEW t \in Tasks, Queue!Succeed(t)
  PROVE  QueueInv'
<1> USE DEF QueueInv
<1>1. /\ task[t] = "running" /\ t \notin cancelled /\ done' = done \cup {current[t]}
      /\ Queue!Leave(t, "idle")
      /\ UNCHANGED <<fifo, sleeping, tracked, worker, cancelled, closer, awaited, closes,
                     joiner, gathered, goal, pushed, failed, jobRuns, interrupts>>
  BY DEF Queue!Succeed, Queue!delayVars, Queue!closeVars, Queue!joinVars
<1>2. current[t] \in Jobs /\ current[t] # None
  BY <1>1 DEF Queue!TypeOK
<1>3. /\ Queue!UnfinishedExact' /\ OneCopy' /\ RunsCounted'
      /\ Queue!QueuedJobs' = Queue!QueuedJobs
      /\ Queue!RunningJobs' = Queue!RunningJobs \ {current[t]}
      /\ current[t] \in Queue!RunningJobs
  BY <1>1, <1>2, LeaveKeeps
<1>4. Queue!TypeOK'
  BY <1>1, <1>2, LeaveKeeps DEF Queue!TypeOK
<1>5. Apart'
  <2>1. /\ current[t] \notin Queue!QueuedJobs \cup sleeping \cup failed
        /\ current[t] \in pushed
    BY <1>3 DEF OneCopy, Apart
  <2> QED BY <1>1, <1>3, <2>1 DEF Apart
<1>6. Closing'
  BY <1>1, <1>2, LeaveKeeps DEF Closing
<1>7. Joining'
  BY <1>1, <1>3 DEF Joining
<1> QED BY <1>3, <1>4, <1>5, <1>6, <1>7

LEMMA RaiseKeeps ==
  ASSUME QueueInv, NEW t \in Tasks, Queue!Raise(t)
  PROVE  QueueInv'
<1> USE DEF QueueInv
<1>1. /\ task[t] = "running" /\ t \notin cancelled
      /\ UNCHANGED <<fifo, sleeping, tracked, worker, cancelled, closer, awaited, closes,
                     joiner, gathered, goal, pushed, done, jobRuns, interrupts>>
  BY DEF Queue!Raise, Queue!delayVars, Queue!closeVars, Queue!joinVars
<1>2. current[t] \in Jobs /\ current[t] # None
  BY <1>1 DEF Queue!TypeOK
<1>3. CASE Queue!AttemptsLeft(current[t])
  <2>1. /\ task' = [task EXCEPT ![t] = "failed"]
        /\ UNCHANGED <<current, unfinished, failed>>
    BY <1>3 DEF Queue!Raise
  <2>2. /\ \A u \in Tasks : task'[u] = IF u = t THEN "failed" ELSE task[u]
        /\ task' \in [Tasks -> {"unborn", "idle", "running", "failed", "ended"}]
    BY <2>1 DEF Queue!TypeOK
  <2>3. /\ Queue!QueuedJobs' = Queue!QueuedJobs /\ Queue!Busy' = Queue!Busy
        /\ Queue!RunningJobs' = Queue!RunningJobs
    BY <1>1, <2>1 DEF Queue!QueuedJobs, Queue!Busy, Queue!RunningJobs
  <2>4. Queue!UnfinishedExact' /\ OneCopy' /\ Apart' /\ Joining'
    BY <1>1, <2>1, <2>3 DEF Queue!UnfinishedExact, OneCopy, Apart, Joining
  <2>5. RunsCounted'
    BY <1>1, <1>3, <2>1, <2>2, <2>3 DEF RunsCounted, Queue!AttemptsLeft
  <2>6. Queue!TypeOK'
    BY <1>1, <1>2, <2>1, <2>2 DEF Queue!TypeOK
  <2>7. Closing'
    <3>1. worker # None => worker \in Tasks
      BY DEF Queue!TypeOK
    <3> QED BY <1>1, <2>2, <3>1 DEF Closing
  <2> QED BY <2>4, <2>5, <2>6, <2>7
<1>4. CASE ~ Queue!AttemptsLeft(current[t])
  <2>1. failed' = failed \cup {current[t]} /\ Queue!Leave(t, "idle")
    BY <1>4 DEF Queue!Raise
  <2>2. /\ Queue!UnfinishedExact' /\ OneCopy' /\ RunsCounted'
        /\ Queue!QueuedJobs' = Queue!QueuedJobs
        /\ Queue!RunningJobs' = Queue!RunningJobs \ {current[t]}
        /\ current[t] \in Queue!RunningJobs
    BY <1>1, <1>2, <2>1, LeaveKeeps
  <2>3. Queue!TypeOK'
    BY <1>1, <1>2, <2>1, LeaveKeeps DEF Queue!TypeOK
  <2>4. Apart'
    <3>1. /\ current[t] \notin Queue!QueuedJobs \cup sleeping \cup done
          /\ current[t] \in pushed
      BY <2>2 DEF OneCopy, Apart
    <3> QED BY <1>1, <2>1, <2>2, <3>1 DEF Apart
  <2>5. Closing'
    BY <1>1, <1>2, <2>1, LeaveKeeps DEF Closing
  <2>6. Joining'
    BY <1>1, <2>2 DEF Joining
  <2> QED BY <2>2, <2>3, <2>4, <2>5, <2>6
<1> QED BY <1>3, <1>4

(* The job's task ends with its job: it is interrupted, or cancelled.      *)
LEMMA EndKeeps ==
  ASSUME QueueInv, NEW t \in Tasks, task[t] = "running", Queue!Leave(t, "ended"),
         UNCHANGED <<fifo, sleeping, tracked, worker, cancelled, closer, awaited, closes,
                     joiner, gathered, goal, pushed, done, failed, jobRuns>>,
         interrupts' \in 0 .. MaxInterrupts
  PROVE  QueueInv'
<1> USE DEF QueueInv
<1>1. current[t] \in Jobs /\ current[t] # None
  BY DEF Queue!TypeOK
<1>2. /\ Queue!UnfinishedExact' /\ OneCopy' /\ RunsCounted'
      /\ Queue!QueuedJobs' = Queue!QueuedJobs
      /\ Queue!RunningJobs' = Queue!RunningJobs \ {current[t]}
  BY <1>1, LeaveKeeps
<1>3. Queue!TypeOK'
  BY <1>1, LeaveKeeps DEF Queue!TypeOK
<1>4. Apart' /\ Joining'
  <2>1. Apart'
    BY <1>2 DEF Apart
  <2>2. Joining'
    BY <1>2 DEF Joining
  <2> QED BY <2>1, <2>2
<1>5. Closing'
  BY <1>1, LeaveKeeps DEF Closing
<1> QED BY <1>2, <1>3, <1>4, <1>5

LEMMA InterruptKeeps ==
  ASSUME QueueInv, NEW t \in Tasks, Queue!Interrupt(t)
  PROVE  QueueInv'
<1>1. interrupts' \in 0 .. MaxInterrupts
  BY QueueAssumption DEF Queue!Interrupt, QueueInv, Queue!TypeOK
<1> QED BY <1>1, EndKeeps DEF Queue!Interrupt, Queue!delayVars, Queue!closeVars,
           Queue!joinVars, Queue!historyVars

LEMMA CancelWorkerKeeps ==
  ASSUME QueueInv, NEW t \in Tasks, Queue!CancelWorker(t)
  PROVE  QueueInv'
<1>1. /\ t \in cancelled
      /\ UNCHANGED <<fifo, sleeping, tracked, worker, cancelled, closer, awaited, closes,
                     joiner, gathered, goal, pushed, done, failed, jobRuns, interrupts>>
  BY DEF Queue!CancelWorker, Queue!delayVars, Queue!closeVars, Queue!joinVars,
         Queue!historyVars
<1>2. CASE task[t] = "running" /\ Queue!Leave(t, "ended")
  <2>1. interrupts' \in 0 .. MaxInterrupts
    BY <1>1 DEF QueueInv, Queue!TypeOK
  <2> QED BY <1>1, <1>2, <2>1, EndKeeps
<1>3. CASE /\ task[t] = "idle" /\ task' = [task EXCEPT ![t] = "ended"]
           /\ UNCHANGED <<current, unfinished>>
  <2> USE DEF QueueInv
  <2>1. /\ \A u \in Tasks : task'[u] = IF u = t THEN "ended" ELSE task[u]
        /\ task' \in [Tasks -> {"unborn", "idle", "running", "failed", "ended"}]
    BY <1>3 DEF Queue!TypeOK
  <2>2. /\ Queue!QueuedJobs' = Queue!QueuedJobs /\ Queue!Busy' = Queue!Busy
        /\ Queue!RunningJobs' = Queue!RunningJobs
    BY <1>1, <1>3 DEF Queue!QueuedJobs, Queue!Busy, Queue!RunningJobs
  <2>3. Queue!UnfinishedExact' /\ OneCopy' /\ Apart' /\ Joining'
    BY <1>1, <1>3, <2>2 DEF Queue!UnfinishedExact, OneCopy, Apart, Joining
  <2>4. RunsCounted' /\ Closing'
    BY <1>1, <1>3, <2>1, <2>2 DEF RunsCounted, Closing
  <2>5. Queue!TypeOK'
    BY <1>1, <1>3, <2>1 DEF Queue!TypeOK
  <2> QED BY <2>3, <2>4, <2>5
<1> QED BY <1>2, <1>3 DEF Queue!CancelWorker

(* close() clears the delayed tasks and cancels the worker.                *)
LEMMA CloseWorkerKeeps ==
  ASSUME QueueInv, Queue!CloseWorker, closer = "worker" => FALSE,
         closer = "delayed" => awaited \cap sleeping = {},
         closes' \in 1 .. MaxCloses
  PROVE  QueueInv'
<1> USE DEF QueueInv
<1>1. /\ tracked' = {}
      /\ UNCHANGED <<fifo, unfinished, sleeping, worker, task, current, joiner, gathered,
                     goal, pushed, done, failed, jobRuns, interrupts>>
      /\ IF worker = None
           THEN closer' = "out" /\ awaited' = {} /\ cancelled' = cancelled
           ELSE /\ closer' = "worker" /\ awaited' = {worker}
                /\ cancelled' = cancelled \cup {worker}
  BY DEF Queue!CloseWorker, Queue!queueVars, Queue!workerVars, Queue!joinVars,
         Queue!historyVars
<1>2. Queue!UnfinishedExact' /\ OneCopy' /\ Apart' /\ RunsCounted'
  BY <1>1, PlacesStay
<1>3. closes' # 0 /\ closes' \in 0 .. MaxCloses
  BY QueueAssumption
<1>4. Queue!TypeOK'
  BY <1>1, <1>3 DEF Queue!TypeOK
<1>5. /\ sleeping \cap cancelled = {}
      /\ \A t \in Tasks \cap cancelled : task[t] = "ended"
      /\ worker # None => worker \in Tasks /\ task[worker] # "unborn"
  BY DEF Closing
<1>6. Closing'
  <2>1. sleeping \cap cancelled' = {} /\ cancelled' \cap Jobs = cancelled \cap Jobs
    BY <1>1, <1>5, QueueAssumption DEF Queue!TypeOK
  <2> QED BY <1>1, <1>3, <1>5, <2>1 DEF Closing
<1>7. Joining'
  BY <1>1, <1>3 DEF Joining
<1> QED BY <1>2, <1>4, <1>6, <1>7

LEMMA CloseKeeps ==
  ASSUME QueueInv, Queue!Close
  PROVE  QueueInv'
<1> USE DEF QueueInv
<1>1. closer = "out" /\ closes' \in 1 .. MaxCloses
  BY QueueAssumption DEF Queue!Close, Queue!TypeOK
<1>2. CASE tracked = {}
  BY <1>1, <1>2, CloseWorkerKeeps DEF Queue!Close
<1>3. CASE tracked # {}
  <2>1. /\ closer' = "delayed" /\ awaited' = tracked
        /\ cancelled' = cancelled \cup tracked
        /\ UNCHANGED <<fifo, unfinished, sleeping, tracked, worker, task, current,
                       joiner, gathered, goal, pushed, done, failed, jobRuns,
                       interrupts>>
    BY <1>3 DEF Queue!Close, Queue!queueVars, Queue!delayVars, Queue!workerVars,
       Queue!joinVars, Queue!historyVars
  <2>2. Queue!UnfinishedExact' /\ OneCopy' /\ Apart' /\ RunsCounted'
    BY <2>1, PlacesStay
  <2>3. closes' # 0 /\ closes' \in 0 .. MaxCloses
    BY <1>1, QueueAssumption
  <2>4. tracked \subseteq sleeping /\ sleeping \subseteq Jobs
    BY DEF Queue!TypeOK
  <2>5. Queue!TypeOK'
    BY <2>1, <2>3, <2>4 DEF Queue!TypeOK
  <2>6. sleeping \cap cancelled = {} /\ \A t \in Tasks \cap cancelled : task[t] = "ended"
    BY <1>1 DEF Closing
  <2>7. sleeping \cap cancelled' \subseteq tracked /\ Tasks \cap cancelled' = Tasks \cap cancelled
    BY <2>1, <2>4, <2>6, QueueAssumption
  <2>8. sleeping \subseteq pushed
    BY DEF Apart
  <2>9. Closing'
    BY <2>1, <2>3, <2>4, <2>6, <2>7, <2>8 DEF Closing
  <2>10. Joining'
    BY <2>1, <2>3 DEF Joining
  <2> QED BY <2>2, <2>5, <2>9, <2>10
<1> QED BY <1>2, <1>3

LEMMA CloseEndsKeep ==
  ASSUME QueueInv, Queue!CloseDelayedEnded \/ Queue!CloseWorkerEnded
  PROVE  QueueInv'
<1>1. CASE Queue!CloseDelayedEnded
  <2>1. closes' \in 1 .. MaxCloses
    BY <1>1, QueueAssumption DEF Queue!CloseDelayedEnded, QueueInv, Queue!TypeOK, Closing
  <2> QED BY <1>1, <2>1, CloseWorkerKeeps DEF Queue!CloseDelayedEnded
<1>2. CASE Queue!CloseWorkerEnded
  <2> USE DEF QueueInv
  <2>1. /\ closer = "worker" /\ \A t \in awaited : task[t] = "ended"
        /\ worker' = None /\ closer' = "out" /\ awaited' = {}
        /\ UNCHANGED <<fifo, unfinished, sleeping, tracked, task, current, cancelled,
                       closes, joiner, gathered, goal, pushed, done, failed, jobRuns,
                       interrupts>>
    BY <1>2 DEF Queue!CloseWorkerEnded, Queue!queueVars, Queue!delayVars,
       Queue!joinVars, Queue!historyVars
  <2>2. Queue!UnfinishedExact' /\ OneCopy' /\ Apart' /\ RunsCounted'
    BY <2>1, PlacesStay
  <2>3. Queue!TypeOK'
    BY <2>1 DEF Queue!TypeOK
  <2>4. Closing'
    BY <2>1 DEF Closing
  <2>5. Joining'
    BY <2>1, <2>2, PlacesStay DEF Joining
  <2> QED BY <2>2, <2>3, <2>4, <2>5
<1> QED BY <1>1, <1>2

LEMMA JoinKeeps ==
  ASSUME QueueInv, Queue!Join \/ Queue!JoinGathered \/ Queue!JoinReturn
  PROVE  QueueInv'
<1> USE DEF QueueInv
<1>1. UNCHANGED <<fifo, unfinished, sleeping, tracked, worker, task, current, cancelled,
                  closer, awaited, closes, pushed, done, failed, jobRuns, interrupts>>
  BY DEF Queue!Join, Queue!JoinGathered, Queue!JoinReturn, Queue!queueVars,
         Queue!delayVars, Queue!workerVars, Queue!closeVars, Queue!historyVars
<1>2. /\ Queue!UnfinishedExact' /\ OneCopy' /\ Apart' /\ RunsCounted'
      /\ Queue!QueuedJobs' = Queue!QueuedJobs
      /\ Queue!RunningJobs' = Queue!RunningJobs
  BY <1>1, PlacesStay
<1>3. tracked \subseteq Jobs
  BY DEF Queue!TypeOK
<1>4. Queue!TypeOK'
  BY <1>1, <1>3 DEF Queue!TypeOK, Queue!Join, Queue!JoinGathered, Queue!JoinReturn
<1>5. Closing'
  BY <1>1 DEF Closing
<1>6. ASSUME Queue!Join PROVE Joining'
  <2>1. joiner' = "gather" /\ gathered' = tracked /\ goal' = pushed
    BY <1>6 DEF Queue!Join
  <2> QED BY <1>1, <2>1 DEF Joining
<1>7. ASSUME Queue!JoinGathered PROVE Joining'
  <2>1. /\ joiner = "gather" /\ gathered \cap sleeping = {}
        /\ joiner' = "queue" /\ gathered' = gathered /\ goal' = goal
    BY <1>7 DEF Queue!JoinGathered
  <2> QED BY <1>1, <2>1 DEF Joining
<1>8. ASSUME Queue!JoinReturn PROVE Joining'
  <2>1. unfinished = 0 /\ joiner' = "returned" /\ joiner = "queue" /\ goal' = goal
    BY <1>8 DEF Queue!JoinReturn
  <2>2. Len(fifo) \in Nat /\ Len(fifo) + Cardinality(Queue!Busy) = 0
    BY <2>1, SameCardinality DEF Queue!TypeOK, Queue!UnfinishedExact
  <2>3. Len(fifo) = 0 /\ Cardinality(Queue!Busy) = 0
    BY <2>2, BusyCounted
  <2>4. Queue!Busy = {} /\ DOMAIN fifo = {}
    BY <2>3, BusyCounted, FS_EmptySet DEF Queue!TypeOK
  <2>5. Queue!QueuedJobs = {} /\ Queue!RunningJobs = {}
    BY <2>4 DEF Queue!QueuedJobs, Queue!RunningJobs
  <2>6. goal' \cap (Queue!QueuedJobs' \cup Queue!RunningJobs') = {}
    BY <1>2, <2>5
  <2> QED BY <1>1, <2>1, <2>6 DEF Joining
<1> QED BY <1>2, <1>4, <1>5, <1>6, <1>7, <1>8

LEMMA QueueStutters ==
  ASSUME QueueInv, UNCHANGED Queue!vars
  PROVE  QueueInv'
<1> USE DEF QueueInv
<1>1. UNCHANGED <<fifo, unfinished, sleeping, tracked, worker, task, current, cancelled,
                  closer, awaited, closes, joiner, gathered, goal, pushed, done, failed,
                  jobRuns, interrupts>>
  BY DEF Queue!vars, Queue!queueVars, Queue!delayVars, Queue!workerVars, Queue!closeVars,
         Queue!joinVars, Queue!historyVars
<1>2. Queue!UnfinishedExact' /\ OneCopy' /\ Apart' /\ RunsCounted'
      /\ Queue!QueuedJobs' = Queue!QueuedJobs
      /\ Queue!RunningJobs' = Queue!RunningJobs
  BY <1>1, PlacesStay
<1>3. Queue!TypeOK' /\ Closing' /\ Joining'
  BY <1>1, <1>2 DEF Queue!TypeOK, Closing, Joining
<1> QED BY <1>2, <1>3

LEMMA QueueInit ==
  ASSUME Queue!Init
  PROVE  QueueInv
<1>1. /\ Queue!QueuedJobs = {} /\ Queue!Busy = {} /\ Queue!RunningJobs = {}
      /\ Len(fifo) = 0
  BY DEF Queue!Init, Queue!QueuedJobs, Queue!Busy, Queue!RunningJobs
<1>2. Queue!TypeOK
  BY QueueAssumption DEF Queue!Init, Queue!TypeOK
<1>3. Queue!UnfinishedExact
  BY <1>1, FS_EmptySet, SameCardinality DEF Queue!Init, Queue!UnfinishedExact
<1>4. OneCopy /\ Apart
  BY <1>1 DEF Queue!Init, OneCopy, Apart
<1>5. RunsCounted /\ Closing /\ Joining
  BY <1>1 DEF Queue!Init, RunsCounted, Closing, Joining
<1> QED BY <1>2, <1>3, <1>4, <1>5 DEF QueueInv

LEMMA QueueInductive ==
  ASSUME QueueInv, [Queue!Next]_(Queue!vars)
  PROVE  QueueInv'
BY PushKeeps, WakeKeeps, CancelDelayedKeeps, GetKeeps, AgainKeeps, SucceedKeeps,
   RaiseKeeps, InterruptKeeps, CancelWorkerKeeps, CloseKeeps, CloseEndsKeep, JoinKeeps,
   QueueStutters DEF Queue!Next, Queue!WorkerStep

(* A job that join() waits for is nowhere any more when it returns.        *)
LEMMA QueueInvJoins ==
  ASSUME QueueInv
  PROVE  JoinExact
<1>1. ASSUME joiner = "returned", closes = 0
      PROVE  goal \subseteq Queue!Settled \cup Queue!Lost
  BY <1>1 DEF QueueInv, Joining, Queue!Lost
<1> QED BY <1>1 DEF QueueInv, JoinExact, Queue!JoinWaits

(***************************************************************************)
(* The lives of the jobs                                                   *)
(***************************************************************************)

OnNow == {j \in Jobs : \E t \in Tasks : task[t] = "running" /\ current[t] = j}
Waits == Queue!QueuedJobs \cup sleeping \cup (Queue!RunningJobs \ OnNow)

(* The refinement mapping, by place.                                       *)
StatusByPlace ==
  \A j \in Jobs :
    /\ j \notin pushed => Queue!StatusOf(j) = "new"
    /\ j \in done => Queue!StatusOf(j) = "done"
    /\ j \in failed => Queue!StatusOf(j) = "failed"
    /\ j \in OnNow => Queue!StatusOf(j) = "running"
    /\ j \in Waits => Queue!StatusOf(j) = "queued"
    /\ j \in pushed \ (Waits \cup OnNow \cup done \cup failed)
         => Queue!StatusOf(j) = "lost"

(* The places exclude each other.                                          *)
OnePlace ==
  /\ Waits \cap OnNow = {} /\ (Waits \cup OnNow) \cap (done \cup failed) = {}
  /\ done \cap failed = {} /\ OnNow \subseteq Queue!RunningJobs
  /\ Waits \cup OnNow \cup done \cup failed \subseteq pushed
  /\ Queue!Lost = pushed \ (Waits \cup OnNow \cup done \cup failed)

LEMMA PlacesInvariant ==
  ASSUME QueueInv
  PROVE  StatusByPlace /\ OnePlace
<1> USE DEF QueueInv
<1>1. OnNow \subseteq Queue!RunningJobs
  BY DEF OnNow, Queue!RunningJobs, Queue!Busy, Queue!TypeOK
<1>2. OnePlace
  <2>1. Waits \cap OnNow = {}
    BY <1>1 DEF Waits, OneCopy
  <2>2. Waits \cup OnNow = Queue!QueuedJobs \cup sleeping \cup Queue!RunningJobs
    BY <1>1 DEF Waits
  <2> QED BY <1>1, <2>1, <2>2 DEF OnePlace, Apart, Queue!Lost, Queue!Settled
<1>3. \A j \in Jobs :
        j \in OnNow <=> \E t \in Tasks : task[t] = "running" /\ current[t] = j
  BY DEF OnNow
<1>4. ASSUME NEW j \in Jobs
      PROVE  /\ j \notin pushed => Queue!StatusOf(j) = "new"
             /\ j \in done => Queue!StatusOf(j) = "done"
             /\ j \in failed => Queue!StatusOf(j) = "failed"
             /\ j \in OnNow => Queue!StatusOf(j) = "running"
             /\ j \in Waits => Queue!StatusOf(j) = "queued"
             /\ j \in pushed \ (Waits \cup OnNow \cup done \cup failed)
                  => Queue!StatusOf(j) = "lost"
  BY <1>2, <1>3 DEF Queue!StatusOf, OnePlace
<1> QED BY <1>2, <1>4 DEF StatusByPlace

LEMMA PlacesInvariantNext == QueueInv' => (StatusByPlace /\ OnePlace)'
<1>1. QueueInv => StatusByPlace /\ OnePlace
  BY PlacesInvariant
<1> QED BY <1>1, PTL

(* All jobs but k are where they were.                                     *)
OthersStay(k) ==
  \A i \in Jobs \ {k} : /\ i \in Waits' <=> i \in Waits
                        /\ i \in OnNow' <=> i \in OnNow
                        /\ i \in done' <=> i \in done
                        /\ i \in failed' <=> i \in failed
                        /\ i \in pushed' <=> i \in pushed

LEMMA Moves ==
  ASSUME StatusByPlace, StatusByPlace', NEW k \in Jobs, OthersStay(k)
  PROVE  [j \in Jobs |-> Queue!StatusOf(j)]'
           = [[j \in Jobs |-> Queue!StatusOf(j)] EXCEPT ![k] = Queue!StatusOf(k)']
<1>1. ASSUME NEW i \in Jobs \ {k} PROVE Queue!StatusOf(i)' = Queue!StatusOf(i)
  BY <1>1 DEF StatusByPlace, OthersStay
<1> QED BY <1>1

LEMMA Stutters ==
  ASSUME StatusByPlace, StatusByPlace',
         UNCHANGED <<Waits, OnNow, done, failed, pushed, jobRuns>>
  PROVE  UNCHANGED Queue!Delivery!deliveryVars
<1>1. ASSUME NEW i \in Jobs PROVE Queue!StatusOf(i)' = Queue!StatusOf(i)
  BY <1>1 DEF StatusByPlace
<1> QED BY <1>1 DEF Queue!Delivery!deliveryVars

LossAllowed ==
  Queue!Lost' # Queue!Lost => closer # "out" \/ interrupts' > interrupts

Refined == [Queue!Delivery!Next]_(Queue!Delivery!deliveryVars) /\ LossAllowed

(* What the lemmas below start from.                                       *)
Known ==
  /\ QueueInv /\ StatusByPlace /\ OnePlace
  /\ (StatusByPlace /\ OnePlace)'

(* A step that moves no job.                                               *)
LEMMA Unmoved ==
  ASSUME Known, UNCHANGED <<Waits, OnNow, done, failed, pushed, jobRuns>>
  PROVE  Refined
<1>1. Queue!Lost' = Queue!Lost
  BY DEF Known, OnePlace
<1> QED BY <1>1, Stutters DEF Known, Refined, LossAllowed

(* The one job that handle() is called with, or no more.                   *)
LEMMA HandleCalled ==
  ASSUME QueueInv, NEW t \in Tasks, NEW j \in Jobs, task[t] # "running",
         Queue!Run(t, j)
  PROVE  OnNow' = OnNow \cup {j}
<1>1. /\ \A u \in Tasks : task'[u] = IF u = t THEN "running" ELSE task[u]
      /\ \A u \in Tasks : current'[u] = IF u = t THEN j ELSE current[u]
  BY RunTypes
<1> QED BY <1>1 DEF OnNow

LEMMA HandleLeft ==
  ASSUME QueueInv, NEW t \in Tasks, task[t] = "running",
         NEW stage \in {"idle", "failed", "ended"},
         task' = [task EXCEPT ![t] = stage],
         \A u \in Tasks \ {t} : current'[u] = current[u]
  PROVE  OnNow' = OnNow \ {current[t]} /\ current[t] \in OnNow /\ current[t] \in Jobs
<1>1. \A u \in Tasks : task'[u] = IF u = t THEN stage ELSE task[u]
  BY DEF QueueInv, Queue!TypeOK
<1>2. current[t] \in Jobs
  BY DEF QueueInv, Queue!TypeOK
<1>3. \A u \in Tasks \ {t} : task[u] = "running" => current[u] # current[t]
  BY DEF QueueInv, Queue!TypeOK, OneCopy, Queue!Busy
<1> QED BY <1>1, <1>2, <1>3 DEF OnNow

LEMMA PushRefines ==
  ASSUME Known, NEW j \in Jobs, Queue!Push(j)
  PROVE  Refined
<1>1. /\ j \notin pushed /\ pushed' = pushed \cup {j}
      /\ UNCHANGED <<current, done, failed, jobRuns>>
      /\ \/ fifo' = Append(fifo, j) /\ sleeping' = sleeping
         \/ fifo' = fifo /\ sleeping' = sleeping \cup {j}
      /\ \/ worker' = worker /\ task' = task
         \/ \E t \in Tasks : /\ task[t] = "unborn" /\ worker' = t
                             /\ task' = [task EXCEPT ![t] = "idle"]
  BY DEF Queue!Push, Queue!Put, Queue!delayVars, Queue!queueVars, Queue!EnsureWorker
<1>2. \A t \in Tasks : task'[t] = "running" <=> task[t] = "running"
  BY <1>1 DEF Known, QueueInv, Queue!TypeOK
<1>3. OnNow' = OnNow /\ Queue!RunningJobs' = Queue!RunningJobs
  BY <1>1, <1>2 DEF OnNow, Queue!RunningJobs, Queue!Busy
<1>4. Queue!QueuedJobs' \cup sleeping' = Queue!QueuedJobs \cup sleeping \cup {j}
  <2>1. CASE fifo' = Append(fifo, j) /\ sleeping' = sleeping
    BY <2>1, Appended DEF Known, QueueInv, Queue!TypeOK
  <2>2. CASE fifo' = fifo /\ sleeping' = sleeping \cup {j}
    BY <2>2 DEF Queue!QueuedJobs
  <2> QED BY <1>1, <2>1, <2>2
<1>5. Waits' = Waits \cup {j}
  BY <1>3, <1>4 DEF Waits
<1>6. /\ OthersStay(j) /\ Queue!StatusOf(j) = "new" /\ Queue!StatusOf(j)' = "queued"
      /\ Queue!Lost' = Queue!Lost
  BY <1>1, <1>3, <1>5 DEF Known, StatusByPlace, OnePlace, OthersStay
<1>7. Queue!Delivery!Push(j)
  BY <1>1, <1>6, Moves DEF Known, Queue!Delivery!Push, Queue!Delivery!Become
<1> QED BY <1>6, <1>7 DEF Refined, LossAllowed, Queue!Delivery!Next

LEMMA WakeRefines ==
  ASSUME Known, NEW j \in Jobs, Queue!Wake(j)
  PROVE  Refined
<1>1. /\ j \in sleeping /\ sleeping' = sleeping \ {j} /\ fifo' = Append(fifo, j)
      /\ UNCHANGED <<task, current, pushed, done, failed, jobRuns>>
  BY DEF Queue!Wake, Queue!Put, Queue!workerVars, Queue!historyVars
<1>2. OnNow' = OnNow /\ Queue!RunningJobs' = Queue!RunningJobs
  BY <1>1 DEF OnNow, Queue!RunningJobs, Queue!Busy
<1>3. Queue!QueuedJobs' = Queue!QueuedJobs \cup {j}
  BY <1>1, Appended DEF Known, QueueInv, Queue!TypeOK
<1>4. Waits' = Waits
  BY <1>1, <1>2, <1>3 DEF Waits
<1> QED BY <1>1, <1>2, <1>4, Unmoved

(* A job is lost while close() runs, or when it interrupts its task.       *)
LEMMA LosesOne ==
  ASSUME Known, NEW j \in Waits \cup OnNow,
         Waits' = Waits \ {j}, OnNow' = OnNow \ {j},
         UNCHANGED <<done, failed, pushed, jobRuns>>,
         closer # "out" \/ interrupts' > interrupts
  PROVE  Refined
<1>1. j \in Jobs
  BY DEF Known, OnePlace, QueueInv, Queue!TypeOK
<1>2. /\ OthersStay(j) /\ Queue!StatusOf(j) \in {"queued", "running"}
      /\ Queue!StatusOf(j)' = "lost"
  BY <1>1 DEF Known, StatusByPlace, OnePlace, OthersStay
<1>3. Queue!Delivery!Lose(j)
  BY <1>1, <1>2, Moves DEF Known, Queue!Delivery!Lose, Queue!Delivery!Become
<1> QED BY <1>1, <1>3 DEF Refined, LossAllowed, Queue!Delivery!Next

LEMMA CancelDelayedRefines ==
  ASSUME Known, NEW j \in Jobs, Queue!CancelDelayed(j)
  PROVE  Refined
<1>1. /\ j \in sleeping \cap cancelled /\ sleeping' = sleeping \ {j}
      /\ UNCHANGED <<fifo, task, current, pushed, done, failed, jobRuns>>
  BY DEF Queue!CancelDelayed, Queue!queueVars, Queue!workerVars, Queue!historyVars
<1>2. closer # "out"
  BY <1>1 DEF Known, QueueInv, Closing
<1>3. /\ OnNow' = OnNow /\ Queue!RunningJobs' = Queue!RunningJobs
      /\ Queue!QueuedJobs' = Queue!QueuedJobs
  BY <1>1 DEF OnNow, Queue!RunningJobs, Queue!Busy, Queue!QueuedJobs
<1>4. j \in Waits /\ Waits' = Waits \ {j} /\ OnNow' = OnNow \ {j}
  BY <1>1, <1>3 DEF Waits, Known, QueueInv, OneCopy, OnePlace
<1> QED BY <1>1, <1>2, <1>4, LosesOne

(* handle() is called: for the first time, or once more.                   *)
LEMMA StartsOne ==
  ASSUME Known, NEW j \in Waits, Waits' = Waits \ {j}, OnNow' = OnNow \cup {j},
         jobRuns[j] < MaxAttempts[j], jobRuns' = [jobRuns EXCEPT ![j] = @ + 1],
         UNCHANGED <<done, failed, pushed>>
  PROVE  Refined
<1>1. j \in Jobs
  BY DEF Known, OnePlace, QueueInv, Queue!TypeOK
<1>2. /\ OthersStay(j) /\ Queue!StatusOf(j) = "queued"
      /\ Queue!StatusOf(j)' = "running" /\ Queue!Lost' = Queue!Lost
  BY <1>1 DEF Known, StatusByPlace, OnePlace, OthersStay
<1>3. Queue!Delivery!Start(j)
  BY <1>1, <1>2, Moves DEF Known, Queue!Delivery!Start, Queue!Delivery!Become
<1> QED BY <1>1, <1>2, <1>3 DEF Refined, LossAllowed, Queue!Delivery!Next

LEMMA GetRefines ==
  ASSUME Known, NEW t \in Tasks, Queue!Get(t)
  PROVE  Refined
<1> DEFINE j == Head(fifo)
<1>1. /\ task[t] = "idle" /\ fifo # <<>> /\ fifo' = Tail(fifo) /\ Queue!Run(t, j)
      /\ UNCHANGED <<sleeping, pushed, done, failed>>
  BY DEF Queue!Get, Queue!delayVars
<1>2. j \in Jobs /\ j \in Queue!QueuedJobs /\ Queue!QueuedJobs' = Queue!QueuedJobs \ {j}
  BY <1>1, Popped DEF Known, QueueInv, Queue!TypeOK, OneCopy
<1>3. current[t] = None /\ current \in [Tasks -> Jobs \cup {None}]
  BY <1>1 DEF Known, QueueInv, Queue!TypeOK
<1> HIDE DEF j
<1>4. /\ current' = [current EXCEPT ![t] = j]
      /\ jobRuns' = [jobRuns EXCEPT ![j] = @ + 1]
  BY <1>1 DEF Queue!Run
<1>5. Queue!RunningJobs' = Queue!RunningJobs \cup {j}
  BY <1>2, <1>3, <1>4, QueueAssumption, Started
<1>6. OnNow' = OnNow \cup {j}
  BY <1>1, <1>2, HandleCalled DEF Known
<1>7. /\ j \notin sleeping \cup Queue!RunningJobs /\ jobRuns[j] = 0
      /\ MaxAttempts[j] \in Nat \ {0}
  BY <1>2, QueueAssumption DEF Known, QueueInv, OneCopy, RunsCounted
<1>8. j \notin OnNow
  BY <1>7 DEF Known, OnePlace
<1>9. j \in Waits /\ Waits' = Waits \ {j}
  <2>1. Queue!RunningJobs' \ OnNow' = Queue!RunningJobs \ OnNow
    BY <1>5, <1>6, <1>7, <1>8
  <2>2. sleeping' = sleeping
    BY <1>1
  <2>3. Waits' = (Queue!QueuedJobs \ {j}) \cup sleeping \cup (Queue!RunningJobs \ OnNow)
    BY <1>2, <2>1, <2>2 DEF Waits
  <2>4. j \notin sleeping /\ j \notin Queue!RunningJobs \ OnNow
    BY <1>7
  <2>5. ((Queue!QueuedJobs \ {j}) \cup sleeping \cup (Queue!RunningJobs \ OnNow))
          = (Queue!QueuedJobs \cup sleeping \cup (Queue!RunningJobs \ OnNow)) \ {j}
    BY <2>4
  <2>6. Waits = Queue!QueuedJobs \cup sleeping \cup (Queue!RunningJobs \ OnNow)
    BY DEF Waits
  <2>7. j \in Waits
    BY <1>2, <2>6
  <2>8. Waits' = Waits \ {j}
    BY <2>3, <2>5, <2>6
  <2> QED BY <2>7, <2>8
<1>10. jobRuns[j] < MaxAttempts[j]
  BY <1>7
<1>11. UNCHANGED <<done, failed, pushed>>
  BY <1>1
<1> QED BY <1>4, <1>6, <1>9, <1>10, <1>11, StartsOne

LEMMA AgainRefines ==
  ASSUME Known, NEW t \in Tasks, Queue!Again(t)
  PROVE  Refined
<1> DEFINE j == current[t]
<1>1. /\ task[t] = "failed" /\ Queue!Run(t, j)
      /\ UNCHANGED <<fifo, sleeping, pushed, done, failed>>
  BY DEF Queue!Again, Queue!queueVars, Queue!delayVars
<1>2. j \in Jobs /\ t \in Queue!Busy /\ j \in Queue!RunningJobs
  BY <1>1 DEF Known, QueueInv, Queue!TypeOK, Queue!Busy, Queue!RunningJobs
<1>3. jobRuns[j] < MaxAttempts[j] /\ jobRuns' = [jobRuns EXCEPT ![j] = @ + 1]
  BY <1>1 DEF Known, QueueInv, RunsCounted, Queue!Run
<1>4. OnNow' = OnNow \cup {j}
  BY <1>1, <1>2, HandleCalled DEF Known
<1>5. \A u \in Tasks : current'[u] = current[u]
  BY <1>1, <1>2, RunTypes DEF Known
<1>6. /\ Queue!QueuedJobs' = Queue!QueuedJobs
      /\ Queue!RunningJobs' = Queue!RunningJobs
  BY <1>1, <1>5 DEF Queue!QueuedJobs, Queue!Busy, Queue!RunningJobs
<1>7. j \notin OnNow
  <2>1. \A u \in Tasks : task[u] = "running" => current[u] # j
    BY <1>1, <1>2 DEF Known, QueueInv, Queue!TypeOK, OneCopy, Queue!Busy
  <2> QED BY <2>1 DEF OnNow
<1>8. j \notin Queue!QueuedJobs \cup sleeping
  BY <1>2 DEF Known, QueueInv, OneCopy
<1> HIDE DEF j
<1>9. j \in Waits /\ Waits' = Waits \ {j}
  BY <1>1, <1>2, <1>4, <1>6, <1>7, <1>8 DEF Waits
<1> QED BY <1>1, <1>3, <1>4, <1>9, StartsOne

(* What Leave() makes of the places.                                       *)
LEMMA LeavePlaces ==
  ASSUME QueueInv, NEW t \in Tasks, task[t] = "running",
         NEW stage \in {"idle", "ended"}, Queue!Leave(t, stage),
         UNCHANGED <<fifo, sleeping>>
  PROVE  /\ current[t] \in OnNow /\ current[t] \in Jobs
         /\ OnNow' = OnNow \ {current[t]} /\ Waits' = Waits
<1>1. /\ current' = [current EXCEPT ![t] = None] /\ task' = [task EXCEPT ![t] = stage]
      /\ current \in [Tasks -> Jobs \cup {None}] /\ current[t] # None
  BY DEF Queue!Leave, QueueInv, Queue!TypeOK
<1>2. Queue!RunningJobs' = Queue!RunningJobs \ {current[t]}
  BY <1>1, Left DEF QueueInv, OneCopy
<1>3. \A u \in Tasks \ {t} : current'[u] = current[u]
  BY <1>1
<1>4. /\ OnNow' = OnNow \ {current[t]} /\ current[t] \in OnNow /\ current[t] \in Jobs
  BY <1>1, <1>3, HandleLeft
<1>5. Queue!QueuedJobs' = Queue!QueuedJobs
  BY DEF Queue!QueuedJobs
<1> QED BY <1>2, <1>4, <1>5 DEF Waits

LEMMA SucceedRefines ==
  ASSUME Known, NEW t \in Tasks, Queue!Succeed(t)
  PROVE  Refined
<1>0. PICK j \in Jobs : j = current[t]
  BY DEF Queue!Succeed, Known, QueueInv, Queue!TypeOK
<1>1. /\ task[t] = "running" /\ done' = done \cup {j} /\ Queue!Leave(t, "idle")
      /\ UNCHANGED <<fifo, sleeping, pushed, failed, jobRuns>>
  BY <1>0 DEF Queue!Succeed, Queue!delayVars
<1>2. j \in OnNow /\ j \in Jobs /\ OnNow' = OnNow \ {j} /\ Waits' = Waits
  BY <1>0, <1>1, LeavePlaces DEF Known
<1>3. /\ OthersStay(j) /\ Queue!StatusOf(j) = "running"
      /\ Queue!StatusOf(j)' = "done" /\ Queue!Lost' = Queue!Lost
  BY <1>1, <1>2 DEF Known, StatusByPlace, OnePlace, OthersStay
<1>4. Queue!Delivery!Succeed(j)
  BY <1>1, <1>2, <1>3, Moves DEF Known, Queue!Delivery!Succeed, Queue!Delivery!Become
<1> QED BY <1>2, <1>3, <1>4 DEF Refined, LossAllowed, Queue!Delivery!Next

LEMMA RaiseRefines ==
  ASSUME Known, NEW t \in Tasks, Queue!Raise(t)
  PROVE  Refined
<1>0. PICK j \in Jobs : j = current[t]
  BY DEF Queue!Raise, Known, QueueInv, Queue!TypeOK
<1>1. /\ task[t] = "running"
      /\ UNCHANGED <<fifo, sleeping, pushed, done, jobRuns>>
  BY DEF Queue!Raise, Queue!delayVars
<1>2. CASE Queue!AttemptsLeft(j)
  <2>1. task' = [task EXCEPT ![t] = "failed"] /\ UNCHANGED <<current, failed>>
    BY <1>0, <1>2 DEF Queue!Raise
  <2>2. OnNow' = OnNow \ {j} /\ j \in OnNow /\ j \in Jobs
    BY <1>0, <1>1, <2>1, HandleLeft DEF Known
  <2>3. /\ Queue!QueuedJobs' = Queue!QueuedJobs
        /\ Queue!RunningJobs' = Queue!RunningJobs
    BY <1>1, <2>1 DEF Queue!QueuedJobs, Queue!Busy, Queue!RunningJobs
  <2>4. j \in Queue!RunningJobs
    BY <2>2 DEF Known, OnePlace
  <2>5. jobRuns[j] < MaxAttempts[j]
    BY <1>2 DEF Queue!AttemptsLeft
  <2>6. Waits' = Waits \cup {j}
    BY <1>1, <2>2, <2>3, <2>4 DEF Waits
  <2>7. /\ OthersStay(j) /\ Queue!StatusOf(j) = "running"
        /\ Queue!StatusOf(j)' = "queued" /\ Queue!Lost' = Queue!Lost
    BY <1>1, <2>1, <2>2, <2>6 DEF Known, StatusByPlace, OnePlace, OthersStay
  <2>8. Queue!Delivery!Retry(j)
    BY <1>1, <2>2, <2>5, <2>7, Moves
       DEF Known, Queue!Delivery!Retry, Queue!Delivery!Become
  <2> QED BY <2>2, <2>7, <2>8 DEF Refined, LossAllowed, Queue!Delivery!Next
<1>3. CASE ~ Queue!AttemptsLeft(j)
  <2>1. failed' = failed \cup {j} /\ Queue!Leave(t, "idle")
    BY <1>0, <1>3 DEF Queue!Raise
  <2>2. j \in OnNow /\ j \in Jobs /\ OnNow' = OnNow \ {j} /\ Waits' = Waits
    BY <1>0, <1>1, <2>1, LeavePlaces DEF Known
  <2>3. jobRuns[j] = MaxAttempts[j]
    BY <1>0, <1>1, <1>3, <2>2, QueueAssumption
       DEF Queue!AttemptsLeft, Known, QueueInv, RunsCounted, Queue!TypeOK
  <2>4. /\ OthersStay(j) /\ Queue!StatusOf(j) = "running"
        /\ Queue!StatusOf(j)' = "failed" /\ Queue!Lost' = Queue!Lost
    BY <1>1, <2>1, <2>2 DEF Known, StatusByPlace, OnePlace, OthersStay
  <2>5. Queue!Delivery!GiveUp(j)
    BY <1>1, <2>2, <2>3, <2>4, Moves
       DEF Known, Queue!Delivery!GiveUp, Queue!Delivery!Become
  <2> QED BY <2>2, <2>4, <2>5 DEF Refined, LossAllowed, Queue!Delivery!Next
<1> QED BY <1>2, <1>3

LEMMA InterruptRefines ==
  ASSUME Known, NEW t \in Tasks, Queue!Interrupt(t)
  PROVE  Refined
<1>1. /\ task[t] = "running" /\ Queue!Leave(t, "ended")
      /\ UNCHANGED <<fifo, sleeping, pushed, done, failed, jobRuns>>
      /\ interrupts' > interrupts
  BY DEF Queue!Interrupt, Queue!delayVars, Queue!historyVars, Known, QueueInv,
         Queue!TypeOK
<1>2. current[t] \in OnNow /\ OnNow' = OnNow \ {current[t]} /\ Waits' = Waits
  BY <1>1, LeavePlaces DEF Known
<1>3. Waits' = Waits \ {current[t]}
  BY <1>2 DEF Known, OnePlace
<1> QED BY <1>1, <1>2, <1>3, LosesOne

LEMMA CancelWorkerRefines ==
  ASSUME Known, NEW t \in Tasks, Queue!CancelWorker(t)
  PROVE  Refined
<1>1. /\ t \in cancelled
      /\ UNCHANGED <<fifo, sleeping, pushed, done, failed, jobRuns>>
  BY DEF Queue!CancelWorker, Queue!delayVars, Queue!historyVars
<1>2. CASE task[t] = "running" /\ Queue!Leave(t, "ended")
  <2>1. current[t] \in OnNow /\ OnNow' = OnNow \ {current[t]} /\ Waits' = Waits
    BY <1>1, <1>2, LeavePlaces DEF Known
  <2>2. Waits' = Waits \ {current[t]}
    BY <2>1 DEF Known, OnePlace
  <2>3. closer # "out"
    BY <1>1, <1>2 DEF Known, QueueInv, Closing
  <2> QED BY <1>1, <2>1, <2>2, <2>3, LosesOne
<1>3. CASE /\ task[t] = "idle" /\ task' = [task EXCEPT ![t] = "ended"]
           /\ current' = current
  <2>1. \A u \in Tasks : task'[u] = "running" <=> task[u] = "running"
    BY <1>3 DEF Known, QueueInv, Queue!TypeOK
  <2>2. OnNow' = OnNow /\ Waits' = Waits
    BY <1>1, <1>3, <2>1
       DEF OnNow, Waits, Queue!QueuedJobs, Queue!Busy, Queue!RunningJobs
  <2> QED BY <1>1, <2>2, Unmoved
<1> QED BY <1>2, <1>3 DEF Queue!CancelWorker

(* close() and join() move no job themselves.                              *)
LEMMA OthersRefine ==
  ASSUME Known,
         \/ Queue!Close \/ Queue!CloseDelayedEnded \/ Queue!CloseWorkerEnded
         \/ Queue!Join \/ Queue!JoinGathered \/ Queue!JoinReturn
         \/ UNCHANGED Queue!vars
  PROVE  Refined
<1>1. UNCHANGED <<fifo, sleeping, task, current, pushed, done, failed, jobRuns>>
  BY DEF Queue!Close, Queue!CloseWorker, Queue!CloseDelayedEnded,
         Queue!CloseWorkerEnded, Queue!Join, Queue!JoinGathered, Queue!JoinReturn,
         Queue!vars, Queue!queueVars, Queue!delayVars, Queue!workerVars,
         Queue!historyVars
<1>2. OnNow' = OnNow /\ Waits' = Waits
  BY <1>1 DEF OnNow, Waits, Queue!QueuedJobs, Queue!Busy, Queue!RunningJobs
<1> QED BY <1>1, <1>2, Unmoved

(* Each step of InMemoryQueue is a step of JobDelivery, or invisible there *)
(* and loses a job only while close() runs, or with its task.              *)
LEMMA StepRefines ==
  ASSUME QueueInv, QueueInv', [Queue!Next]_(Queue!vars)
  PROVE  Refined
<1>1. Known
  BY PlacesInvariant, PlacesInvariantNext DEF Known
<1> QED BY <1>1, PushRefines, WakeRefines, CancelDelayedRefines, GetRefines,
           AgainRefines, SucceedRefines, RaiseRefines, InterruptRefines,
           CancelWorkerRefines, OthersRefine DEF Queue!Next, Queue!WorkerStep

(***************************************************************************)
(* What FairLoopSpec keeps                                                 *)
(***************************************************************************)

(* Only one of the two components takes steps, and neither's depend on the *)
(* other's.                                                                *)
LEMMA LoopInductive ==
  ASSUME IInv, QueueInv, [LoopNext]_<<shared, vars, queueVars>>
  PROVE  IInv' /\ QueueInv'
<1>1. [Next]_vars
  BY DEF LoopNext
<1>2. UNCHANGED queueVars => UNCHANGED Queue!vars
  BY DEF queueVars, Queue!vars, Queue!queueVars, Queue!delayVars, Queue!workerVars,
         Queue!closeVars, Queue!joinVars, Queue!historyVars
<1>3. [Queue!Next]_(Queue!vars)
  BY <1>2 DEF LoopNext
<1> QED BY <1>1, <1>3, NextIInv, QueueInductive

LEMMA LoopInvariant == FairLoopSpec => [](IInv /\ QueueInv)
<1>1. LoopInit => IInv /\ QueueInv
  BY InitIInv, QueueInit DEF LoopInit
<1>2. IInv /\ QueueInv /\ [LoopNext]_<<shared, vars, queueVars>> => (IInv /\ QueueInv)'
  BY LoopInductive
<1> QED BY <1>1, <1>2, PTL DEF FairLoopSpec

(* BothTypeOK, the type invariant of run EventLoop: of both components,    *)
(* that a lock is owned by who holds it, that a delayed push is tracked    *)
(* only while it sleeps and that a task has a job exactly while it runs    *)
(* one, included (idempotency.py:98-124, queue.py:122-205).                *)
THEOREM LoopTypeCorrect == FairLoopSpec => []BothTypeOK
<1>1. IInv /\ QueueInv => BothTypeOK
  BY IInvTypes DEF QueueInv, BothTypeOK
<1> QED BY <1>1, LoopInvariant, PTL

(* RunsGuarded, the property that run EventLoop checks: while the record   *)
(* does not expire, a key's operation is completed once, and twice more    *)
(* for each failure or cancellation at most, and while nothing has failed  *)
(* either, one request at a time runs it (idempotency.py:98-124). This is  *)
(* for any finite number of requests, failures and cancellations, whatever *)
(* their bodies.                                                           *)
THEOREM RunsAlwaysGuarded == FairLoopSpec => []RunsGuarded
<1>1. IInv => RunsGuarded
  BY IInvGuards
<1> QED BY <1>1, LoopInvariant, PTL

(* JoinExact, the property that run EventLoop checks: the count that       *)
(* join() trusts is right after every way a job can end, and when join()   *)
(* returns each job that was pushed before has run, or is lost             *)
(* (queue.py:150-164, 185-191).  This is for any number of jobs and        *)
(* attempts, and any finite number of worker tasks.                        *)
THEOREM JoinAlwaysExact == FairLoopSpec => []JoinExact
<1>1. QueueInv => JoinExact
  BY QueueInvJoins
<1> QED BY <1>1, LoopInvariant, PTL

(* LivesAndLosses, the property that run EventLoop checks: each job lives  *)
(* a life of JobDelivery's, and close() loses no job after it has returned *)
(* (queue.py:166-179, 181-205).                                            *)
THEOREM LivesAndLossesHold == FairLoopSpec => LivesAndLosses
<1>1. LoopInit => Queue!Delivery!Init
  <2> SUFFICES ASSUME LoopInit PROVE Queue!Delivery!Init
    OBVIOUS
  <2>1. \A j \in Jobs : Queue!StatusOf(j) = "new"
    BY QueueInit, PlacesInvariant DEF LoopInit, Queue!Init, StatusByPlace
  <2> QED BY <2>1 DEF LoopInit, Queue!Init, Queue!Delivery!Init
<1>2. QueueInv /\ QueueInv' /\ [LoopNext]_<<shared, vars, queueVars>> => Refined
  <2>1. UNCHANGED queueVars => UNCHANGED Queue!vars
    BY DEF queueVars, Queue!vars, Queue!queueVars, Queue!delayVars, Queue!workerVars,
           Queue!closeVars, Queue!joinVars, Queue!historyVars
  <2>2. [LoopNext]_<<shared, vars, queueVars>> => [Queue!Next]_(Queue!vars)
    BY <2>1 DEF LoopNext
  <2> QED BY <2>2, StepRefines
<1>3. Refined => /\ [Queue!Delivery!Next]_(Queue!Delivery!deliveryVars)
                 /\ [LossAllowed]_(Queue!vars)
  BY DEF Refined
<1> QED BY <1>1, <1>2, <1>3, LoopInvariant, PTL
        DEF FairLoopSpec, LivesAndLosses, Queue!ImplementsJobDelivery,
            Queue!Delivery!Spec, Queue!LossOnlyWhileClosing, LossAllowed

=============================================================================
