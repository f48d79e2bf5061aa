---------------------------- MODULE Queue_proofs ----------------------------
(***************************************************************************)
(* Proofs about the queues of MCQueue: RedisQueue, for any jobs, workers,  *)
(* attempts and faults; JobBatch, RedisBatch, which implements it, and     *)
(* JobChain, for any nonempty finite batch, any attempts, ttl, length and  *)
(* bounds.                                                                 *)
(***************************************************************************)
EXTENDS MCQueue, FiniteSetTheorems, TLAPS

(***************************************************************************)
(* RedisQueue: the pending list as a set of entries                        *)
(***************************************************************************)

JobsOf(s) == {e.job : e \in EntriesOf(s)}

(* LPUSH adds one entry, and keeps the jobs distinct if its job is new.    *)
LEMMA AppendEntries ==
  ASSUME NEW s \in Seq(Entry), NEW e \in Entry
  PROVE  /\ Append(s, e) \in Seq(Entry)
         /\ EntriesOf(Append(s, e)) = EntriesOf(s) \cup {e}
         /\ DistinctJobs(s) /\ e.job \notin JobsOf(s)
              => DistinctJobs(Append(s, e))
<1>1. Append(s, e) \in Seq(Entry)
  OBVIOUS
<1>2. /\ DOMAIN s = 1 .. Len(s)
      /\ DOMAIN Append(s, e) = 1 .. Len(s) + 1
      /\ \A i \in 1 .. Len(s) : Append(s, e)[i] = s[i]
      /\ Append(s, e)[Len(s) + 1] = e
      /\ Len(s) \in Nat
  OBVIOUS
<1>3. EntriesOf(Append(s, e)) = EntriesOf(s) \cup {e}
  BY <1>2 DEF EntriesOf
<1>4. ASSUME DistinctJobs(s), e.job \notin JobsOf(s)
      PROVE  DistinctJobs(Append(s, e))
  BY <1>2, <1>4 DEF DistinctJobs, JobsOf, EntriesOf
<1> QED BY <1>1, <1>3, <1>4

(* BRPOP takes one entry away; no other entry has its job.                 *)
LEMMA PopEntries ==
  ASSUME NEW s \in Seq(Entry), s # <<>>
  PROVE  /\ Head(s) \in Entry
         /\ Tail(s) \in Seq(Entry)
         /\ Head(s) \in EntriesOf(s)
         /\ EntriesOf(Tail(s)) \subseteq EntriesOf(s)
         /\ EntriesOf(s) = EntriesOf(Tail(s)) \cup {Head(s)}
         /\ DistinctJobs(s) => /\ DistinctJobs(Tail(s))
                               /\ Head(s).job \notin JobsOf(Tail(s))
<1>1. /\ Head(s) \in Entry
      /\ Tail(s) \in Seq(Entry)
  OBVIOUS
<1>2. /\ Len(s) \in Nat \ {0}
      /\ DOMAIN s = 1 .. Len(s)
      /\ DOMAIN Tail(s) = 1 .. Len(s) - 1
      /\ \A i \in 1 .. Len(s) - 1 : Tail(s)[i] = s[i + 1]
      /\ Head(s) = s[1]
  OBVIOUS
<1>3. Head(s) \in EntriesOf(s)
  BY <1>2 DEF EntriesOf
<1>4. EntriesOf(s) = EntriesOf(Tail(s)) \cup {Head(s)}
  <2>1. ASSUME NEW e \in EntriesOf(s)
        PROVE  e \in EntriesOf(Tail(s)) \cup {Head(s)}
    <3>1. PICK i \in DOMAIN s : e = s[i]
      BY <2>1 DEF EntriesOf
    <3>2. CASE i = 1
      BY <3>1, <3>2, <1>2
    <3>3. CASE i # 1
      <4>1. /\ i - 1 \in DOMAIN Tail(s)
            /\ Tail(s)[i - 1] = s[i]
        BY <3>1, <3>3, <1>2
      <4> QED BY <4>1, <3>1 DEF EntriesOf
    <3> QED BY <3>2, <3>3
  <2>2. EntriesOf(Tail(s)) \subseteq EntriesOf(s)
    BY <1>2 DEF EntriesOf
  <2> QED BY <2>1, <2>2, <1>3
<1>5. ASSUME DistinctJobs(s)
      PROVE  DistinctJobs(Tail(s)) /\ Head(s).job \notin JobsOf(Tail(s))
  BY <1>2, <1>5 DEF DistinctJobs, JobsOf, EntriesOf
<1> QED BY <1>1, <1>3, <1>4, <1>5

(***************************************************************************)
(* The inductive invariant                                                 *)
(***************************************************************************)

(* Whatever is somewhere was pushed, and nothing ran before its push.      *)
OnlyPushed == /\ Accounted \subseteq pushed
              /\ \A j \in Jobs \ pushed : runs[j] = 0
              /\ \A w \in Workers : \A e \in ready[w] : e.job \in pushed

(* An entry that waits for an attempt has counted the earlier ones.        *)
Waiting(e) == /\ runs[e.job] = e.attempts
              /\ e.attempts < MaxAttempts[e.job]

Counted(w) ==
  /\ pc[w] \in {"requeue", "popped"} => Waiting(held[w])
  /\ pc[w] = "running" => /\ runs[held[w].job] = held[w].attempts + 1
                          /\ runs[held[w].job] <= MaxAttempts[held[w].job]
  /\ pc[w] = "raised" => /\ runs[held[w].job] = held[w].attempts
                         /\ runs[held[w].job] <= MaxAttempts[held[w].job]

AttemptsCounted == /\ \A e \in InPending \cup delayed : Waiting(e)
                   /\ \A w \in Workers : Counted(w)
                   /\ ExactAttempts

(* A snapshot never names an entry that was delayed again after it was     *)
(* taken: the attempts counter of such an entry is larger.                 *)
SnapshotsOld ==
  \A w \in Workers : \A e \in ready[w] :
    /\ e.attempts <= runs[e.job]
    /\ e \in delayed => e \in due
    /\ \A v \in Workers :
         pc[v] \in {"running", "raised"} /\ held[v].job = e.job
           => e.attempts < runs[e.job]

IInv == TypeOK /\ SingleCopy /\ OnlyPushed /\ AttemptsCounted /\ SnapshotsOld

(* Every step keeps the types. *)
LEMMA TypeInductive ==
  ASSUME TypeOK,
         [Next]_vars
  PROVE  TypeOK'
<1>1. ASSUME NEW j \in Jobs, Push(j) PROVE TypeOK'
  <2>1. NewEntry(j) \in Entry
    BY DEF NewEntry, Entry
  <2>2. /\ pending' \in Seq(Entry)
        /\ delayed' \in SUBSET Entry
        /\ due' \in SUBSET delayed'
    <3>1. CASE LPush(NewEntry(j)) /\ UNCHANGED <<delayed, due>>
      BY <2>1, <3>1, AppendEntries DEF LPush, TypeOK
    <3>2. CASE ZAdd(NewEntry(j)) /\ UNCHANGED pending
      BY <2>1, <3>2 DEF ZAdd, TypeOK
    <3> QED BY <3>1, <3>2, <1>1 DEF Push
  <2>3. /\ pushed' \in SUBSET Jobs
        /\ UNCHANGED <<failed, pc, ready, held, done, runs, shutdown, faults>>
    BY <1>1 DEF Push, workerVars, envVars, TypeOK
  <2> QED BY <2>2, <2>3 DEF TypeOK
<1>2. ASSUME NEW e \in delayed, Elapse(e) PROVE TypeOK'
  BY <1>2, NoneAssumption, FaultsAssumption DEF Elapse, workerVars,
       historyVars, envVars, TypeOK, Entry, Stages, Holding
<1>3. ASSUME NEW w \in Workers, ReadDue(w) PROVE TypeOK'
  BY <1>3, NoneAssumption, FaultsAssumption DEF ReadDue, Goto, redisVars,
       historyVars, envVars, TypeOK, Entry, Stages, Holding
<1>4. ASSUME NEW w \in Workers, Stop(w) PROVE TypeOK'
  BY <1>4, NoneAssumption, FaultsAssumption DEF Stop, Goto, redisVars,
       historyVars, envVars, TypeOK, Entry, Stages, Holding
<1>5. ASSUME NEW w \in Workers, NEW e \in ready[w], Reclaim(w, e) PROVE
      TypeOK'
  BY <1>5, NoneAssumption, FaultsAssumption DEF Reclaim, Goto, Take, ZRem,
       historyVars, envVars, TypeOK, Entry, Stages, Holding
<1>6. ASSUME NEW w \in Workers, Requeue(w) PROVE TypeOK'
  BY <1>6, NoneAssumption, FaultsAssumption DEF Requeue, Goto, Take, LPush,
       historyVars, envVars, TypeOK, Entry, Stages, Holding
<1>7. ASSUME NEW w \in Workers, Pop(w) PROVE TypeOK'
  <2>1. Head(pending) \in Entry /\ Tail(pending) \in Seq(Entry)
    BY <1>7, PopEntries DEF Pop, TypeOK
  <2> QED BY <1>7, <2>1, NoneAssumption DEF Pop, Goto, Take, historyVars, envVars,
       TypeOK, Stages, Holding
<1>8. ASSUME NEW w \in Workers, PopTimeout(w) PROVE TypeOK'
  BY <1>8, NoneAssumption, FaultsAssumption DEF PopTimeout, Goto, redisVars,
       historyVars, envVars, TypeOK, Entry, Stages, Holding
<1>9. ASSUME NEW w \in Workers, Start(w) PROVE TypeOK'
  BY <1>9, NoneAssumption, FaultsAssumption DEF Start, Goto, redisVars,
       envVars, TypeOK, Entry, Stages, Holding
<1>10. ASSUME NEW w \in Workers, LoadFails(w) PROVE TypeOK'
  BY <1>10, NoneAssumption, FaultsAssumption DEF LoadFails, Goto, Take,
       redisVars, historyVars, envVars, TypeOK, Entry, Stages, Holding
<1>11. ASSUME NEW w \in Workers, Succeed(w) PROVE TypeOK'
  BY <1>11, NoneAssumption, FaultsAssumption DEF Succeed, Goto, Take,
       redisVars, envVars, TypeOK, Entry, Stages, Holding
<1>12. ASSUME NEW w \in Workers, Raise(w) PROVE TypeOK'
  BY <1>12, NoneAssumption, FaultsAssumption DEF Raise, Goto, Take,
       AttemptFailed, redisVars, historyVars, envVars, TypeOK, Entry, Stages,
       Holding
<1>13. ASSUME NEW w \in Workers, ScheduleRetry(w) PROVE TypeOK'
  BY <1>13, NoneAssumption, FaultsAssumption DEF ScheduleRetry, Goto, Take,
       ZAdd, AttemptsLeft, historyVars, envVars, TypeOK, Entry, Stages,
       Holding
<1>14. ASSUME NEW w \in Workers, Bury(w) PROVE TypeOK'
  BY <1>14, NoneAssumption, FaultsAssumption DEF Bury, Goto, Take,
       AttemptsLeft, historyVars, envVars, TypeOK, Entry, Stages, Holding
<1>15. ASSUME NEW w \in Workers, Crash(w) PROVE TypeOK'
  BY <1>15, NoneAssumption, FaultsAssumption DEF Crash, Goto, Take, redisVars,
       historyVars, TypeOK, Entry, Stages, Holding
<1>16. ASSUME NEW w \in Workers, RequestShutdown(w) PROVE TypeOK'
  BY <1>16, NoneAssumption, FaultsAssumption DEF RequestShutdown, redisVars,
       workerVars, historyVars, TypeOK, Entry, Stages, Holding
<1>17. ASSUME NEW w \in Workers, Restart(w) PROVE TypeOK'
  BY <1>17, NoneAssumption, FaultsAssumption DEF Restart, Goto, redisVars,
       historyVars, TypeOK, Entry, Stages, Holding
<1>18. ASSUME UNCHANGED vars PROVE TypeOK'
  BY <1>18 DEF vars, redisVars, workerVars, historyVars, envVars, TypeOK,
       Entry, Stages, Holding
<1> QED BY <1>1, <1>2, <1>3, <1>4, <1>5, <1>6, <1>7, <1>8, <1>9, <1>10, <1>11,
       <1>12, <1>13, <1>14, <1>15, <1>16, <1>17, <1>18 DEF Next, WorkerStep

(* A worker that lets go of its entry is no holder any more.               *)
LEMMA Release ==
  ASSUME TypeOK, OneHolder, NEW w \in Workers, Take(w, None)
  PROVE  /\ Holders' = Holders \ {w}
         /\ OneHolder'
         /\ HeldJobs' \subseteq HeldJobs
         /\ w \in Holders => /\ held[w].job \in HeldJobs
                             /\ held[w].job \notin HeldJobs'
<1>1. /\ Holders' = Holders \ {w}
      /\ \A v \in Workers \ {w} : held'[v] = held[v]
  BY DEF TypeOK, Take, Holders
<1>2. OneHolder'
  BY <1>1 DEF OneHolder, Holders
<1>3. HeldJobs' \subseteq HeldJobs
  BY <1>1 DEF HeldJobs, Holders
<1>4. ASSUME w \in Holders
      PROVE  held[w].job \in HeldJobs /\ held[w].job \notin HeldJobs'
  BY <1>1, <1>4 DEF HeldJobs, Holders, OneHolder
<1> QED BY <1>1, <1>2, <1>3, <1>4

(* A failed attempt rewrites the entry, and keeps its job.                 *)
LEMMA Raised ==
  ASSUME TypeOK, NEW w \in Workers, Raise(w)
  PROVE  /\ Holders' = Holders
         /\ \A v \in Workers : held[v] # None => held'[v].job = held[v].job
<1>1. held[w] \in Entry /\ w \in Holders
  BY DEF Raise, TypeOK, Holding, Holders
<1> QED BY <1>1, NoneAssumption DEF Raise, Take, AttemptFailed, TypeOK, Holders, Entry

(* A worker that takes an entry of a job nobody holds is its one holder.   *)
LEMMA Acquire ==
  ASSUME TypeOK, OneHolder, NEW w \in Workers, NEW e \in Entry, Take(w, e),
         held[w] = None, e.job \notin HeldJobs
  PROVE  /\ OneHolder'
         /\ HeldJobs' = HeldJobs \cup {e.job}
<1>1. /\ Holders' = Holders \cup {w}
      /\ w \notin Holders
      /\ held'[w] = e
      /\ \A v \in Workers \ {w} : held'[v] = held[v]
  BY NoneAssumption DEF TypeOK, Take, Holders
<1>2. OneHolder'
  BY <1>1 DEF OneHolder, Holders, HeldJobs
<1>3. HeldJobs' = HeldJobs \cup {e.job}
  BY <1>1 DEF HeldJobs, Holders
<1> QED BY <1>2, <1>3

(* Copies are counted by place only.                                       *)
LEMMA SamePlaces ==
  ASSUME SingleCopy, UNCHANGED <<pending, delayed, held, failed, done>>
  PROVE  SingleCopy'
<1>1. /\ QueuedJobs' = QueuedJobs /\ DelayedJobs' = DelayedJobs
      /\ HeldJobs' = HeldJobs /\ BuriedJobs' = BuriedJobs
  BY DEF QueuedJobs, DelayedJobs, HeldJobs, BuriedJobs, InPending, Holders
<1>2. DistinctJobs(pending') /\ OneHolder'
  BY DEF SingleCopy, OneHolder, Holders
<1> QED BY <1>1, <1>2 DEF SingleCopy

(* No step makes a second copy of a push.                                  *)
LEMMA SingleCopyInductive ==
  ASSUME TypeOK,
         SingleCopy,
         OnlyPushed,
         [Next]_vars
  PROVE  SingleCopy'
<1>1. ASSUME NEW j \in Jobs, Push(j) PROVE SingleCopy'
  <2>1. /\ j \notin Accounted
        /\ NewEntry(j) \in Entry
        /\ NewEntry(j).job = j
    BY <1>1 DEF Push, OnlyPushed, NewEntry, Entry
  <2>2. UNCHANGED <<held, failed, done>>
    BY <1>1 DEF Push, workerVars
  <2>3. OneHolder' /\ HeldJobs' = HeldJobs /\ BuriedJobs' = BuriedJobs
    BY <2>2 DEF SingleCopy, OneHolder, Holders, HeldJobs, BuriedJobs
  <2>4. CASE LPush(NewEntry(j)) /\ UNCHANGED <<delayed, due>>
    <3>1. /\ DistinctJobs(pending')
          /\ QueuedJobs' = QueuedJobs \cup {j}
      BY <2>1, <2>4, AppendEntries
         DEF LPush, TypeOK, SingleCopy, Accounted, QueuedJobs, InPending, JobsOf
    <3>2. DelayedJobs' = DelayedJobs
      BY <2>4 DEF DelayedJobs
    <3> QED BY <2>1, <2>2, <2>3, <2>4, <3>1, <3>2 DEF SingleCopy, Accounted
  <2>5. CASE ZAdd(NewEntry(j)) /\ UNCHANGED pending
    <3>1. DistinctJobs(pending') /\ QueuedJobs' = QueuedJobs
      BY <2>5 DEF SingleCopy, QueuedJobs, InPending
    <3>2. /\ DelayedJobs' = DelayedJobs \cup {j}
          /\ \A d, e \in delayed' : d.job = e.job => d = e
      BY <2>1, <2>5 DEF ZAdd, DelayedJobs, SingleCopy, Accounted
    <3> QED BY <2>1, <2>2, <2>3, <3>1, <3>2 DEF SingleCopy, Accounted
  <2> QED BY <2>4, <2>5, <1>1 DEF Push
<1>2. ASSUME NEW e \in delayed, Elapse(e) PROVE SingleCopy'
  BY <1>2, SamePlaces DEF Elapse, workerVars, historyVars
<1>3. ASSUME NEW w \in Workers, ReadDue(w) PROVE SingleCopy'
  BY <1>3, SamePlaces DEF ReadDue, redisVars, workerVars, historyVars
<1>4. ASSUME NEW w \in Workers, Stop(w) PROVE SingleCopy'
  BY <1>4, SamePlaces DEF Stop, redisVars, workerVars, historyVars
<1>5. ASSUME NEW w \in Workers, NEW e \in ready[w], Reclaim(w, e) PROVE
      SingleCopy'
  <2>1. UNCHANGED <<pending, failed, done>>
    BY <1>5 DEF Reclaim, historyVars
  <2>2. /\ DistinctJobs(pending') /\ QueuedJobs' = QueuedJobs
        /\ BuriedJobs' = BuriedJobs
    BY <2>1 DEF SingleCopy, QueuedJobs, InPending, BuriedJobs
  <2>3. CASE e \in delayed
    <3>1. /\ held[w] = None /\ e \in Entry /\ e.job \in DelayedJobs
          /\ e.job \notin HeldJobs
      BY <1>5, <2>3 DEF Reclaim, TypeOK, Holding, DelayedJobs, SingleCopy
    <3>2. OneHolder' /\ HeldJobs' = HeldJobs \cup {e.job}
      BY <1>5, <2>3, <3>1, Acquire DEF Reclaim, SingleCopy
    <3>3. /\ \A d, f \in delayed' : d.job = f.job => d = f
          /\ DelayedJobs' \subseteq DelayedJobs
          /\ e.job \notin DelayedJobs'
      BY <1>5, <2>3 DEF Reclaim, ZRem, DelayedJobs, SingleCopy
    <3> QED BY <2>1, <2>2, <3>1, <3>2, <3>3 DEF SingleCopy
  <2>4. CASE e \notin delayed
    <3>1. UNCHANGED <<pending, delayed, held, failed, done>>
      BY <1>5, <2>4 DEF Reclaim, ZRem, historyVars
    <3> QED BY <3>1, SamePlaces
  <2> QED BY <2>3, <2>4
<1>6. ASSUME NEW w \in Workers, Requeue(w) PROVE SingleCopy'
  <2>1. /\ w \in Holders
        /\ held[w] \in Entry
    BY <1>6 DEF Holders, Holding, TypeOK, Requeue
  <2>2. /\ OneHolder'
        /\ HeldJobs' \subseteq HeldJobs
        /\ held[w].job \in HeldJobs
        /\ held[w].job \notin HeldJobs'
    BY <2>1, <1>6, Release DEF SingleCopy, Requeue
  <2>3. UNCHANGED <<delayed, failed, done>>
    BY <1>6 DEF Requeue, historyVars
  <2>4. /\ DistinctJobs(pending')
        /\ QueuedJobs' = QueuedJobs \cup {held[w].job}
    BY <1>6, <2>1, <2>2, AppendEntries
       DEF Requeue, LPush, TypeOK, SingleCopy, QueuedJobs, InPending, JobsOf
  <2>5. DelayedJobs' = DelayedJobs /\ BuriedJobs' = BuriedJobs
    BY <2>3 DEF DelayedJobs, BuriedJobs
  <2> QED BY <2>2, <2>3, <2>4, <2>5 DEF SingleCopy
<1>7. ASSUME NEW w \in Workers, Pop(w) PROVE SingleCopy'
  <2>1. /\ Head(pending) \in Entry
        /\ DistinctJobs(Tail(pending))
        /\ QueuedJobs = QueuedJobs' \cup {Head(pending).job}
        /\ Head(pending).job \notin QueuedJobs'
    BY <1>7, PopEntries DEF Pop, TypeOK, SingleCopy, QueuedJobs, InPending, JobsOf
  <2>2. held[w] = None /\ Head(pending).job \notin HeldJobs
    BY <1>7, <2>1 DEF Pop, TypeOK, Holding, SingleCopy
  <2>3. OneHolder' /\ HeldJobs' = HeldJobs \cup {Head(pending).job}
    BY <1>7, <2>1, <2>2, Acquire DEF Pop, SingleCopy
  <2>4. UNCHANGED <<delayed, failed, done>> /\ pending' = Tail(pending)
    BY <1>7 DEF Pop, historyVars
  <2>5. DelayedJobs' = DelayedJobs /\ BuriedJobs' = BuriedJobs
    BY <2>4 DEF DelayedJobs, BuriedJobs
  <2> QED BY <2>1, <2>3, <2>4, <2>5 DEF SingleCopy
<1>8. ASSUME NEW w \in Workers, PopTimeout(w) PROVE SingleCopy'
  BY <1>8, SamePlaces DEF PopTimeout, redisVars, workerVars, historyVars
<1>9. ASSUME NEW w \in Workers, Start(w) PROVE SingleCopy'
  BY <1>9, SamePlaces DEF Start, redisVars, workerVars, historyVars
<1>10. ASSUME NEW w \in Workers, LoadFails(w) PROVE SingleCopy'
  <2>1. /\ w \in Holders
        /\ held[w] \in Entry
    BY <1>10 DEF Holders, Holding, TypeOK, LoadFails
  <2>2. /\ OneHolder'
        /\ HeldJobs' \subseteq HeldJobs
        /\ held[w].job \in HeldJobs
        /\ held[w].job \notin HeldJobs'
    BY <2>1, <1>10, Release DEF SingleCopy, LoadFails
  <2>3. UNCHANGED <<pending, delayed, failed, done>>
    BY <1>10 DEF LoadFails, redisVars, historyVars
  <2> QED BY <2>2, <2>3 DEF SingleCopy, QueuedJobs, DelayedJobs, BuriedJobs, InPending
<1>11. ASSUME NEW w \in Workers, Succeed(w) PROVE SingleCopy'
  <2>1. /\ w \in Holders
        /\ held[w] \in Entry
    BY <1>11 DEF Holders, Holding, TypeOK, Succeed
  <2>2. /\ OneHolder'
        /\ HeldJobs' \subseteq HeldJobs
        /\ held[w].job \in HeldJobs
        /\ held[w].job \notin HeldJobs'
    BY <2>1, <1>11, Release DEF SingleCopy, Succeed
  <2>3. UNCHANGED <<pending, delayed, failed>> /\ done' = done \cup {held[w].job}
    BY <1>11 DEF Succeed, redisVars
  <2>4. /\ QueuedJobs' = QueuedJobs /\ DelayedJobs' = DelayedJobs
        /\ BuriedJobs' = BuriedJobs
    BY <2>3 DEF QueuedJobs, DelayedJobs, BuriedJobs, InPending
  <2> QED BY <2>2, <2>3, <2>4 DEF SingleCopy
<1>12. ASSUME NEW w \in Workers, Raise(w) PROVE SingleCopy'
  <2>1. held[w] \in Entry /\ w \in Holders
    BY <1>12 DEF Raise, TypeOK, Holding, Holders
  <2>2. /\ Holders' = Holders
        /\ \A v \in Workers : held[v] # None => held'[v].job = held[v].job
    BY <1>12, <2>1, NoneAssumption DEF Raise, Take, AttemptFailed, TypeOK, Holders, Entry
  <2>3. OneHolder' /\ HeldJobs' = HeldJobs
    BY <2>2 DEF SingleCopy, OneHolder, HeldJobs, Holders
  <2>4. UNCHANGED <<pending, delayed, failed, done>>
    BY <1>12 DEF Raise, redisVars, historyVars
  <2> QED BY <2>3, <2>4 DEF SingleCopy, QueuedJobs, DelayedJobs, BuriedJobs, InPending
<1>13. ASSUME NEW w \in Workers, ScheduleRetry(w) PROVE SingleCopy'
  <2>1. /\ w \in Holders
        /\ held[w] \in Entry
    BY <1>13 DEF Holders, Holding, TypeOK, ScheduleRetry
  <2>2. /\ OneHolder'
        /\ HeldJobs' \subseteq HeldJobs
        /\ held[w].job \in HeldJobs
        /\ held[w].job \notin HeldJobs'
    BY <2>1, <1>13, Release DEF SingleCopy, ScheduleRetry
  <2>3. UNCHANGED <<pending, failed, done>>
    BY <1>13 DEF ScheduleRetry, historyVars
  <2>4. /\ DelayedJobs' = DelayedJobs \cup {held[w].job}
        /\ \A d, e \in delayed' : d.job = e.job => d = e
    BY <1>13, <2>2 DEF ScheduleRetry, ZAdd, SingleCopy, DelayedJobs
  <2>5. QueuedJobs' = QueuedJobs /\ BuriedJobs' = BuriedJobs
    BY <2>3 DEF QueuedJobs, BuriedJobs, InPending
  <2> QED BY <2>2, <2>3, <2>4, <2>5 DEF SingleCopy
<1>14. ASSUME NEW w \in Workers, Bury(w) PROVE SingleCopy'
  <2>1. /\ w \in Holders
        /\ held[w] \in Entry
    BY <1>14 DEF Holders, Holding, TypeOK, Bury
  <2>2. /\ OneHolder'
        /\ HeldJobs' \subseteq HeldJobs
        /\ held[w].job \in HeldJobs
        /\ held[w].job \notin HeldJobs'
    BY <2>1, <1>14, Release DEF SingleCopy, Bury
  <2>3. UNCHANGED <<pending, delayed, done>>
    BY <1>14 DEF Bury, historyVars
  <2>4. failed[held[w].job] = 0
    BY <2>1, <2>2 DEF SingleCopy, BuriedJobs, TypeOK, Entry
  <2>5. /\ BuriedJobs' = BuriedJobs \cup {held[w].job}
        /\ \A j \in Jobs : failed'[j] <= 1
    BY <1>14, <2>1, <2>4 DEF Bury, BuriedJobs, SingleCopy, TypeOK, Entry
  <2>6. QueuedJobs' = QueuedJobs /\ DelayedJobs' = DelayedJobs
    BY <2>3 DEF QueuedJobs, DelayedJobs, InPending
  <2> QED BY <2>2, <2>3, <2>5, <2>6 DEF SingleCopy
<1>15. ASSUME NEW w \in Workers, Crash(w) PROVE SingleCopy'
  <2>1. OneHolder' /\ HeldJobs' \subseteq HeldJobs
    BY <1>15, Release DEF SingleCopy, Crash
  <2>2. UNCHANGED <<pending, delayed, failed, done>>
    BY <1>15 DEF Crash, redisVars, historyVars
  <2> QED BY <2>1, <2>2 DEF SingleCopy, QueuedJobs, DelayedJobs, BuriedJobs, InPending
<1>16. ASSUME NEW w \in Workers, RequestShutdown(w) PROVE SingleCopy'
  BY <1>16, SamePlaces DEF RequestShutdown, redisVars, workerVars, historyVars
<1>17. ASSUME NEW w \in Workers, Restart(w) PROVE SingleCopy'
  BY <1>17, SamePlaces DEF Restart, redisVars, workerVars, historyVars
<1>18. ASSUME UNCHANGED vars PROVE SingleCopy'
  BY <1>18, SamePlaces DEF vars, redisVars, workerVars, historyVars
<1> QED BY <1>1, <1>2, <1>3, <1>4, <1>5, <1>6, <1>7, <1>8, <1>9, <1>10, <1>11,
       <1>12, <1>13, <1>14, <1>15, <1>16, <1>17, <1>18 DEF Next, WorkerStep

(* What LPUSH and taking an entry add to the sets of jobs.                 *)
LEMMA LPushed ==
  ASSUME TypeOK, NEW e \in Entry, LPush(e)
  PROVE  /\ InPending' = InPending \cup {e}
         /\ QueuedJobs' = QueuedJobs \cup {e.job}
BY AppendEntries DEF TypeOK, LPush, InPending, QueuedJobs

(* A worker that takes an entry adds at most its job to the jobs held.     *)
LEMMA Taken ==
  ASSUME TypeOK, NEW w \in Workers, NEW e \in Entry, Take(w, e)
  PROVE  HeldJobs' \subseteq HeldJobs \cup {e.job}
<1>1. \A v \in Workers : held'[v] = IF v = w THEN e ELSE held[v]
  BY DEF TypeOK, Take
<1> QED BY <1>1 DEF HeldJobs, Holders

(* Nothing is anywhere, and nothing ran, before its push.                  *)
LEMMA OnlyPushedInductive ==
  ASSUME TypeOK,
         OnlyPushed,
         [Next]_vars
  PROVE  OnlyPushed'
<1>1. ASSUME NEW j \in Jobs, Push(j) PROVE OnlyPushed'
  <2>1. NewEntry(j) \in Entry /\ NewEntry(j).job = j
    BY DEF NewEntry, Entry
  <2>2. /\ UNCHANGED <<held, failed, done, runs, ready>>
        /\ pushed' = pushed \cup {j}
    BY <1>1 DEF Push, workerVars
  <2>3. HeldJobs' = HeldJobs /\ BuriedJobs' = BuriedJobs
    BY <2>2 DEF HeldJobs, Holders, BuriedJobs
  <2>4. /\ QueuedJobs' \subseteq QueuedJobs \cup {j}
        /\ DelayedJobs' \subseteq DelayedJobs \cup {j}
    <3>1. CASE LPush(NewEntry(j)) /\ UNCHANGED <<delayed, due>>
      BY <2>1, <3>1, LPushed DEF DelayedJobs
    <3>2. CASE ZAdd(NewEntry(j)) /\ UNCHANGED pending
      BY <2>1, <3>2 DEF ZAdd, DelayedJobs, QueuedJobs, InPending
    <3> QED BY <3>1, <3>2, <1>1 DEF Push
  <2> QED BY <2>2, <2>3, <2>4 DEF OnlyPushed, Accounted
<1>2. ASSUME NEW e \in delayed, Elapse(e) PROVE OnlyPushed'
  BY <1>2, NoneAssumption DEF Elapse, workerVars, historyVars, envVars,
       TypeOK, OnlyPushed, Accounted, Holders, HeldJobs, DelayedJobs,
       QueuedJobs, BuriedJobs, InPending, Entry, Holding
<1>3. ASSUME NEW w \in Workers, ReadDue(w) PROVE OnlyPushed'
  BY <1>3, NoneAssumption DEF ReadDue, Goto, redisVars, historyVars, envVars,
       TypeOK, OnlyPushed, Accounted, Holders, HeldJobs, DelayedJobs,
       QueuedJobs, BuriedJobs, InPending, Entry, Holding
<1>4. ASSUME NEW w \in Workers, Stop(w) PROVE OnlyPushed'
  BY <1>4, NoneAssumption DEF Stop, Goto, redisVars, historyVars, envVars,
       TypeOK, OnlyPushed, Accounted, Holders, HeldJobs, DelayedJobs,
       QueuedJobs, BuriedJobs, InPending, Entry, Holding
<1>5. ASSUME NEW w \in Workers, NEW e \in ready[w], Reclaim(w, e) PROVE
      OnlyPushed'
  <2>1. /\ UNCHANGED <<pending, failed, pushed, done, runs>>
        /\ \A v \in Workers : ready'[v] \subseteq ready[v]
        /\ e \in Entry /\ e.job \in pushed
    BY <1>5 DEF Reclaim, historyVars, TypeOK, OnlyPushed
  <2>2. DelayedJobs' \subseteq DelayedJobs
    BY <1>5 DEF Reclaim, ZRem, DelayedJobs
  <2>3. HeldJobs' \subseteq HeldJobs \cup {e.job}
    <3>1. CASE e \in delayed
      BY <1>5, <2>1, <3>1, Taken DEF Reclaim
    <3>2. CASE e \notin delayed
      BY <1>5, <3>2 DEF Reclaim, HeldJobs, Holders
    <3> QED BY <3>1, <3>2
  <2>4. QueuedJobs' = QueuedJobs /\ BuriedJobs' = BuriedJobs
    BY <2>1 DEF QueuedJobs, InPending, BuriedJobs
  <2> QED BY <2>1, <2>2, <2>3, <2>4 DEF OnlyPushed, Accounted
<1>6. ASSUME NEW w \in Workers, Requeue(w) PROVE OnlyPushed'
  <2>1. held[w] \in Entry /\ held[w].job \in HeldJobs
    BY <1>6 DEF Requeue, TypeOK, Holding, HeldJobs, Holders
  <2>2. UNCHANGED <<delayed, failed, pushed, done, runs, ready>>
    BY <1>6 DEF Requeue, historyVars
  <2>3. QueuedJobs' = QueuedJobs \cup {held[w].job}
    BY <1>6, <2>1, LPushed DEF Requeue
  <2>4. HeldJobs' \subseteq HeldJobs
    BY <1>6 DEF Requeue, Take, TypeOK, HeldJobs, Holders
  <2>5. DelayedJobs' = DelayedJobs /\ BuriedJobs' = BuriedJobs
    BY <2>2 DEF DelayedJobs, BuriedJobs
  <2> QED BY <2>1, <2>2, <2>3, <2>4, <2>5 DEF OnlyPushed, Accounted
<1>7. ASSUME NEW w \in Workers, Pop(w) PROVE OnlyPushed'
  <2>1. /\ Head(pending) \in Entry
        /\ Head(pending).job \in QueuedJobs
        /\ QueuedJobs' \subseteq QueuedJobs
    BY <1>7, PopEntries DEF Pop, TypeOK, QueuedJobs, InPending
  <2>2. UNCHANGED <<delayed, failed, pushed, done, runs, ready>>
    BY <1>7 DEF Pop, historyVars
  <2>3. HeldJobs' \subseteq HeldJobs \cup {Head(pending).job}
    BY <1>7, <2>1, Taken DEF Pop
  <2>4. DelayedJobs' = DelayedJobs /\ BuriedJobs' = BuriedJobs
    BY <2>2 DEF DelayedJobs, BuriedJobs
  <2> QED BY <2>1, <2>2, <2>3, <2>4 DEF OnlyPushed, Accounted
<1>8. ASSUME NEW w \in Workers, PopTimeout(w) PROVE OnlyPushed'
  BY <1>8, NoneAssumption DEF PopTimeout, Goto, redisVars, historyVars,
       envVars, TypeOK, OnlyPushed, Accounted, Holders, HeldJobs, DelayedJobs,
       QueuedJobs, BuriedJobs, InPending, Entry, Holding
<1>9. ASSUME NEW w \in Workers, Start(w) PROVE OnlyPushed'
  BY <1>9, NoneAssumption DEF Start, Goto, redisVars, envVars, TypeOK,
       OnlyPushed, Accounted, Holders, HeldJobs, DelayedJobs, QueuedJobs,
       BuriedJobs, InPending, Entry, Holding
<1>10. ASSUME NEW w \in Workers, LoadFails(w) PROVE OnlyPushed'
  BY <1>10, NoneAssumption DEF LoadFails, Goto, Take, redisVars, historyVars,
       envVars, TypeOK, OnlyPushed, Accounted, Holders, HeldJobs, DelayedJobs,
       QueuedJobs, BuriedJobs, InPending, Entry, Holding
<1>11. ASSUME NEW w \in Workers, Succeed(w) PROVE OnlyPushed'
  BY <1>11, NoneAssumption DEF Succeed, Goto, Take, redisVars, envVars,
       TypeOK, OnlyPushed, Accounted, Holders, HeldJobs, DelayedJobs,
       QueuedJobs, BuriedJobs, InPending, Entry, Holding
<1>12. ASSUME NEW w \in Workers, Raise(w) PROVE OnlyPushed'
  BY <1>12, NoneAssumption DEF Raise, Goto, Take, AttemptFailed, redisVars,
       historyVars, envVars, TypeOK, OnlyPushed, Accounted, Holders, HeldJobs,
       DelayedJobs, QueuedJobs, BuriedJobs, InPending, Entry, Holding
<1>13. ASSUME NEW w \in Workers, ScheduleRetry(w) PROVE OnlyPushed'
  BY <1>13, NoneAssumption DEF ScheduleRetry, Goto, Take, ZAdd, AttemptsLeft,
       historyVars, envVars, TypeOK, OnlyPushed, Accounted, Holders, HeldJobs,
       DelayedJobs, QueuedJobs, BuriedJobs, InPending, Entry, Holding
<1>14. ASSUME NEW w \in Workers, Bury(w) PROVE OnlyPushed'
  BY <1>14, NoneAssumption DEF Bury, Goto, Take, AttemptsLeft, historyVars,
       envVars, TypeOK, OnlyPushed, Accounted, Holders, HeldJobs, DelayedJobs,
       QueuedJobs, BuriedJobs, InPending, Entry, Holding
<1>15. ASSUME NEW w \in Workers, Crash(w) PROVE OnlyPushed'
  BY <1>15, NoneAssumption DEF Crash, Goto, Take, redisVars, historyVars,
       TypeOK, OnlyPushed, Accounted, Holders, HeldJobs, DelayedJobs,
       QueuedJobs, BuriedJobs, InPending, Entry, Holding
<1>16. ASSUME NEW w \in Workers, RequestShutdown(w) PROVE OnlyPushed'
  BY <1>16, NoneAssumption DEF RequestShutdown, redisVars, workerVars,
       historyVars, TypeOK, OnlyPushed, Accounted, Holders, HeldJobs,
       DelayedJobs, QueuedJobs, BuriedJobs, InPending, Entry, Holding
<1>17. ASSUME NEW w \in Workers, Restart(w) PROVE OnlyPushed'
  BY <1>17, NoneAssumption DEF Restart, Goto, redisVars, historyVars, TypeOK,
       OnlyPushed, Accounted, Holders, HeldJobs, DelayedJobs, QueuedJobs,
       BuriedJobs, InPending, Entry, Holding
<1>18. ASSUME UNCHANGED vars PROVE OnlyPushed'
  BY <1>18 DEF vars, redisVars, workerVars, historyVars, envVars, TypeOK,
       OnlyPushed, Accounted, Holders, HeldJobs, DelayedJobs, QueuedJobs,
       BuriedJobs, InPending, Entry, Holding
<1> QED BY <1>1, <1>2, <1>3, <1>4, <1>5, <1>6, <1>7, <1>8, <1>9, <1>10, <1>11,
       <1>12, <1>13, <1>14, <1>15, <1>16, <1>17, <1>18 DEF Next, WorkerStep

(* No step miscounts the attempts.                                        *)
LEMMA AttemptsCountedInductive ==
  ASSUME TypeOK,
         SingleCopy,
         OnlyPushed,
         AttemptsCounted,
         [Next]_vars
  PROVE  AttemptsCounted'
<1>1. ASSUME NEW j \in Jobs, Push(j) PROVE AttemptsCounted'
  <2>1. /\ NewEntry(j) \in Entry /\ Waiting(NewEntry(j))
    BY <1>1, MaxAttemptsAssumption
       DEF Push, OnlyPushed, NewEntry, Entry, Waiting
  <2>2. UNCHANGED <<pc, held, failed, runs>>
    BY <1>1 DEF Push, workerVars
  <2>3. InPending' \cup delayed' \subseteq InPending \cup delayed \cup {NewEntry(j)}
    <3>1. CASE LPush(NewEntry(j)) /\ UNCHANGED <<delayed, due>>
      BY <2>1, <3>1, LPushed
    <3>2. CASE ZAdd(NewEntry(j)) /\ UNCHANGED pending
      BY <3>2 DEF ZAdd, InPending
    <3> QED BY <3>1, <3>2, <1>1 DEF Push
  <2> QED BY <2>1, <2>2, <2>3
          DEF AttemptsCounted, Counted, Waiting, ExactAttempts
<1>2. ASSUME NEW e \in delayed, Elapse(e) PROVE AttemptsCounted'
  BY <1>2, NoneAssumption, MaxAttemptsAssumption DEF Elapse, workerVars,
       historyVars, envVars, TypeOK, AttemptsCounted, Counted, Waiting,
       ExactAttempts, InPending, Entry, Holding
<1>3. ASSUME NEW w \in Workers, ReadDue(w) PROVE AttemptsCounted'
  BY <1>3, NoneAssumption, MaxAttemptsAssumption DEF ReadDue, Goto, redisVars,
       historyVars, envVars, TypeOK, AttemptsCounted, Counted, Waiting,
       ExactAttempts, InPending, Entry, Holding
<1>4. ASSUME NEW w \in Workers, Stop(w) PROVE AttemptsCounted'
  BY <1>4, NoneAssumption, MaxAttemptsAssumption DEF Stop, Goto, redisVars,
       historyVars, envVars, TypeOK, AttemptsCounted, Counted, Waiting,
       ExactAttempts, InPending, Entry, Holding
<1>5. ASSUME NEW w \in Workers, NEW e \in ready[w], Reclaim(w, e) PROVE
      AttemptsCounted'
  <2>1. UNCHANGED <<pending, failed, runs>>
    BY <1>5 DEF Reclaim, historyVars
  <2>2. InPending' = InPending /\ delayed' \subseteq delayed
    BY <1>5, <2>1 DEF Reclaim, ZRem, InPending
  <2>3. \A v \in Workers : Counted(v)'
    BY <1>5, <2>1 DEF Reclaim, Goto, Take, TypeOK, AttemptsCounted, Counted, Waiting
  <2> QED BY <2>1, <2>2, <2>3 DEF AttemptsCounted, Waiting, ExactAttempts
<1>6. ASSUME NEW w \in Workers, Requeue(w) PROVE AttemptsCounted'
  <2>1. held[w] \in Entry /\ Waiting(held[w])
    BY <1>6 DEF Requeue, TypeOK, Holding, AttemptsCounted, Counted
  <2>2. UNCHANGED <<delayed, failed, runs>>
    BY <1>6 DEF Requeue, historyVars
  <2>3. InPending' = InPending \cup {held[w]}
    BY <1>6, <2>1, LPushed DEF Requeue
  <2>4. \A v \in Workers : Counted(v)'
    BY <1>6, <2>2 DEF Requeue, Goto, Take, TypeOK, AttemptsCounted, Counted, Waiting
  <2> QED BY <2>1, <2>2, <2>3, <2>4 DEF AttemptsCounted, Waiting, ExactAttempts
<1>7. ASSUME NEW w \in Workers, Pop(w) PROVE AttemptsCounted'
  <2>1. /\ Head(pending) \in InPending
        /\ InPending' \subseteq InPending
    BY <1>7, PopEntries DEF Pop, TypeOK, InPending
  <2>2. UNCHANGED <<delayed, failed, runs>>
    BY <1>7 DEF Pop, historyVars
  <2>3. \A v \in Workers : Counted(v)'
    BY <1>7, <2>1, <2>2 DEF Pop, Goto, Take, TypeOK, AttemptsCounted, Counted, Waiting
  <2> QED BY <2>1, <2>2, <2>3 DEF AttemptsCounted, Waiting, ExactAttempts
<1>8. ASSUME NEW w \in Workers, PopTimeout(w) PROVE AttemptsCounted'
  BY <1>8, NoneAssumption, MaxAttemptsAssumption DEF PopTimeout, Goto,
       redisVars, historyVars, envVars, TypeOK, AttemptsCounted, Counted,
       Waiting, ExactAttempts, InPending, Entry, Holding
<1>9. ASSUME NEW w \in Workers, Start(w) PROVE AttemptsCounted'
  <2> DEFINE k == held[w].job
  <2>1. /\ held[w] \in Entry /\ Waiting(held[w])
        /\ w \in Holders /\ k \in HeldJobs
    BY <1>9 DEF Start, TypeOK, Holding, Holders, HeldJobs, AttemptsCounted, Counted
  <2>2. /\ UNCHANGED <<pending, delayed, held, failed>>
        /\ runs'[k] = runs[k] + 1
        /\ \A j \in Jobs \ {k} : runs'[j] = runs[j]
        /\ pc'[w] = "running"
        /\ \A v \in Workers \ {w} : pc'[v] = pc[v]
    BY <1>9, <2>1 DEF Start, Goto, redisVars, TypeOK, Entry
  <2>3. \A e \in InPending \cup delayed : e \in Entry /\ e.job # k
    BY <2>1 DEF SingleCopy, QueuedJobs, DelayedJobs, TypeOK, InPending, EntriesOf
  <2>4. \A e \in (InPending \cup delayed)' : Waiting(e)'
    BY <2>2, <2>3 DEF AttemptsCounted, Waiting, InPending, Entry
  <2>5. \A v \in Workers \ {w} : held[v] # None => held[v] \in Entry /\ held[v].job # k
    BY <2>1 DEF SingleCopy, OneHolder, Holders, TypeOK
  <2>6. \A v \in Workers \ {w} : Counted(v)'
    BY <2>2, <2>5 DEF AttemptsCounted, Counted, Waiting, TypeOK, Holding, Entry
  <2>7. Counted(w)'
    BY <2>1, <2>2, MaxAttemptsAssumption DEF Counted, Waiting, TypeOK, Entry
  <2>8. ExactAttempts'
    <3>1. failed[k] = 0
      BY <2>1 DEF SingleCopy, BuriedJobs, TypeOK, Entry
    <3>2. /\ runs'[k] <= MaxAttempts[k]
          /\ ~ failed'[k] > 0
      BY <2>1, <2>2, <3>1, MaxAttemptsAssumption DEF Waiting, TypeOK, Entry
    <3>3. \A j \in Jobs \ {k} : /\ runs'[j] = runs[j]
                                /\ failed'[j] = failed[j]
      BY <2>2
    <3> QED BY <3>2, <3>3 DEF AttemptsCounted, ExactAttempts
  <2> QED BY <2>4, <2>6, <2>7, <2>8 DEF AttemptsCounted
<1>10. ASSUME NEW w \in Workers, LoadFails(w) PROVE AttemptsCounted'
  BY <1>10, NoneAssumption, MaxAttemptsAssumption DEF LoadFails, Goto, Take,
       redisVars, historyVars, envVars, TypeOK, AttemptsCounted, Counted,
       Waiting, ExactAttempts, InPending, Entry, Holding
<1>11. ASSUME NEW w \in Workers, Succeed(w) PROVE AttemptsCounted'
  BY <1>11, NoneAssumption, MaxAttemptsAssumption DEF Succeed, Goto, Take,
       redisVars, envVars, TypeOK, AttemptsCounted, Counted, Waiting,
       ExactAttempts, InPending, Entry, Holding
<1>12. ASSUME NEW w \in Workers, Raise(w) PROVE AttemptsCounted'
  BY <1>12, NoneAssumption, MaxAttemptsAssumption DEF Raise, Goto, Take,
       AttemptFailed, redisVars, historyVars, envVars, TypeOK,
       AttemptsCounted, Counted, Waiting, ExactAttempts, InPending, Entry,
       Holding
<1>13. ASSUME NEW w \in Workers, ScheduleRetry(w) PROVE AttemptsCounted'
  BY <1>13, NoneAssumption, MaxAttemptsAssumption DEF ScheduleRetry, Goto,
       Take, ZAdd, AttemptsLeft, historyVars, envVars, TypeOK,
       AttemptsCounted, Counted, Waiting, ExactAttempts, InPending, Entry,
       Holding
<1>14. ASSUME NEW w \in Workers, Bury(w) PROVE AttemptsCounted'
  <2>1. /\ held[w] \in Entry
        /\ runs[held[w].job] = MaxAttempts[held[w].job]
    <3>1. held[w] \in Entry
      BY <1>14 DEF Bury, TypeOK, Holding
    <3>2. /\ held[w].attempts \in Nat
          /\ MaxAttempts[held[w].job] \in Nat
      BY <3>1, MaxAttemptsAssumption DEF Entry
    <3>3. /\ ~ held[w].attempts < MaxAttempts[held[w].job]
          /\ runs[held[w].job] = held[w].attempts
          /\ runs[held[w].job] <= MaxAttempts[held[w].job]
      BY <1>14 DEF Bury, AttemptsLeft, AttemptsCounted, Counted
    <3> QED BY <3>1, <3>2, <3>3
  <2>2. /\ UNCHANGED <<pending, delayed, runs>>
        /\ failed' = [failed EXCEPT ![held[w].job] = failed[held[w].job] + 1]
    BY <1>14 DEF Bury, historyVars
  <2>3. \A v \in Workers : Counted(v)'
    BY <1>14, <2>2 DEF Bury, Goto, Take, TypeOK, AttemptsCounted, Counted, Waiting
  <2>4. ExactAttempts'
    BY <2>1, <2>2 DEF AttemptsCounted, ExactAttempts, TypeOK, Entry
  <2> QED BY <2>2, <2>3, <2>4 DEF AttemptsCounted, Waiting, InPending
<1>15. ASSUME NEW w \in Workers, Crash(w) PROVE AttemptsCounted'
  BY <1>15, NoneAssumption, MaxAttemptsAssumption DEF Crash, Goto, Take,
       redisVars, historyVars, TypeOK, AttemptsCounted, Counted, Waiting,
       ExactAttempts, InPending, Entry, Holding
<1>16. ASSUME NEW w \in Workers, RequestShutdown(w) PROVE AttemptsCounted'
  BY <1>16, NoneAssumption, MaxAttemptsAssumption DEF RequestShutdown,
       redisVars, workerVars, historyVars, TypeOK, AttemptsCounted, Counted,
       Waiting, ExactAttempts, InPending, Entry, Holding
<1>17. ASSUME NEW w \in Workers, Restart(w) PROVE AttemptsCounted'
  BY <1>17, NoneAssumption, MaxAttemptsAssumption DEF Restart, Goto,
       redisVars, historyVars, TypeOK, AttemptsCounted, Counted, Waiting,
       ExactAttempts, InPending, Entry, Holding
<1>18. ASSUME UNCHANGED vars PROVE AttemptsCounted'
  BY <1>18 DEF vars, redisVars, workerVars, historyVars, envVars, TypeOK,
       AttemptsCounted, Counted, Waiting, ExactAttempts, InPending, Entry,
       Holding
<1> QED BY <1>1, <1>2, <1>3, <1>4, <1>5, <1>6, <1>7, <1>8, <1>9, <1>10, <1>11,
       <1>12, <1>13, <1>14, <1>15, <1>16, <1>17, <1>18 DEF Next, WorkerStep

(* A snapshot can only grow older.                                         *)
LEMMA SnapshotsOldInductive ==
  ASSUME TypeOK,
         SingleCopy,
         OnlyPushed,
         AttemptsCounted,
         SnapshotsOld,
         [Next]_vars
  PROVE  SnapshotsOld'
<1>1. ASSUME NEW j \in Jobs, Push(j) PROVE SnapshotsOld'
  BY <1>1, NoneAssumption DEF Push, LPush, ZAdd, NewEntry, workerVars,
       envVars, TypeOK, SingleCopy, OnlyPushed, AttemptsCounted, SnapshotsOld,
       Counted, Waiting, Accounted, Holders, HeldJobs, DelayedJobs,
       QueuedJobs, BuriedJobs, InPending, Entry, Holding
<1>2. ASSUME NEW e \in delayed, Elapse(e) PROVE SnapshotsOld'
  BY <1>2, NoneAssumption DEF Elapse, workerVars, historyVars, envVars,
       TypeOK, SingleCopy, OnlyPushed, AttemptsCounted, SnapshotsOld, Counted,
       Waiting, Accounted, Holders, HeldJobs, DelayedJobs, QueuedJobs,
       BuriedJobs, InPending, Entry, Holding
<1>3. ASSUME NEW w \in Workers, ReadDue(w) PROVE SnapshotsOld'
  <2>1. /\ UNCHANGED <<delayed, due, held, runs>>
        /\ \A v \in Workers \ {w} : ready'[v] = ready[v] /\ pc'[v] = pc[v]
        /\ ready'[w] = due /\ pc'[w] = "reclaim"
    BY <1>3 DEF ReadDue, Goto, redisVars, historyVars, TypeOK
  <2>2. \A e \in due : /\ e \in Entry /\ runs[e.job] = e.attempts
                       /\ \A v \in Holders : held[v].job # e.job
    <3>1. \A e \in due : /\ e \in Entry /\ e \in delayed
                         /\ runs[e.job] = e.attempts /\ e.job \in DelayedJobs
      BY DEF TypeOK, AttemptsCounted, Waiting, DelayedJobs
    <3>2. \A v \in Holders : held[v].job \notin DelayedJobs
      BY DEF SingleCopy, HeldJobs
    <3> QED BY <3>1, <3>2
  <2>3. \A v \in Workers : pc'[v] \in {"running", "raised"}
                             => /\ v \in Holders /\ v # w
                                /\ pc[v] \in {"running", "raised"}
    BY <2>1 DEF TypeOK, Holding, Holders
  <2>4. ASSUME NEW v \in Workers, NEW e \in ready'[v]
        PROVE  /\ e.attempts <= runs[e.job]
               /\ e \in delayed => e \in due
               /\ \A u \in Workers :
                    pc'[u] \in {"running", "raised"} /\ held[u].job = e.job
                      => e.attempts < runs[e.job]
    <3>1. CASE v = w
      BY <2>1, <2>2, <2>3, <2>4, <3>1 DEF Entry
    <3>2. CASE v # w
      BY <2>1, <2>3, <2>4, <3>2 DEF SnapshotsOld
    <3> QED BY <3>1, <3>2
  <2> QED BY <2>1, <2>4 DEF SnapshotsOld
<1>4. ASSUME NEW w \in Workers, Stop(w) PROVE SnapshotsOld'
  BY <1>4, NoneAssumption DEF Stop, Goto, redisVars, historyVars, envVars,
       TypeOK, SingleCopy, OnlyPushed, AttemptsCounted, SnapshotsOld, Counted,
       Waiting, Accounted, Holders, HeldJobs, DelayedJobs, QueuedJobs,
       BuriedJobs, InPending, Entry, Holding
<1>5. ASSUME NEW w \in Workers, NEW e \in ready[w], Reclaim(w, e) PROVE
      SnapshotsOld'
  BY <1>5, NoneAssumption DEF Reclaim, Goto, Take, ZRem, historyVars, envVars,
       TypeOK, SingleCopy, OnlyPushed, AttemptsCounted, SnapshotsOld, Counted,
       Waiting, Accounted, Holders, HeldJobs, DelayedJobs, QueuedJobs,
       BuriedJobs, InPending, Entry, Holding
<1>6. ASSUME NEW w \in Workers, Requeue(w) PROVE SnapshotsOld'
  BY <1>6, NoneAssumption DEF Requeue, Goto, Take, LPush, historyVars,
       envVars, TypeOK, SingleCopy, OnlyPushed, AttemptsCounted, SnapshotsOld,
       Counted, Waiting, Accounted, Holders, HeldJobs, DelayedJobs,
       QueuedJobs, BuriedJobs, InPending, Entry, Holding
<1>7. ASSUME NEW w \in Workers, Pop(w) PROVE SnapshotsOld'
  BY <1>7, NoneAssumption DEF Pop, Goto, Take, historyVars, envVars, TypeOK,
       SingleCopy, OnlyPushed, AttemptsCounted, SnapshotsOld, Counted,
       Waiting, Accounted, Holders, HeldJobs, DelayedJobs, QueuedJobs,
       BuriedJobs, InPending, Entry, Holding
<1>8. ASSUME NEW w \in Workers, PopTimeout(w) PROVE SnapshotsOld'
  BY <1>8, NoneAssumption DEF PopTimeout, Goto, redisVars, historyVars,
       envVars, TypeOK, SingleCopy, OnlyPushed, AttemptsCounted, SnapshotsOld,
       Counted, Waiting, Accounted, Holders, HeldJobs, DelayedJobs,
       QueuedJobs, BuriedJobs, InPending, Entry, Holding
<1>9. ASSUME NEW w \in Workers, Start(w) PROVE SnapshotsOld'
  BY <1>9, NoneAssumption DEF Start, Goto, redisVars, envVars, TypeOK,
       SingleCopy, OnlyPushed, AttemptsCounted, SnapshotsOld, Counted,
       Waiting, Accounted, Holders, HeldJobs, DelayedJobs, QueuedJobs,
       BuriedJobs, InPending, Entry, Holding
<1>10. ASSUME NEW w \in Workers, LoadFails(w) PROVE SnapshotsOld'
  BY <1>10, NoneAssumption DEF LoadFails, Goto, Take, redisVars, historyVars,
       envVars, TypeOK, SingleCopy, OnlyPushed, AttemptsCounted, SnapshotsOld,
       Counted, Waiting, Accounted, Holders, HeldJobs, DelayedJobs,
       QueuedJobs, BuriedJobs, InPending, Entry, Holding
<1>11. ASSUME NEW w \in Workers, Succeed(w) PROVE SnapshotsOld'
  BY <1>11, NoneAssumption DEF Succeed, Goto, Take, redisVars, envVars,
       TypeOK, SingleCopy, OnlyPushed, AttemptsCounted, SnapshotsOld, Counted,
       Waiting, Accounted, Holders, HeldJobs, DelayedJobs, QueuedJobs,
       BuriedJobs, InPending, Entry, Holding
<1>12. ASSUME NEW w \in Workers, Raise(w) PROVE SnapshotsOld'
  BY <1>12, NoneAssumption DEF Raise, Goto, Take, AttemptFailed, redisVars,
       historyVars, envVars, TypeOK, SingleCopy, OnlyPushed, AttemptsCounted,
       SnapshotsOld, Counted, Waiting, Accounted, Holders, HeldJobs,
       DelayedJobs, QueuedJobs, BuriedJobs, InPending, Entry, Holding
<1>13. ASSUME NEW w \in Workers, ScheduleRetry(w) PROVE SnapshotsOld'
  BY <1>13, NoneAssumption DEF ScheduleRetry, Goto, Take, ZAdd, AttemptsLeft,
       historyVars, envVars, TypeOK, SingleCopy, OnlyPushed, AttemptsCounted,
       SnapshotsOld, Counted, Waiting, Accounted, Holders, HeldJobs,
       DelayedJobs, QueuedJobs, BuriedJobs, InPending, Entry, Holding
<1>14. ASSUME NEW w \in Workers, Bury(w) PROVE SnapshotsOld'
  BY <1>14, NoneAssumption DEF Bury, Goto, Take, AttemptsLeft, historyVars,
       envVars, TypeOK, SingleCopy, OnlyPushed, AttemptsCounted, SnapshotsOld,
       Counted, Waiting, Accounted, Holders, HeldJobs, DelayedJobs,
       QueuedJobs, BuriedJobs, InPending, Entry, Holding
<1>15. ASSUME NEW w \in Workers, Crash(w) PROVE SnapshotsOld'
  BY <1>15, NoneAssumption DEF Crash, Goto, Take, redisVars, historyVars,
       TypeOK, SingleCopy, OnlyPushed, AttemptsCounted, SnapshotsOld, Counted,
       Waiting, Accounted, Holders, HeldJobs, DelayedJobs, QueuedJobs,
       BuriedJobs, InPending, Entry, Holding
<1>16. ASSUME NEW w \in Workers, RequestShutdown(w) PROVE SnapshotsOld'
  BY <1>16, NoneAssumption DEF RequestShutdown, redisVars, workerVars,
       historyVars, TypeOK, SingleCopy, OnlyPushed, AttemptsCounted,
       SnapshotsOld, Counted, Waiting, Accounted, Holders, HeldJobs,
       DelayedJobs, QueuedJobs, BuriedJobs, InPending, Entry, Holding
<1>17. ASSUME NEW w \in Workers, Restart(w) PROVE SnapshotsOld'
  BY <1>17, NoneAssumption DEF Restart, Goto, redisVars, historyVars, TypeOK,
       SingleCopy, OnlyPushed, AttemptsCounted, SnapshotsOld, Counted,
       Waiting, Accounted, Holders, HeldJobs, DelayedJobs, QueuedJobs,
       BuriedJobs, InPending, Entry, Holding
<1>18. ASSUME UNCHANGED vars PROVE SnapshotsOld'
  BY <1>18 DEF vars, redisVars, workerVars, historyVars, envVars, TypeOK,
       SingleCopy, OnlyPushed, AttemptsCounted, SnapshotsOld, Counted,
       Waiting, Accounted, Holders, HeldJobs, DelayedJobs, QueuedJobs,
       BuriedJobs, InPending, Entry, Holding
<1> QED BY <1>1, <1>2, <1>3, <1>4, <1>5, <1>6, <1>7, <1>8, <1>9, <1>10, <1>11,
       <1>12, <1>13, <1>14, <1>15, <1>16, <1>17, <1>18 DEF Next, WorkerStep

(***************************************************************************)
(* Theorems                                                                *)
(***************************************************************************)

(* The invariant holds where RedisQueue and its workers start.             *)
LEMMA InitIInv == Init => IInv
<1> SUFFICES ASSUME Init PROVE IInv
  OBVIOUS
<1>1. TypeOK
  BY FaultsAssumption DEF Init, TypeOK, Stages, Holding
<1>2. /\ QueuedJobs = {} /\ DelayedJobs = {} /\ HeldJobs = {}
      /\ BuriedJobs = {} /\ InPending = {} /\ Holders = {}
  BY DEF Init, QueuedJobs, DelayedJobs, HeldJobs, BuriedJobs, InPending,
         Holders, EntriesOf
<1>3. SingleCopy
  BY <1>2 DEF Init, SingleCopy, DistinctJobs, OneHolder
<1>4. OnlyPushed
  BY <1>2 DEF Init, OnlyPushed, Accounted
<1>5. AttemptsCounted
  BY <1>2, MaxAttemptsAssumption
     DEF Init, AttemptsCounted, Counted, ExactAttempts
<1>6. SnapshotsOld
  BY DEF Init, SnapshotsOld
<1> QED BY <1>1, <1>3, <1>4, <1>5, <1>6 DEF IInv

(* Every step of a worker, a caller or the environment keeps it.           *)
LEMMA NextIInv == IInv /\ [Next]_vars => IInv'
BY TypeInductive, SingleCopyInductive, OnlyPushedInductive,
   AttemptsCountedInductive, SnapshotsOldInductive DEF IInv

(* In every reachable state of the queue the invariant holds.              *)
THEOREM Invariance == Spec => []IInv
BY InitIInv, NextIInv, PTL DEF Spec

(* Every variable keeps its type. *)
THEOREM TypeCorrect == Spec => []TypeOK
BY Invariance, PTL DEF IInv

(* A push is never in two places, for any number of workers that reclaim,  *)
(* pop, run, crash and restart in any order.                               *)
THEOREM NoDuplicate == Spec => []SingleCopy
BY Invariance, PTL DEF IInv

(* handle() is started at most max_attempts times per push, and a buried   *)
(* job was given all of them.                                              *)
THEOREM AttemptsExact == Spec => []ExactAttempts
BY Invariance, PTL DEF IInv, AttemptsCounted

(***************************************************************************)
(* Retries are never early                                                 *)
(***************************************************************************)

(* What a step takes out of the delayed set was due: the ZREM of           *)
(* _reclaim_delayed() acts on a snapshot, all of whose entries were due.   *)
LEMMA StepNotEarly ==
  ASSUME IInv, [Next]_vars
  PROVE  delayed \ delayed' \subseteq due
<1>1. ASSUME NEW w \in Workers, NEW e \in ready[w], Reclaim(w, e)
      PROVE  delayed \ delayed' \subseteq due
  BY <1>1 DEF Reclaim, ZRem, IInv, SnapshotsOld
<1>2. ASSUME NEW j \in Jobs, Push(j) PROVE delayed \subseteq delayed'
  BY <1>2 DEF Push, ZAdd
<1>3. ASSUME NEW w \in Workers, ScheduleRetry(w) PROVE delayed \subseteq delayed'
  BY <1>3 DEF ScheduleRetry, ZAdd
<1>4. ASSUME NEW w \in Workers,
             \/ ReadDue(w) \/ Stop(w) \/ Requeue(w) \/ Pop(w) \/ PopTimeout(w)
             \/ Start(w) \/ LoadFails(w) \/ Succeed(w) \/ Raise(w) \/ Bury(w)
             \/ Crash(w) \/ RequestShutdown(w) \/ Restart(w)
      PROVE  UNCHANGED delayed
  BY <1>4 DEF ReadDue, Stop, Requeue, Pop, PopTimeout, Start, LoadFails,
       Succeed, Raise, Bury, Crash, RequestShutdown, Restart, redisVars
<1>5. ASSUME NEW e \in delayed, Elapse(e) PROVE UNCHANGED delayed
  BY <1>5 DEF Elapse
<1>6. ASSUME UNCHANGED vars PROVE UNCHANGED delayed
  BY <1>6 DEF vars, redisVars
<1> QED BY <1>1, <1>2, <1>3, <1>4, <1>5, <1>6 DEF Next, WorkerStep

(* A delayed entry is reclaimed only when its wait is over, however old    *)
(* the snapshot is by which a worker found it.                             *)
THEOREM RetryNotEarly == Spec => NoEarlyRetry
<1>1. IInv /\ [Next]_vars => [delayed \ delayed' \subseteq due]_vars
  BY StepNotEarly
<1> QED BY <1>1, Invariance, PTL DEF Spec, NoEarlyRetry

(***************************************************************************)
(* What a step does to the places of jobs                                  *)
(***************************************************************************)

Waits == QueuedJobs \cup DelayedJobs \cup (HeldJobs \ RunningJobs)
Placed == <<Waits, RunningJobs, BuriedJobs, done, pushed>>

(* The refinement mapping, by place.                                       *)
StatusByPlace ==
  \A j \in Jobs :
    /\ j \notin pushed => StatusOf(j) = "new"
    /\ j \in done => StatusOf(j) = "done"
    /\ j \in BuriedJobs => StatusOf(j) = "failed"
    /\ j \in RunningJobs => StatusOf(j) = "running"
    /\ j \in Waits => StatusOf(j) = "queued"
    /\ j \in pushed \ (Waits \cup RunningJobs \cup BuriedJobs \cup done)
         => StatusOf(j) = "lost"

(* The places exclude each other.                                          *)
OnePlace == /\ Waits \cap RunningJobs = {}
            /\ (Waits \cup RunningJobs) \cap (BuriedJobs \cup done) = {}
            /\ BuriedJobs \cap done = {}
            /\ Accounted = Waits \cup RunningJobs \cup BuriedJobs \cup done
            /\ Accounted \subseteq pushed

(* In a state of the invariant the jobs waiting, running, buried and done  *)
(* are apart, and the abstract status of a job is told by its place.       *)
LEMMA PlacesInvariant == IInv => StatusByPlace /\ OnePlace
<1> SUFFICES ASSUME IInv PROVE StatusByPlace /\ OnePlace
  OBVIOUS
<1>1. RunningJobs \subseteq HeldJobs
  BY DEF RunningJobs, HeldJobs, Holders, IInv, TypeOK, Holding
<1>2. Accounted = Waits \cup RunningJobs \cup BuriedJobs \cup done
  BY <1>1 DEF Accounted, Waits
<1>3. OnePlace
  BY <1>1, <1>2 DEF OnePlace, Waits, IInv, SingleCopy, OnlyPushed
<1>4. ASSUME NEW j \in Jobs
      PROVE  /\ j \notin pushed => StatusOf(j) = "new"
             /\ j \in done => StatusOf(j) = "done"
             /\ j \in BuriedJobs => StatusOf(j) = "failed"
             /\ j \in RunningJobs => StatusOf(j) = "running"
             /\ j \in Waits => StatusOf(j) = "queued"
             /\ j \in pushed \ (Waits \cup RunningJobs \cup BuriedJobs \cup done)
                  => StatusOf(j) = "lost"
  BY <1>2, <1>3 DEF StatusOf, OnePlace
<1> QED BY <1>3, <1>4 DEF StatusByPlace

(* A worker's pc tells whether its entry runs.                             *)
LEMMA Released ==
  ASSUME TypeOK, SingleCopy, NEW w \in Workers, w \in Holders, Take(w, None),
         NEW step \in Stages \ Holding, Goto(w, step)
  PROVE  /\ held[w] \in Entry
         /\ held[w].job \in HeldJobs
         /\ pc[w] \in {"running", "raised"} <=> held[w].job \in RunningJobs
         /\ HeldJobs' = HeldJobs \ {held[w].job}
         /\ RunningJobs' = RunningJobs \ {held[w].job}
<1>1. /\ Holders' = Holders \ {w}
      /\ HeldJobs' \subseteq HeldJobs
      /\ held[w].job \in HeldJobs
      /\ held[w].job \notin HeldJobs'
  BY Release DEF SingleCopy
<1>2. /\ \A v \in Workers \ {w} : held'[v] = held[v] /\ pc'[v] = pc[v]
      /\ pc'[w] \notin Holding
  BY DEF TypeOK, Take, Goto
<1>3. HeldJobs \subseteq HeldJobs' \cup {held[w].job}
  BY <1>1, <1>2 DEF HeldJobs, Holders
<1>4. \A v \in Workers : pc[v] \in {"running", "raised"} => v \in Holders
  BY DEF TypeOK, Holding, Holders
<1>5. \A v \in Holders \ {w} : held[v].job # held[w].job
  BY DEF SingleCopy, OneHolder
<1>6. RunningJobs' = RunningJobs \ {held[w].job}
  BY <1>2, <1>4, <1>5 DEF RunningJobs, Holding
<1>7. pc[w] \in {"running", "raised"} <=> held[w].job \in RunningJobs
  BY <1>4, <1>5 DEF RunningJobs
<1>8. held[w] \in Entry
  BY DEF TypeOK, Holders
<1> QED BY <1>1, <1>3, <1>6, <1>7, <1>8

(* A worker that moves between two stages without running a job.           *)
LEMMA Idles ==
  ASSUME TypeOK, NEW w \in Workers, NEW step \in Stages \ Holding,
         pc[w] \notin Holding, Goto(w, step), UNCHANGED held
  PROVE  HeldJobs' = HeldJobs /\ RunningJobs' = RunningJobs
<1>1. \A v \in Workers :
        pc'[v] \in {"running", "raised"} <=> pc[v] \in {"running", "raised"}
  BY DEF TypeOK, Goto, Holding
<1> QED BY <1>1 DEF HeldJobs, Holders, RunningJobs

(* A worker that takes an entry without starting handle() holds one job    *)
(* more, which does not run yet.                                           *)
LEMMA Acquired ==
  ASSUME TypeOK, SingleCopy, NEW w \in Workers, NEW e \in Entry, Take(w, e),
         pc[w] \notin Holding, e.job \notin HeldJobs,
         NEW step \in {"requeue", "popped"}, Goto(w, step)
  PROVE  /\ HeldJobs' = HeldJobs \cup {e.job}
         /\ RunningJobs' = RunningJobs
         /\ e.job \notin RunningJobs
<1>1. held[w] = None
  BY DEF TypeOK
<1>2. HeldJobs' = HeldJobs \cup {e.job}
  BY <1>1, Acquire DEF SingleCopy
<1>3. /\ \A v \in Workers \ {w} : held'[v] = held[v] /\ pc'[v] = pc[v]
      /\ pc'[w] \notin {"running", "raised"}
  BY DEF TypeOK, Take, Goto
<1>4. RunningJobs' = RunningJobs
  BY <1>3 DEF RunningJobs, Holding
<1>5. RunningJobs \subseteq HeldJobs
  BY DEF RunningJobs, HeldJobs, Holders, TypeOK, Holding
<1> QED BY <1>2, <1>4, <1>5

(***************************************************************************)
(* The refinement                                                          *)
(***************************************************************************)

(* A step that moves no job is a stutter of the abstract delivery.         *)
LEMMA Stutters ==
  ASSUME StatusByPlace, StatusByPlace',
         UNCHANGED <<Waits, RunningJobs, BuriedJobs, done, pushed, runs>>
  PROVE  UNCHANGED Delivery!deliveryVars
<1>1. ASSUME NEW j \in Jobs PROVE StatusOf(j)' = StatusOf(j)
  BY <1>1 DEF StatusByPlace
<1> QED BY <1>1 DEF Delivery!deliveryVars

(* All jobs but k are where they were.                                     *)
OthersStay(k) ==
  \A i \in Jobs \ {k} : /\ i \in Waits' <=> i \in Waits
                        /\ i \in RunningJobs' <=> i \in RunningJobs
                        /\ i \in BuriedJobs' <=> i \in BuriedJobs
                        /\ i \in done' <=> i \in done
                        /\ i \in pushed' <=> i \in pushed

(* A step that moves one job changes the abstract status of that one only. *)
LEMMA Moves ==
  ASSUME StatusByPlace, StatusByPlace', NEW k \in Jobs, OthersStay(k)
  PROVE  [j \in Jobs |-> StatusOf(j)]'
           = [[j \in Jobs |-> StatusOf(j)] EXCEPT ![k] = StatusOf(k)']
<1>1. ASSUME NEW i \in Jobs \ {k} PROVE StatusOf(i)' = StatusOf(i)
  BY <1>1 DEF StatusByPlace, OthersStay
<1> QED BY <1>1

(* The same after a step.                                                  *)
LEMMA PlacesInvariantNext == IInv' => (StatusByPlace /\ OnePlace)'
BY PlacesInvariant, PTL

(* A job is lost only if a worker that held it is dead.                    *)
LossExplained ==
  \A j \in Accounted \ Accounted' :
    \E w \in Holders : held[w].job = j /\ pc'[w] = "dead"

(* A step that moves one job takes no other out of the system, and none if *)
(* the job is in a known place afterwards.                                 *)
LEMMA MovesOnly ==
  ASSUME OnePlace, OnePlace', NEW k \in Jobs, OthersStay(k), TypeOK
  PROVE  /\ Accounted \ Accounted' \subseteq {k}
         /\ k \in Waits' \cup RunningJobs' \cup BuriedJobs' \cup done'
              => LossExplained
<1>1. Accounted \subseteq Jobs
  BY DEF OnePlace, TypeOK
<1> QED BY <1>1 DEF OnePlace, OthersStay, LossExplained

(* Each step of RedisQueue is a step of JobDelivery, or invisible there,   *)
(* and loses a job only with its worker.                                   *)
LEMMA StepRefines ==
  ASSUME IInv, IInv', [Next]_vars
  PROVE  [Delivery!Next]_(Delivery!deliveryVars) /\ LossExplained
<1> DEFINE Refined == /\ [Delivery!Next]_(Delivery!deliveryVars)
                      /\ LossExplained
<1>0. /\ TypeOK /\ SingleCopy /\ OnlyPushed /\ AttemptsCounted
      /\ StatusByPlace /\ OnePlace /\ StatusByPlace' /\ OnePlace'
  BY PlacesInvariant, PlacesInvariantNext DEF IInv
<1>0b. ExactAttempts'
  BY DEF IInv, AttemptsCounted
<1>0a. RunningJobs \subseteq HeldJobs
  BY <1>0 DEF RunningJobs, HeldJobs, Holders, TypeOK, Holding
<1>1. ASSUME NEW j \in Jobs, Push(j) PROVE Refined
  <2>1. /\ NewEntry(j) \in Entry /\ NewEntry(j).job = j
        /\ j \notin pushed /\ pushed' = pushed \cup {j}
        /\ UNCHANGED <<failed, pc, held, done, runs>>
    BY <1>1 DEF Push, NewEntry, Entry, workerVars
  <2>2. /\ HeldJobs' = HeldJobs /\ RunningJobs' = RunningJobs
        /\ BuriedJobs' = BuriedJobs
    BY <2>1 DEF HeldJobs, Holders, RunningJobs, BuriedJobs
  <2>3. QueuedJobs' \cup DelayedJobs' = QueuedJobs \cup DelayedJobs \cup {j}
    <3>1. CASE LPush(NewEntry(j)) /\ UNCHANGED <<delayed, due>>
      BY <1>0, <2>1, <3>1, LPushed DEF DelayedJobs
    <3>2. CASE ZAdd(NewEntry(j)) /\ UNCHANGED pending
      BY <2>1, <3>2 DEF ZAdd, DelayedJobs, QueuedJobs, InPending
    <3> QED BY <3>1, <3>2, <1>1 DEF Push
  <2>4. Waits' = Waits \cup {j}
    BY <2>2, <2>3 DEF Waits
  <2>5. StatusOf(j) = "new" /\ StatusOf(j)' = "queued" /\ OthersStay(j)
    BY <1>0, <2>1, <2>2, <2>4 DEF StatusByPlace, OthersStay
  <2>6. Delivery!Push(j)
    BY <1>0, <2>1, <2>5, Moves DEF Delivery!Push, Delivery!Become
  <2>7. LossExplained
    BY <1>0, <2>4, <2>5, MovesOnly
  <2> QED BY <2>6, <2>7 DEF Delivery!Next
<1>2. ASSUME NEW w \in Workers, Start(w) PROVE Refined
  <2> DEFINE k == held[w].job
  <2>1. /\ held[w] \in Entry /\ Waiting(held[w])
        /\ w \in Holders /\ k \in HeldJobs
    BY <1>0, <1>2 DEF Start, TypeOK, Holding, Holders, HeldJobs, AttemptsCounted, Counted
  <2>2. /\ UNCHANGED <<pending, delayed, held, failed, done, pushed>>
        /\ runs' = [runs EXCEPT ![k] = runs[k] + 1]
        /\ pc' = [pc EXCEPT ![w] = "running"]
    BY <1>2 DEF Start, Goto, redisVars
  <2>3. RunningJobs' = RunningJobs \cup {k}
    BY <1>0, <2>1, <2>2 DEF RunningJobs, TypeOK
  <2>4. k \notin RunningJobs
    BY <1>0, <1>2, <2>1 DEF RunningJobs, Start, TypeOK, Holding, Holders,
         SingleCopy, OneHolder
  <2>5. /\ QueuedJobs' = QueuedJobs /\ DelayedJobs' = DelayedJobs
        /\ HeldJobs' = HeldJobs /\ BuriedJobs' = BuriedJobs
    BY <2>2 DEF QueuedJobs, DelayedJobs, HeldJobs, BuriedJobs, InPending, Holders
  <2>6. k \in Waits /\ Waits' = Waits \ {k}
    BY <1>0, <2>1, <2>3, <2>4, <2>5 DEF Waits, SingleCopy
  <2>7. k \in Jobs /\ StatusOf(k) = "queued" /\ StatusOf(k)' = "running"
        /\ OthersStay(k)
    BY <1>0, <2>1, <2>2, <2>3, <2>5, <2>6 DEF StatusByPlace, OthersStay, Entry
  <2>8. runs[k] < MaxAttempts[k]
    BY <2>1 DEF Waiting
  <2>9. Delivery!Start(k)
    BY <1>0, <2>2, <2>7, <2>8, Moves DEF Delivery!Start, Delivery!Become
  <2>10. LossExplained
    BY <1>0, <2>3, <2>7, MovesOnly
  <2> QED BY <2>7, <2>9, <2>10 DEF Delivery!Next
<1>3. ASSUME NEW w \in Workers,
             LoadFails(w) \/ (Crash(w) /\ w \in Holders)
      PROVE  Refined
  <2>0. PICK k \in Jobs : k = held[w].job
    BY <1>0, <1>3 DEF LoadFails, Crash, Succeed, ScheduleRetry, Bury, TypeOK, Holders, Holding, Entry
  <2>1. /\ w \in Holders /\ Take(w, None) /\ Goto(w, "dead")
        /\ UNCHANGED <<pending, delayed, failed, done, pushed, runs>>
    BY <1>0, <1>3 DEF LoadFails, Crash, TypeOK, Holding, Holders, redisVars,
         historyVars
  <2>2. /\ k \in Jobs /\ k \in HeldJobs
        /\ HeldJobs' = HeldJobs \ {k} /\ RunningJobs' = RunningJobs \ {k}
    BY <1>0, <2>0, <2>1, Released DEF Stages, Holding, Entry
  <2>3. /\ QueuedJobs' = QueuedJobs /\ DelayedJobs' = DelayedJobs
        /\ BuriedJobs' = BuriedJobs
    BY <2>1 DEF QueuedJobs, DelayedJobs, BuriedJobs, InPending
  <2>4. k \in Waits \cup RunningJobs /\ Waits' = Waits \ {k}
    BY <1>0, <2>2, <2>3 DEF Waits, SingleCopy
  <2>5. /\ StatusOf(k) \in {"queued", "running"} /\ StatusOf(k)' = "lost"
        /\ OthersStay(k)
    BY <1>0, <2>0, <2>1, <2>2, <2>3, <2>4 DEF StatusByPlace, OnePlace, OthersStay
  <2>6. Delivery!Lose(k)
    BY <1>0, <2>0, <2>1, <2>2, <2>5, Moves DEF Delivery!Lose, Delivery!Become
  <2>7. LossExplained
    <3>1. Accounted \ Accounted' \subseteq {k} /\ pc'[w] = "dead"
      BY <1>0, <2>1, <2>5, MovesOnly DEF Goto, TypeOK
    <3> QED BY <2>0, <2>1, <3>1 DEF LossExplained
  <2> QED BY <2>2, <2>6, <2>7 DEF Delivery!Next
<1>4. ASSUME NEW w \in Workers, Succeed(w) PROVE Refined
  <2>0. PICK k \in Jobs : k = held[w].job
    BY <1>0, <1>4 DEF LoadFails, Crash, Succeed, ScheduleRetry, Bury, TypeOK, Holders, Holding, Entry
  <2>1. /\ w \in Holders /\ Take(w, None) /\ Goto(w, "poll")
        /\ pc[w] = "running"
        /\ UNCHANGED <<pending, delayed, failed, pushed, runs>>
        /\ done' = done \cup {k}
    BY <1>0, <1>4, <2>0 DEF Succeed, TypeOK, Holding, Holders, redisVars
  <2>2. /\ k \in Jobs /\ k \in HeldJobs /\ k \in RunningJobs
        /\ HeldJobs' = HeldJobs \ {k} /\ RunningJobs' = RunningJobs \ {k}
    BY <1>0, <2>0, <2>1, Released DEF Stages, Holding, Entry
  <2>3. /\ QueuedJobs' = QueuedJobs /\ DelayedJobs' = DelayedJobs
        /\ BuriedJobs' = BuriedJobs
    BY <2>1 DEF QueuedJobs, DelayedJobs, BuriedJobs, InPending
  <2>4. Waits' = Waits
    BY <2>2, <2>3 DEF Waits
  <2>5. /\ StatusOf(k) = "running" /\ StatusOf(k)' = "done" /\ OthersStay(k)
    BY <1>0, <2>0, <2>1, <2>2, <2>3, <2>4 DEF StatusByPlace, OthersStay
  <2>6. Delivery!Succeed(k)
    BY <1>0, <2>0, <2>1, <2>2, <2>5, Moves DEF Delivery!Succeed, Delivery!Become
  <2>7. LossExplained
    BY <1>0, <2>1, <2>5, MovesOnly
  <2> QED BY <2>2, <2>6, <2>7 DEF Delivery!Next
<1>5. ASSUME NEW w \in Workers, ScheduleRetry(w) PROVE Refined
  <2>0. PICK k \in Jobs : k = held[w].job
    BY <1>0, <1>5 DEF LoadFails, Crash, Succeed, ScheduleRetry, Bury, TypeOK, Holders, Holding, Entry
  <2>1. /\ w \in Holders /\ Take(w, None) /\ Goto(w, "poll")
        /\ pc[w] = "raised"
        /\ UNCHANGED <<pending, failed, pushed, done, runs>>
        /\ delayed' = delayed \cup {held[w]}
    BY <1>0, <1>5 DEF ScheduleRetry, ZAdd, TypeOK, Holding, Holders, historyVars
  <2>2. /\ k \in Jobs /\ k \in HeldJobs /\ k \in RunningJobs
        /\ HeldJobs' = HeldJobs \ {k} /\ RunningJobs' = RunningJobs \ {k}
    BY <1>0, <2>0, <2>1, Released DEF Stages, Holding, Entry
  <2>3. /\ QueuedJobs' = QueuedJobs /\ DelayedJobs' = DelayedJobs \cup {k}
        /\ BuriedJobs' = BuriedJobs
    BY <2>0, <2>1 DEF QueuedJobs, DelayedJobs, BuriedJobs, InPending
  <2>4. Waits' = Waits \cup {k}
    BY <2>2, <2>3 DEF Waits
  <2>5. /\ StatusOf(k) = "running" /\ StatusOf(k)' = "queued" /\ OthersStay(k)
    BY <1>0, <2>0, <2>1, <2>2, <2>3, <2>4 DEF StatusByPlace, OthersStay
  <2>6. runs[k] < MaxAttempts[k]
    BY <1>0, <1>5, <2>0, <2>1 DEF ScheduleRetry, AttemptsLeft, AttemptsCounted, Counted
  <2>7. Delivery!Retry(k)
    BY <1>0, <2>0, <2>1, <2>2, <2>5, <2>6, Moves DEF Delivery!Retry, Delivery!Become
  <2>8. LossExplained
    BY <1>0, <2>4, <2>5, MovesOnly
  <2> QED BY <2>2, <2>7, <2>8 DEF Delivery!Next
<1>6. ASSUME NEW w \in Workers, Bury(w) PROVE Refined
  <2>0. PICK k \in Jobs : k = held[w].job
    BY <1>0, <1>6 DEF LoadFails, Crash, Succeed, ScheduleRetry, Bury, TypeOK, Holders, Holding, Entry
  <2>1. /\ w \in Holders /\ Take(w, None) /\ Goto(w, "poll")
        /\ pc[w] = "raised"
        /\ UNCHANGED <<pending, delayed, pushed, done, runs>>
        /\ failed' = [failed EXCEPT ![k] = failed[k] + 1]
    BY <1>0, <1>6, <2>0 DEF Bury, TypeOK, Holding, Holders, historyVars
  <2>2. /\ k \in Jobs /\ k \in HeldJobs /\ k \in RunningJobs
        /\ HeldJobs' = HeldJobs \ {k} /\ RunningJobs' = RunningJobs \ {k}
    BY <1>0, <2>0, <2>1, Released DEF Stages, Holding, Entry
  <2>3. QueuedJobs' = QueuedJobs /\ DelayedJobs' = DelayedJobs
    BY <2>1 DEF QueuedJobs, DelayedJobs, InPending
  <2>4. BuriedJobs' = BuriedJobs \cup {k}
    BY <1>0, <2>0, <2>1, <2>2 DEF BuriedJobs, TypeOK
  <2>5. Waits' = Waits
    BY <2>2, <2>3 DEF Waits
  <2>6. /\ StatusOf(k) = "running" /\ StatusOf(k)' = "failed" /\ OthersStay(k)
    BY <1>0, <2>0, <2>1, <2>2, <2>4, <2>5 DEF StatusByPlace, OthersStay
  <2>7. runs[k] = MaxAttempts[k]
    BY <2>1, <2>2, <2>4, <1>0b DEF ExactAttempts, BuriedJobs
  <2>8. Delivery!GiveUp(k)
    BY <1>0, <2>0, <2>1, <2>2, <2>6, <2>7, Moves DEF Delivery!GiveUp, Delivery!Become
  <2>9. LossExplained
    BY <1>0, <2>4, <2>6, MovesOnly
  <2> QED BY <2>2, <2>8, <2>9 DEF Delivery!Next
<1>7. ASSUME UNCHANGED <<Waits, RunningJobs, BuriedJobs, done, pushed, runs>>
      PROVE  Refined
  BY <1>0, <1>7, Stutters DEF OnePlace, LossExplained
<1>8. ASSUME NEW w \in Workers, NEW e \in ready[w], Reclaim(w, e) PROVE Refined
  <2>1. UNCHANGED <<pending, failed, pushed, done, runs>>
    BY <1>8 DEF Reclaim, historyVars
  <2>2. QueuedJobs' = QueuedJobs /\ BuriedJobs' = BuriedJobs
    BY <2>1 DEF QueuedJobs, InPending, BuriedJobs
  <2>3. CASE e \in delayed
    <3>1. /\ e \in Entry /\ pc[w] \notin Holding
          /\ e.job \in DelayedJobs /\ e.job \notin HeldJobs
      BY <1>0, <1>8, <2>3 DEF Reclaim, TypeOK, Holding, DelayedJobs, SingleCopy
    <3>2. HeldJobs' = HeldJobs \cup {e.job} /\ RunningJobs' = RunningJobs
          /\ e.job \notin RunningJobs
      BY <1>0, <1>8, <2>3, <3>1, Acquired DEF Reclaim
    <3>3. DelayedJobs' = DelayedJobs \ {e.job}
      BY <1>0, <1>8, <2>3 DEF Reclaim, ZRem, DelayedJobs, SingleCopy
    <3>4. Waits' = Waits
      BY <2>2, <3>1, <3>2, <3>3 DEF Waits
    <3> QED BY <1>7, <2>1, <2>2, <3>2, <3>4
  <2>4. CASE e \notin delayed
    <3>1. UNCHANGED <<delayed, pc, held>>
      BY <1>8, <2>4 DEF Reclaim, ZRem
    <3>2. UNCHANGED <<Waits, RunningJobs>>
      BY <2>2, <3>1 DEF Waits, RunningJobs, DelayedJobs, HeldJobs, Holders
    <3> QED BY <1>7, <2>1, <2>2, <3>2
  <2> QED BY <2>3, <2>4
<1>9. ASSUME NEW w \in Workers, Requeue(w) PROVE Refined
  <2>1. /\ w \in Holders /\ held[w] \in Entry /\ pc[w] = "requeue"
        /\ Take(w, None) /\ Goto(w, "reclaim") /\ LPush(held[w])
        /\ UNCHANGED <<delayed, failed, pushed, done, runs>>
    BY <1>0, <1>9 DEF Requeue, TypeOK, Holding, Holders, historyVars
  <2>2. /\ held[w].job \in HeldJobs /\ held[w].job \notin RunningJobs
        /\ HeldJobs' = HeldJobs \ {held[w].job}
        /\ RunningJobs' = RunningJobs \ {held[w].job}
    BY <1>0, <2>1, Released DEF Stages, Holding
  <2>3. QueuedJobs' = QueuedJobs \cup {held[w].job}
    BY <1>0, <2>1, LPushed
  <2>4. DelayedJobs' = DelayedJobs /\ BuriedJobs' = BuriedJobs
    BY <2>1 DEF DelayedJobs, BuriedJobs
  <2>5. UNCHANGED <<Waits, RunningJobs>>
    BY <2>2, <2>3, <2>4 DEF Waits
  <2> QED BY <1>7, <2>1, <2>4, <2>5
<1>10. ASSUME NEW w \in Workers, Pop(w) PROVE Refined
  <2>1. /\ Head(pending) \in Entry
        /\ QueuedJobs = QueuedJobs' \cup {Head(pending).job}
    BY <1>0, <1>10, PopEntries DEF Pop, TypeOK, QueuedJobs, InPending
  <2>2. /\ pc[w] \notin Holding /\ Take(w, Head(pending)) /\ Goto(w, "popped")
        /\ UNCHANGED <<delayed, failed, pushed, done, runs>>
    BY <1>10 DEF Pop, Holding, historyVars
  <2>3. Head(pending).job \notin HeldJobs
    BY <1>0, <2>1 DEF SingleCopy
  <2>4. /\ HeldJobs' = HeldJobs \cup {Head(pending).job}
        /\ RunningJobs' = RunningJobs
        /\ Head(pending).job \notin RunningJobs
    BY <1>0, <2>1, <2>2, <2>3, Acquired
  <2>5. DelayedJobs' = DelayedJobs /\ BuriedJobs' = BuriedJobs
    BY <2>2 DEF DelayedJobs, BuriedJobs
  <2>6. Waits' = Waits
    BY <2>1, <2>4, <2>5 DEF Waits
  <2> QED BY <1>7, <2>2, <2>4, <2>5, <2>6
<1>11. ASSUME NEW w \in Workers, Raise(w) PROVE Refined
  <2>1. /\ held[w] \in Entry /\ w \in Holders /\ pc[w] = "running"
        /\ pc' = [pc EXCEPT ![w] = "raised"]
        /\ UNCHANGED <<pending, delayed, failed, pushed, done, runs>>
    BY <1>0, <1>11 DEF Raise, Goto, TypeOK, Holding, Holders, redisVars, historyVars
  <2>2. /\ Holders' = Holders
        /\ \A v \in Workers : held[v] # None => held'[v].job = held[v].job
    BY <1>0, <1>11, Raised
  <2>3. \A v \in Workers :
          pc[v] \in {"running", "raised"} => v \in Holders
    BY <1>0 DEF TypeOK, Holding, Holders
  <2>4. /\ HeldJobs' = HeldJobs
        /\ \A v \in Workers :
             pc'[v] \in {"running", "raised"} <=> pc[v] \in {"running", "raised"}
    BY <1>0, <2>1, <2>2 DEF HeldJobs, Holders, TypeOK
  <2>5. RunningJobs' = RunningJobs
    BY <2>2, <2>3, <2>4 DEF RunningJobs, Holders
  <2>6. /\ QueuedJobs' = QueuedJobs /\ DelayedJobs' = DelayedJobs
        /\ BuriedJobs' = BuriedJobs
    BY <2>1 DEF QueuedJobs, DelayedJobs, BuriedJobs, InPending
  <2> QED BY <1>7, <2>1, <2>4, <2>5, <2>6 DEF Waits
<1>12. ASSUME UNCHANGED <<pending, delayed, failed, pushed, done, runs>>,
              HeldJobs' = HeldJobs, RunningJobs' = RunningJobs
       PROVE  Refined
  <2>1. /\ QueuedJobs' = QueuedJobs /\ DelayedJobs' = DelayedJobs
        /\ BuriedJobs' = BuriedJobs
    BY <1>12 DEF QueuedJobs, DelayedJobs, BuriedJobs, InPending
  <2> QED BY <1>7, <1>12, <2>1 DEF Waits
<1>13. ASSUME NEW w \in Workers,
              \/ ReadDue(w) \/ Stop(w) \/ PopTimeout(w) \/ Restart(w)
              \/ (Crash(w) /\ w \notin Holders)
       PROVE  Refined
  <2>1. PICK step \in Stages \ Holding : Goto(w, step)
    BY <1>13 DEF ReadDue, Stop, PopTimeout, Restart, Crash, Stages, Holding
  <2>2. pc[w] \notin Holding /\ UNCHANGED held
    BY <1>0, <1>13 DEF ReadDue, Stop, PopTimeout, Restart, Crash, Take, TypeOK,
       Holding, Holders, redisVars
  <2>3. UNCHANGED <<pending, delayed, failed, pushed, done, runs>>
    BY <1>13 DEF ReadDue, Stop, PopTimeout, Restart, Crash, redisVars, historyVars
  <2> QED BY <1>0, <1>12, <2>1, <2>2, <2>3, Idles
<1>14. ASSUME \/ \E e \in delayed : Elapse(e)
              \/ \E w \in Workers : RequestShutdown(w)
              \/ UNCHANGED vars
       PROVE  Refined
  <2>1. UNCHANGED <<pending, delayed, failed, pc, held, pushed, done, runs>>
    BY <1>14 DEF Elapse, RequestShutdown, vars, redisVars, workerVars, historyVars
  <2>2. HeldJobs' = HeldJobs /\ RunningJobs' = RunningJobs
    BY <2>1 DEF HeldJobs, Holders, RunningJobs
  <2> QED BY <1>12, <2>1, <2>2
<1> QED BY <1>1, <1>2, <1>3, <1>4, <1>5, <1>6, <1>8, <1>9, <1>10, <1>11, <1>13,
       <1>14 DEF Next, WorkerStep

(* RedisQueue implements JobDelivery, for any number of workers.           *)
THEOREM Refinement == Spec => ImplementsJobDelivery
<1>1. Init => Delivery!Init
  <2> SUFFICES ASSUME Init PROVE Delivery!Init
    OBVIOUS
  <2>1. \A j \in Jobs : StatusOf(j) = "new"
    BY InitIInv, PlacesInvariant DEF Init, StatusByPlace
  <2> QED BY <2>1 DEF Init, Delivery!Init
<1>2. IInv /\ IInv' /\ [Next]_vars => [Delivery!Next]_(Delivery!deliveryVars)
  BY StepRefines
<1> QED BY <1>1, <1>2, Invariance, PTL
        DEF Spec, ImplementsJobDelivery, Delivery!Spec

(* Whatever the interleaving, a job disappears only with a process that    *)
(* held it.                                                                *)
THEOREM LossNeedsDeath == Spec => LossOnlyWithDeadWorker
<1>1. IInv /\ IInv' /\ [Next]_vars => [LossExplained]_vars
  BY StepRefines
<1> QED BY <1>1, Invariance, PTL
        DEF Spec, LossOnlyWithDeadWorker, LossExplained

(***************************************************************************)
(* The batch of the in-process tracker                                     *)
(***************************************************************************)

MemoryTypes ==
  /\ sync \in BOOLEAN
  /\ caller \in {"new", "pushing", "returned", "raised"}
  /\ at \in [Members -> Memory!Stages]
  /\ fails \in [Members -> Nat]
  /\ result \in [Members -> {"open", "ok", "failed"}]
  /\ told \in [Members -> 0 .. Cardinality(Members)]
  /\ left \in Int /\ lost \in Int /\ fired \in Nat
  /\ gone \in 0 .. MaxLosses

MemoryOpen == {m \in Members : result[m] = "open"}
MemoryFailed == {m \in Members : result[m] = "failed"}

BeforeResult == {"none", "queued", "running"}
ResultByStage ==
  \A m \in Members :
    /\ at[m] \in BeforeResult => result[m] = "open"
    /\ result[m] = "open" => at[m] \in BeforeResult \cup {"lost"}

(* Before tracker.create() nothing is pushed, and since then `pending` is  *)
(* the number of members that have not been counted, `failed` that of      *)
(* those which failed.                                                     *)
LeftIsOpen ==
  /\ caller = "new" => MemoryOpen = Members /\ \A m \in Members : at[m] = "none"
  /\ left = IF caller = "new" THEN 0 ELSE Cardinality(MemoryOpen)
  /\ lost = Cardinality(MemoryFailed)

(* The member that was told that nothing is pending was the last.          *)
LastHere(m) == result[m] # "open" /\ told[m] = 0
OneLastHere ==
  /\ \A m \in Members : LastHere(m) => MemoryOpen = {}
  /\ \A m, n \in Members : LastHere(m) /\ LastHere(n) => m = n

FiredByLast ==
  \/ fired = 0
  \/ fired = 1 /\ \E m \in Members : LastHere(m) /\ at[m] \in {"fired", "finished", "lost"}

MemoryInv == MemoryTypes /\ ResultByStage /\ LeftIsOpen /\ OneLastHere /\ FiredByLast

(* Expressions of both trackers' proofs: Cardinality is one operator, and  *)
(* what is removed from the open members is counted once.                  *)
LEMMA SameCardinality ==
  /\ \A S : Memory!Cardinality(S) = Cardinality(S)
  /\ \A S : Redis!Cardinality(S) = Cardinality(S)
  /\ \A S : Redis!Batch!Cardinality(S) = Cardinality(S)
BY DEF Memory!Cardinality, Redis!Cardinality, Redis!Batch!Cardinality, Cardinality

LEMMA PartsAreFinite ==
  ASSUME NEW S \in SUBSET Members
  PROVE  IsFiniteSet(S) /\ Cardinality(S) \in 0 .. Cardinality(Members)
BY BatchAssumption, FS_Subset, FS_CardinalityType

LEMMA InitMemory ==
  ASSUME Memory!Init
  PROVE  MemoryInv
<1>1. MemoryOpen = Members /\ MemoryFailed = {}
  BY DEF Memory!Init, MemoryOpen, MemoryFailed
<1>2. Cardinality(Members) \in Nat /\ Cardinality({}) = 0
  BY BatchAssumption, FS_CardinalityType, FS_EmptySet
<1>3. MemoryTypes
  BY <1>2, BatchAssumption DEF Memory!Init, MemoryTypes, Memory!Stages
<1> QED BY <1>1, <1>2, <1>3
        DEF Memory!Init, MemoryInv, ResultByStage, LeftIsOpen, OneLastHere, LastHere,
            FiredByLast, BeforeResult

(* Steps that leave the outcomes alone.                                    *)
LEMMA SameResults ==
  ASSUME MemoryInv, MemoryTypes', UNCHANGED <<result, told, lost, fired>>,
         caller # "new" => caller' # "new" /\ left' = left,
         caller' = "new" => at' = at /\ left' = left,
         caller = "new" /\ caller' # "new" => left' = Cardinality(MemoryOpen),
         \A m \in Members :
           \/ at'[m] = at[m]
           \/ at[m] \in BeforeResult /\ at'[m] \in BeforeResult
           \/ at[m] \in BeforeResult \cup {"recorded", "fired"} /\ at'[m] = "lost"
           \/ at[m] \in {"recorded", "fired"} /\ at'[m] = "finished"
  PROVE  MemoryInv'
<1>1. MemoryOpen' = MemoryOpen /\ MemoryFailed' = MemoryFailed
  BY DEF MemoryOpen, MemoryFailed
<1>2. ResultByStage'
  BY DEF MemoryInv, ResultByStage, BeforeResult
<1>3. LeftIsOpen'
  BY <1>1 DEF MemoryInv, MemoryTypes, LeftIsOpen
<1>4. OneLastHere'
  BY <1>1 DEF MemoryInv, OneLastHere, LastHere
<1>5. FiredByLast'
  BY DEF MemoryInv, FiredByLast, LastHere, BeforeResult
<1> QED BY <1>2, <1>3, <1>4, <1>5 DEF MemoryInv

LEMMA CallerStep ==
  ASSUME MemoryInv, Memory!Create \/ Memory!DispatchReturns \/ Memory!DispatchFails
  PROVE  MemoryInv'
<1>1. CASE Memory!Create
  <2>1. /\ caller = "new" /\ caller' = "pushing"
        /\ left' = Cardinality(Members) /\ lost' = 0
        /\ UNCHANGED <<sync, at, fails, result, told, fired, gone>>
    BY <1>1, SameCardinality DEF Memory!Create, Memory!memberVars
  <2>2. MemoryOpen = Members /\ MemoryFailed = {}
    BY <2>1 DEF MemoryInv, LeftIsOpen, MemoryOpen, MemoryFailed
  <2>3. lost' = lost
    BY <2>1, <2>2, FS_EmptySet DEF MemoryInv, LeftIsOpen
  <2>4. MemoryTypes'
    BY <2>1, BatchAssumption, FS_CardinalityType DEF MemoryInv, MemoryTypes
  <2> QED BY <2>1, <2>2, <2>3, <2>4, SameResults
<1>2. CASE Memory!DispatchReturns \/ Memory!DispatchFails
  <2>1. /\ caller # "new" /\ caller' \in {"returned", "raised"}
        /\ gone' \in {gone, gone + 1} /\ (gone' # gone => gone < MaxLosses)
        /\ UNCHANGED <<sync, at, fails, result, told, left, lost, fired>>
    BY <1>2 DEF Memory!DispatchReturns, Memory!DispatchFails, Memory!memberVars,
                Memory!trackerVars
  <2>2. MemoryTypes'
    BY <2>1, BatchAssumption DEF MemoryInv, MemoryTypes
  <2> QED BY <2>1, <2>2, SameResults
<1> QED BY <1>1, <1>2

LEMMA QuietMemoryStep ==
  ASSUME MemoryInv, NEW m \in Members,
         \/ Memory!Dispatch(m) \/ Memory!Begin(m) \/ Memory!TryAgain(m)
         \/ Memory!Finish(m) \/ Memory!Lose(m)
  PROVE  MemoryInv'
<1>1. /\ UNCHANGED <<sync, result, told, left, lost, fired>>
      /\ caller' \in {caller, "raised"}
      /\ gone' \in {gone, gone + 1} /\ (gone' # gone => gone < MaxLosses)
  BY DEF Memory!Dispatch, Memory!Begin, Memory!TryAgain, Memory!Finish, Memory!Lose,
         Memory!trackerVars
<1>2. at[m] # "none" \/ caller = "pushing"
  BY DEF Memory!Dispatch, Memory!Begin, Memory!TryAgain, Memory!Finish, Memory!Lose,
         Memory!Move
<1>3. caller # "new"
  BY <1>2 DEF MemoryInv, LeftIsOpen
<1>4. \E s \in Memory!Stages :
        /\ at' = [at EXCEPT ![m] = s]
        /\ \/ s = at[m]
           \/ at[m] \in BeforeResult /\ s \in BeforeResult
           \/ at[m] \in BeforeResult \cup {"recorded", "fired"} /\ s = "lost"
           \/ at[m] \in {"recorded", "fired"} /\ s = "finished"
  <2>1. CASE Memory!TryAgain(m)
    BY <2>1 DEF Memory!TryAgain, MemoryInv, MemoryTypes
  <2>2. CASE Memory!Dispatch(m) \/ Memory!Begin(m)
    BY <2>2 DEF Memory!Dispatch, Memory!Begin, Memory!Move, BeforeResult, Memory!Stages
  <2>3. CASE Memory!Finish(m)
    BY <2>3 DEF Memory!Finish, Memory!Move, Memory!Stages
  <2>4. CASE Memory!Lose(m)
    BY <2>4 DEF Memory!Lose, BeforeResult, Memory!Stages
  <2> QED BY <2>1, <2>2, <2>3, <2>4
<1>5. fails' \in {fails, [fails EXCEPT ![m] = @ + 1]}
  BY DEF Memory!Dispatch, Memory!Begin, Memory!TryAgain, Memory!Finish, Memory!Lose
<1>6. fails' \in [Members -> Nat]
  BY <1>5 DEF MemoryInv, MemoryTypes
<1>7. gone' \in 0 .. MaxLosses
  BY <1>1, BatchAssumption DEF MemoryInv, MemoryTypes
<1>8. MemoryTypes'
  BY <1>1, <1>4, <1>6, <1>7 DEF MemoryInv, MemoryTypes
<1> QED BY <1>1, <1>3, <1>4, <1>8, SameResults DEF MemoryInv, MemoryTypes

(* Who is counted was open, so nobody was the last before.                 *)
LEMMA RecordInductive ==
  ASSUME MemoryInv, NEW m \in Members, Memory!Record(m)
  PROVE  MemoryInv'
<1>1. PICK o \in {"ok", "failed"} : /\ result' = [result EXCEPT ![m] = o]
                                    /\ lost' = IF o = "failed" THEN lost + 1 ELSE lost
  BY DEF Memory!Record, Memory!Outcomes
<1>2. /\ at[m] = "running" /\ at' = [at EXCEPT ![m] = "recorded"]
      /\ left' = left - 1 /\ told' = [told EXCEPT ![m] = left']
      /\ UNCHANGED <<sync, caller, fails, fired, gone>>
  BY DEF Memory!Record, Memory!Move
<1>3. m \in MemoryOpen /\ caller # "new"
  BY <1>2 DEF MemoryInv, MemoryTypes, ResultByStage, LeftIsOpen, MemoryOpen, BeforeResult
<1>4. MemoryOpen' = MemoryOpen \ {m}
  BY <1>1 DEF MemoryInv, MemoryTypes, MemoryOpen
<1>5. MemoryOpen \in SUBSET Members /\ MemoryOpen' \in SUBSET Members
  BY <1>4 DEF MemoryOpen
<1>6. left' = Cardinality(MemoryOpen')
  BY <1>2, <1>3, <1>4, <1>5, PartsAreFinite, FS_RemoveElement DEF MemoryInv, LeftIsOpen
<1>7. lost' = Cardinality(MemoryFailed')
  <2>1. MemoryFailed' = IF o = "failed" THEN MemoryFailed \cup {m} ELSE MemoryFailed
    BY <1>1, <1>3 DEF MemoryInv, MemoryTypes, MemoryFailed, MemoryOpen
  <2>2. MemoryFailed \in SUBSET Members /\ m \notin MemoryFailed
    BY <1>3 DEF MemoryFailed, MemoryOpen
  <2> QED BY <1>1, <2>1, <2>2, PartsAreFinite, FS_AddElement DEF MemoryInv, LeftIsOpen
<1>8. MemoryTypes'
  <2>1. left' \in 0 .. Cardinality(Members)
    BY <1>5, <1>6, PartsAreFinite
  <2>2. lost' \in Int
    BY <1>1 DEF MemoryInv, MemoryTypes
  <2> QED BY <1>1, <1>2, <2>1, <2>2 DEF MemoryInv, MemoryTypes, Memory!Stages
<1>9. ResultByStage'
  BY <1>1, <1>2 DEF MemoryInv, MemoryTypes, ResultByStage, BeforeResult
<1>10. \A n \in Members : ~LastHere(n)
  BY <1>3 DEF MemoryInv, OneLastHere
<1>11. \A n \in Members : n # m => ~LastHere(n)'
  BY <1>1, <1>2, <1>10 DEF LastHere, MemoryInv, MemoryTypes
<1>12. LastHere(m)' => MemoryOpen' = {}
  <2>1. LastHere(m)' => left' = 0
    BY <1>2 DEF LastHere, MemoryInv, MemoryTypes
  <2>2. IsFiniteSet(MemoryOpen')
    BY <1>5, PartsAreFinite
  <2> QED BY <1>6, <2>1, <2>2, FS_EmptySet
<1>13. fired' = 0
  BY <1>2, <1>10 DEF MemoryInv, FiredByLast
<1> QED BY <1>2, <1>3, <1>6, <1>7, <1>8, <1>9, <1>11, <1>12, <1>13
        DEF MemoryInv, LeftIsOpen, OneLastHere, FiredByLast

LEMMA FireInductive ==
  ASSUME MemoryInv, NEW m \in Members, Memory!Fire(m)
  PROVE  MemoryInv'
<1>1. /\ at[m] = "recorded" /\ at' = [at EXCEPT ![m] = "fired"]
      /\ told[m] = 0 /\ fired' = fired + 1
      /\ UNCHANGED <<sync, caller, fails, result, told, left, lost, gone>>
  BY DEF Memory!Fire, Memory!Move, Memory!trackerVars
<1>2. LastHere(m)
  BY <1>1 DEF MemoryInv, ResultByStage, LastHere, BeforeResult
<1>3. fired = 0
  BY <1>1, <1>2 DEF MemoryInv, OneLastHere, FiredByLast
<1>4. /\ MemoryTypes' /\ caller # "new"
      /\ MemoryOpen' = MemoryOpen /\ MemoryFailed' = MemoryFailed
  BY <1>1, <1>3
     DEF MemoryInv, MemoryTypes, Memory!Stages, MemoryOpen, MemoryFailed, LeftIsOpen
<1>5. ResultByStage' /\ OneLastHere' /\ FiredByLast'
  BY <1>1, <1>2, <1>3, <1>4
     DEF MemoryInv, MemoryTypes, ResultByStage, OneLastHere, LastHere, FiredByLast, BeforeResult
<1> QED BY <1>1, <1>4, <1>5 DEF MemoryInv, LeftIsOpen

LEMMA NextMemory ==
  ASSUME MemoryInv, [Memory!Next]_memoryVars
  PROVE  MemoryInv'
<1>1. CASE UNCHANGED memoryVars
  BY <1>1 DEF memoryVars, MemoryInv, MemoryTypes, ResultByStage, LeftIsOpen, OneLastHere,
              FiredByLast, LastHere, MemoryOpen, MemoryFailed
<1>2. CASE Memory!Next
  BY <1>2, CallerStep, QuietMemoryStep, RecordInductive, FireInductive
     DEF Memory!Next, Memory!MemberStep
<1> QED BY <1>1, <1>2

LEMMA MemoryHolds ==
  ASSUME MemoryInv
  PROVE  Memory!TypeOK /\ Memory!ThenOnceAfterAll
<1>1. MemoryOpen \in SUBSET Members /\ MemoryFailed \in SUBSET Members
  BY DEF MemoryOpen, MemoryFailed
<1>2. left \in 0 .. Cardinality(Members) /\ lost \in 0 .. Cardinality(Members)
  BY <1>1, PartsAreFinite, FS_CardinalityType, BatchAssumption DEF MemoryInv, LeftIsOpen
<1>3. Memory!TypeOK
  BY <1>2, SameCardinality DEF MemoryInv, MemoryTypes, Memory!TypeOK
<1>4. Memory!ThenOnceAfterAll
  BY DEF MemoryInv, FiredByLast, OneLastHere, MemoryOpen, Memory!ThenOnceAfterAll
<1> QED BY <1>3, <1>4

(***************************************************************************)
(* The batch of the tracker in Redis                                       *)
(***************************************************************************)

RedisTypes ==
  /\ lasting \in BOOLEAN
  /\ dispatcher \in {"new", "pushing", "returned", "raised"}
  /\ stage \in [Members -> Redis!Stages]
  /\ tries \in [Members -> Nat]
  /\ outcome \in [Members -> {"open", "ok", "failed"}]
  /\ seen \in [Members -> Int]
  /\ thens \in Nat
  /\ losses \in 0 .. MaxLosses
  /\ key \in [Redis!Keys -> Int \cup {Gone}]
  /\ age \in [Redis!Keys -> 0 .. TTL]
  /\ gotThen \in [Members -> BOOLEAN]
  /\ ticks \in 0 .. MaxTicks

RedisOpen == {m \in Members : outcome[m] = "open"}
RedisTallied == {m \in Members : outcome[m] = "failed" /\ stage[m] # "counted"}

OutcomeByStage ==
  \A m \in Members :
    /\ stage[m] \in BeforeResult => outcome[m] = "open"
    /\ outcome[m] = "open" => stage[m] \in BeforeResult \cup {"lost"}

(* Nothing is in Redis before create().                                    *)
NewIsNew ==
  dispatcher = "new" =>
    /\ \A m \in Members : stage[m] = "none"
    /\ \A k \in Redis!Keys : key[k] = Gone

(* "pending" is the number of members that have not been counted.  Once it *)
(* has expired, DECR counts from zero: no member will be told zero.        *)
PendingIsOpen ==
  dispatcher # "new" /\ key["pending"] # Gone =>
    \/ key["pending"] = Cardinality(RedisOpen)
    \/ key["pending"] < 0

(* None of the counters gets below what a member counts down from zero, or *)
(* above the members there are.                                            *)
CountersBounded ==
  /\ key["pending"] # Gone =>
       /\ key["pending"] <= Cardinality(Members)
       /\ key["pending"] + Cardinality(Members) >= Cardinality(RedisOpen)
  /\ key["failed"] # Gone =>
       0 <= key["failed"] /\ key["failed"] <= Cardinality(RedisTallied)
  /\ key["total"] \in {Gone, Cardinality(Members)}
  /\ key["then"] \in {Gone, 1}
  /\ \A m \in Members : seen[m] \in -Cardinality(Members) .. Cardinality(Members)

LastThere(m) == outcome[m] # "open" /\ seen[m] = 0
OneLastThere ==
  /\ \A m \in Members : LastThere(m) => RedisOpen = {}
  /\ \A m, n \in Members : LastThere(m) /\ LastThere(n) => m = n

ThenByLast ==
  /\ \A m \in Members : stage[m] = "thenRead" => seen[m] = 0
  /\ \/ thens = 0
     \/ thens = 1 /\ \E m \in Members : /\ LastThere(m)
                                        /\ stage[m] \in {"fired", "finished", "lost"}

(* As long as no key expires, the counts are exact and `then` is found.    *)
ExactIfLasting ==
  lasting =>
    /\ dispatcher # "new" =>
         key["pending"] = Cardinality(RedisOpen) /\ key["then"] # Gone
    /\ \A m \in Members : stage[m] = "thenRead" => gotThen[m]

RedisInv ==
  /\ RedisTypes /\ OutcomeByStage /\ NewIsNew /\ PendingIsOpen /\ CountersBounded
  /\ OneLastThere /\ ThenByLast /\ ExactIfLasting

LEMMA InitRedis ==
  ASSUME Redis!Init
  PROVE  RedisInv
<1>1. RedisTypes
  BY BatchAssumption DEF Redis!Init, RedisTypes, Redis!Stages
<1>2. Cardinality(Members) \in Nat
  BY BatchAssumption, FS_CardinalityType
<1>3. CountersBounded
  BY <1>2 DEF Redis!Init, CountersBounded, Redis!Keys
<1> QED BY <1>1, <1>3
        DEF Redis!Init, RedisInv, OutcomeByStage, NewIsNew, PendingIsOpen, OneLastThere,
            LastThere, ThenByLast, ExactIfLasting, BeforeResult

(* Steps that leave the outcomes alone: a key is kept, or it expires, and  *)
(* a member goes on without being counted.                                 *)
KeptOrGone(k) == key'[k] = key[k] \/ (~lasting /\ key'[k] = Gone)
Onward(m) ==
  \/ stage'[m] = stage[m] /\ gotThen'[m] = gotThen[m]
  \/ stage[m] \in BeforeResult /\ stage'[m] \in BeforeResult
  \/ stage[m] # "none" /\ stage'[m] = "lost"
  \/ stage[m] \in {"tallied", "kept"} /\ stage'[m] \in {"kept", "recorded"}
  \/ /\ stage[m] = "recorded" /\ stage'[m] = "thenRead"
     /\ seen[m] = 0 /\ (key["then"] # Gone => gotThen'[m])
  \/ stage[m] \in {"recorded", "thenRead", "fired"} /\ stage'[m] = "finished"

LEMMA SameOutcomes ==
  ASSUME RedisInv, RedisTypes',
         lasting' = lasting, outcome' = outcome, seen' = seen, thens' = thens,
         dispatcher # "new", dispatcher' # "new",
         \A k \in Redis!Keys : KeptOrGone(k), \A m \in Members : Onward(m)
  PROVE  RedisInv'
<1>1. RedisOpen' = RedisOpen
  BY DEF RedisOpen
<1>2. /\ RedisTallied \in SUBSET Members /\ RedisTallied' \in SUBSET Members
      /\ RedisTallied \subseteq RedisTallied'
  BY DEF RedisTallied, BeforeResult, RedisInv, OutcomeByStage, Onward
<1>3. Cardinality(RedisTallied) <= Cardinality(RedisTallied')
  BY <1>2, PartsAreFinite, FS_Subset
<1>4. /\ Cardinality(RedisTallied) \in Nat /\ Cardinality(RedisTallied') \in Nat
  BY <1>2, PartsAreFinite, BatchAssumption, FS_CardinalityType
<1>5. OutcomeByStage' /\ NewIsNew'
  BY DEF RedisInv, OutcomeByStage, NewIsNew, BeforeResult, Onward
<1>6. key'["pending"] \in {key["pending"], Gone} /\ key'["failed"] \in {key["failed"], Gone}
      /\ key'["total"] \in {key["total"], Gone} /\ key'["then"] \in {key["then"], Gone}
  BY DEF Redis!Keys, KeptOrGone
<1>7. PendingIsOpen'
  BY <1>1, <1>6 DEF RedisInv, PendingIsOpen
<1>8. CountersBounded'
  <2>1. key["failed"] # Gone => key["failed"] \in Int
    BY DEF RedisInv, RedisTypes, Redis!Keys
  <2> QED BY <1>1, <1>3, <1>4, <1>6, <2>1 DEF RedisInv, CountersBounded
<1>9. OneLastThere'
  BY <1>1 DEF RedisInv, OneLastThere, LastThere
<1>10. ThenByLast'
  BY DEF RedisInv, ThenByLast, LastThere, BeforeResult, Onward
<1>11. ExactIfLasting'
  BY <1>1, <1>6 DEF RedisInv, ExactIfLasting, Redis!Keys, KeptOrGone, BeforeResult, Onward
<1> QED BY <1>5, <1>7, <1>8, <1>9, <1>10, <1>11 DEF RedisInv

LEMMA CreateInductive ==
  ASSUME RedisInv, Redis!Create
  PROVE  RedisInv'
<1> DEFINE n == Cardinality(Members)
<1>1. /\ dispatcher = "new" /\ dispatcher' = "pushing"
      /\ key' = [total |-> n, pending |-> n, failed |-> 0, then |-> 1]
      /\ age' = [k \in Redis!Keys |-> 0]
      /\ UNCHANGED <<lasting, stage, tries, outcome, seen, thens, losses, gotThen, ticks>>
  BY SameCardinality DEF Redis!Create, Redis!memberVars, Redis!N
<1>2. n \in Nat /\ n # 0 /\ Cardinality({}) = 0
  BY BatchAssumption, FS_CardinalityType, FS_EmptySet
<1> HIDE DEF n
<1>3. /\ key'["pending"] = n /\ key'["failed"] = 0 /\ key'["total"] = n /\ key'["then"] = 1
      /\ key' \in [Redis!Keys -> Int \cup {Gone}]
  BY <1>1, <1>2 DEF Redis!Keys
<1>4. \A m \in Members : outcome[m] = "open" /\ stage[m] = "none"
  BY <1>1 DEF RedisInv, OutcomeByStage, NewIsNew, BeforeResult
<1>5. RedisOpen' = Members /\ RedisTallied' = {}
  BY <1>1, <1>4 DEF RedisOpen, RedisTallied
<1>6. RedisTypes'
  BY <1>1, <1>3, BatchAssumption DEF RedisInv, RedisTypes
<1>7. OutcomeByStage' /\ NewIsNew' /\ ThenByLast'
  BY <1>1, <1>4 DEF RedisInv, OutcomeByStage, NewIsNew, ThenByLast, LastThere, BeforeResult
<1>8. PendingIsOpen' /\ ExactIfLasting'
  BY <1>1, <1>3, <1>4, <1>5, <1>2, BatchAssumption DEF PendingIsOpen, ExactIfLasting, n
<1>9. CountersBounded'
  BY <1>1, <1>2, <1>3, <1>5 DEF RedisInv, CountersBounded, n
<1>10. OneLastThere'
  BY <1>1, <1>4 DEF OneLastThere, LastThere
<1> QED BY <1>6, <1>7, <1>8, <1>9, <1>10 DEF RedisInv

LEMMA DispatcherStep ==
  ASSUME RedisInv, Redis!DispatchReturns \/ Redis!DispatchFails
  PROVE  RedisInv'
<1>1. /\ dispatcher # "new" /\ dispatcher' \in {"returned", "raised"}
      /\ losses' \in {losses, losses + 1} /\ (losses' # losses => losses < MaxLosses)
      /\ UNCHANGED <<lasting, stage, tries, outcome, seen, key, age, thens, gotThen, ticks>>
  BY DEF Redis!DispatchReturns, Redis!DispatchFails, Redis!memberVars, Redis!redisVars
<1>2. RedisTypes'
  BY <1>1, BatchAssumption DEF RedisInv, RedisTypes
<1>3. (\A k \in Redis!Keys : KeptOrGone(k)) /\ \A m \in Members : Onward(m)
  BY <1>1 DEF KeptOrGone, Onward
<1> QED BY <1>1, <1>2, <1>3, SameOutcomes

LEMMA TickInductive ==
  ASSUME RedisInv, Redis!Tick
  PROVE  RedisInv'
<1>1. /\ ~lasting /\ ticks' = ticks + 1 /\ ticks < MaxTicks
      /\ UNCHANGED <<lasting, dispatcher, stage, tries, outcome, seen, thens, losses, gotThen>>
  BY DEF Redis!Tick, Redis!memberVars
<1>2. /\ DOMAIN key' = Redis!Keys
      /\ \A k \in Redis!Keys : key'[k] \in {key[k], Gone}
      /\ key' = [k \in Redis!Keys |-> key'[k]]
  BY DEF Redis!Tick
<1>3. age' \in [Redis!Keys -> 0 .. TTL]
  BY BatchAssumption DEF Redis!Tick, RedisInv, RedisTypes
<1>4. key' \in [Redis!Keys -> Int \cup {Gone}]
  BY <1>2 DEF RedisInv, RedisTypes
<1>5. RedisTypes'
  BY <1>1, <1>3, <1>4, BatchAssumption DEF RedisInv, RedisTypes
<1>6. CASE dispatcher # "new"
  <2>1. (\A k \in Redis!Keys : KeptOrGone(k)) /\ \A m \in Members : Onward(m)
    BY <1>1, <1>2 DEF KeptOrGone, Onward
  <2> QED BY <1>1, <1>5, <1>6, <2>1, SameOutcomes
<1>7. CASE dispatcher = "new"
  <2>1. key' = key
    BY <1>2, <1>7 DEF RedisInv, RedisTypes, NewIsNew
  <2> QED BY <1>1, <1>5, <2>1
          DEF RedisInv, OutcomeByStage, NewIsNew, PendingIsOpen, CountersBounded, OneLastThere,
              LastThere, ThenByLast, ExactIfLasting, RedisOpen, RedisTallied
<1> QED BY <1>6, <1>7

(* Whoever moves, the dispatcher has created the batch.                    *)
LEMMA NotNew ==
  ASSUME RedisInv, NEW m \in Members, stage[m] # "none" \/ dispatcher = "pushing"
  PROVE  dispatcher # "new"
BY DEF RedisInv, NewIsNew

LEMMA QuietRedisStep ==
  ASSUME RedisInv, NEW m \in Members,
         \/ Redis!Dispatch(m) \/ Redis!Begin(m) \/ Redis!TryAgain(m)
         \/ Redis!KeepPending(m) \/ Redis!KeepFailed(m) \/ Redis!GetThen(m)
         \/ Redis!Finish(m) \/ Redis!Lose(m)
  PROVE  RedisInv'
<1>1. /\ UNCHANGED <<lasting, dispatcher, outcome, seen, key, thens, ticks>>
      /\ losses' \in {losses, losses + 1} /\ (losses' # losses => losses < MaxLosses)
      /\ tries' \in {tries, [tries EXCEPT ![m] = @ + 1]}
      /\ \/ age' = age
         \/ \E k \in Redis!Keys : age' = [age EXCEPT ![k] = 0]
  BY DEF Redis!Dispatch, Redis!Begin, Redis!TryAgain, Redis!KeepPending, Redis!KeepFailed,
         Redis!Keep, Redis!ExpireAfterTTL, Redis!GetThen, Redis!Finish, Redis!Lose,
         Redis!redisVars, Redis!Keys
<1>2. dispatcher # "new"
  BY NotNew DEF Redis!Dispatch, Redis!Begin, Redis!TryAgain, Redis!KeepPending,
                Redis!KeepFailed, Redis!Keep, Redis!GetThen, Redis!Finish, Redis!Lose,
                Redis!Move
<1>3. \E s \in Redis!Stages, b \in BOOLEAN :
        /\ stage' = [stage EXCEPT ![m] = s] /\ gotThen' = [gotThen EXCEPT ![m] = b]
        /\ \/ s = stage[m] /\ b = gotThen[m]
           \/ stage[m] \in BeforeResult /\ s \in BeforeResult
           \/ stage[m] # "none" /\ s = "lost"
           \/ stage[m] \in {"tallied", "kept"} /\ s \in {"kept", "recorded"}
           \/ /\ stage[m] = "recorded" /\ s = "thenRead"
              /\ seen[m] = 0 /\ b = (key["then"] # Gone)
           \/ stage[m] \in {"recorded", "thenRead", "fired"} /\ s = "finished"
  <2>1. gotThen[m] \in BOOLEAN /\ gotThen = [gotThen EXCEPT ![m] = gotThen[m]]
    BY DEF RedisInv, RedisTypes
  <2>2. CASE Redis!TryAgain(m)
    BY <2>1, <2>2 DEF Redis!TryAgain, RedisInv, RedisTypes
  <2>3. CASE Redis!Dispatch(m) \/ Redis!Begin(m)
    BY <2>1, <2>3 DEF Redis!Dispatch, Redis!Begin, Redis!Move, BeforeResult, Redis!Stages
  <2>4. CASE Redis!KeepPending(m) \/ Redis!KeepFailed(m)
    BY <2>1, <2>4
       DEF Redis!KeepPending, Redis!KeepFailed, Redis!Keep, Redis!Move, Redis!Stages
  <2>5. CASE Redis!GetThen(m)
    BY <2>5 DEF Redis!GetThen, Redis!Move, Redis!Stages
  <2>6. CASE Redis!Finish(m)
    BY <2>1, <2>6 DEF Redis!Finish, Redis!Move, Redis!Stages
  <2>7. CASE Redis!Lose(m)
    BY <2>1, <2>7 DEF Redis!Lose, Redis!Stages
  <2> QED BY <2>2, <2>3, <2>4, <2>5, <2>6, <2>7
<1>4. RedisTypes'
  <2>1. losses' \in 0 .. MaxLosses
    BY <1>1, BatchAssumption DEF RedisInv, RedisTypes
  <2>2. tries' \in [Members -> Nat]
    BY <1>1 DEF RedisInv, RedisTypes
  <2>3. age' \in [Redis!Keys -> 0 .. TTL]
    BY <1>1, BatchAssumption DEF RedisInv, RedisTypes
  <2>4. stage' \in [Members -> Redis!Stages] /\ gotThen' \in [Members -> BOOLEAN]
    BY <1>3 DEF RedisInv, RedisTypes
  <2> QED BY <1>1, <2>1, <2>2, <2>3, <2>4 DEF RedisInv, RedisTypes
<1>5. \A q \in Members : Onward(q)
  BY <1>3 DEF RedisInv, RedisTypes, Onward
<1>6. \A k \in Redis!Keys : KeptOrGone(k)
  BY <1>1 DEF KeptOrGone
<1> QED BY <1>1, <1>2, <1>4, <1>5, <1>6, SameOutcomes

(* DECR: who is counted was open, so nobody was the last before.           *)
LEMMA CountDownInductive ==
  ASSUME RedisInv, NEW m \in Members, Redis!CountDown(m)
  PROVE  RedisInv'
<1> DEFINE n == Cardinality(Members)
           c == Cardinality(RedisOpen)
           p == Redis!Number("pending")
<1>1. PICK o \in {"ok", "failed"} : outcome' = [outcome EXCEPT ![m] = o]
  BY DEF Redis!CountDown, Redis!Outcomes
<1>2. /\ stage[m] = "running" /\ stage' = [stage EXCEPT ![m] = "counted"]
      /\ key' = [key EXCEPT !["pending"] = p - 1]
      /\ seen' = [seen EXCEPT ![m] = p - 1]
      /\ age' = (IF key["pending"] = Gone THEN [age EXCEPT !["pending"] = TTL] ELSE age)
      /\ UNCHANGED <<lasting, dispatcher, tries, thens, losses, gotThen, ticks>>
  BY DEF Redis!CountDown, Redis!IncrBy, Redis!Move
<1>3. m \in RedisOpen /\ dispatcher # "new"
  BY <1>2, NotNew DEF RedisInv, RedisTypes, OutcomeByStage, RedisOpen, BeforeResult
<1>4. RedisOpen' = RedisOpen \ {m} /\ RedisTallied' = RedisTallied
  BY <1>1, <1>2, <1>3 DEF RedisInv, RedisTypes, RedisOpen, RedisTallied
<1>5. RedisOpen \in SUBSET Members /\ RedisOpen' \in SUBSET Members
  BY <1>4 DEF RedisOpen
<1>6. /\ c \in 1 .. n /\ n \in Nat
      /\ Cardinality(RedisOpen') = c - 1
  <2>1. Cardinality(RedisOpen') = c - 1 /\ Cardinality(RedisOpen') \in Nat /\ c \in 0 .. n
    BY <1>3, <1>4, <1>5, PartsAreFinite, FS_RemoveElement
  <2> QED BY <2>1, BatchAssumption, FS_CardinalityType
<1> HIDE DEF n, c
<1>7. /\ p = IF key["pending"] = Gone THEN 0 ELSE key["pending"]
      /\ key["pending"] \in Int \cup {Gone} /\ p \in Int /\ p - 1 # Gone
  BY BatchAssumption DEF Redis!Number, RedisInv, RedisTypes, Redis!Keys
<1> HIDE DEF p
<1>8. key' \in [Redis!Keys -> Int \cup {Gone}] /\ key'["pending"] = p - 1
      /\ \A k \in Redis!Keys \ {"pending"} : key'[k] = key[k]
  BY <1>2, <1>7 DEF RedisInv, RedisTypes, Redis!Keys
<1>9. RedisTypes'
  <2>1. age' \in [Redis!Keys -> 0 .. TTL]
    BY <1>2, BatchAssumption DEF RedisInv, RedisTypes, Redis!Keys
  <2> QED BY <1>1, <1>2, <1>7, <1>8, <2>1 DEF RedisInv, RedisTypes, Redis!Stages
<1>10. OutcomeByStage' /\ NewIsNew'
  BY <1>1, <1>2, <1>3 DEF RedisInv, RedisTypes, OutcomeByStage, NewIsNew, BeforeResult
<1>11. \/ key["pending"] = Gone
       \/ /\ key["pending"] = c \/ key["pending"] < 0
          /\ key["pending"] <= n /\ key["pending"] + n >= c
  BY <1>3 DEF RedisInv, PendingIsOpen, CountersBounded, c, n
<1>12. PendingIsOpen' /\ p - 1 \in -n .. n /\ p - 1 + n >= c - 1
  BY <1>6, <1>7, <1>8, <1>11 DEF PendingIsOpen
<1>13. CountersBounded'
  <2>1. key'["failed"] = key["failed"] /\ key'["total"] = key["total"]
        /\ key'["then"] = key["then"]
    BY <1>8 DEF Redis!Keys
  <2>2. \A q \in Members : seen'[q] \in -n .. n
    BY <1>2, <1>12 DEF RedisInv, RedisTypes, CountersBounded, n
  <2> QED BY <1>4, <1>6, <1>8, <1>12, <2>1, <2>2 DEF RedisInv, CountersBounded, n
<1>14. \A q \in Members : ~LastThere(q)
  BY <1>3 DEF RedisInv, OneLastThere
<1>15. \A q \in Members : q # m => ~LastThere(q)'
  BY <1>1, <1>2, <1>14 DEF LastThere, RedisInv, RedisTypes
<1>16. LastThere(m)' => RedisOpen' = {}
  <2>1. LastThere(m)' => c - 1 = 0
    BY <1>2, <1>6, <1>7, <1>11 DEF LastThere, RedisInv, RedisTypes
  <2> QED BY <1>5, <1>6, <2>1, PartsAreFinite, FS_EmptySet
<1>17. OneLastThere'
  BY <1>15, <1>16 DEF OneLastThere
<1>18. ThenByLast'
  BY <1>2, <1>14 DEF RedisInv, RedisTypes, ThenByLast
<1>19. ExactIfLasting'
  <2>1. lasting => key["pending"] = c /\ key["then"] # Gone
    BY <1>3 DEF RedisInv, ExactIfLasting, c
  <2>2. lasting => key'["pending"] = c - 1 /\ key'["then"] # Gone
    BY <1>6, <1>7, <1>8, <2>1, BatchAssumption DEF Redis!Keys
  <2>3. lasting => \A q \in Members : stage'[q] = "thenRead" => gotThen'[q]
    BY <1>2 DEF RedisInv, RedisTypes, ExactIfLasting
  <2> QED BY <1>2, <1>6, <2>2, <2>3 DEF ExactIfLasting
<1> QED BY <1>9, <1>10, <1>12, <1>13, <1>17, <1>18, <1>19 DEF RedisInv

LEMMA TallyInductive ==
  ASSUME RedisInv, NEW m \in Members, Redis!Tally(m)
  PROVE  RedisInv'
<1> DEFINE f == Redis!Number("failed")
<1>1. /\ stage[m] = "counted" /\ stage' = [stage EXCEPT ![m] = "tallied"]
      /\ UNCHANGED <<lasting, dispatcher, tries, outcome, seen, thens, losses, gotThen, ticks>>
  BY DEF Redis!Tally, Redis!Move
<1>2. \/ /\ outcome[m] = "failed"
         /\ key' = [key EXCEPT !["failed"] = f + 1]
         /\ age' = (IF key["failed"] = Gone THEN [age EXCEPT !["failed"] = TTL] ELSE age)
      \/ outcome[m] # "failed" /\ key' = key /\ age' = age
  BY DEF Redis!Tally, Redis!IncrBy, Redis!redisVars
<1>3. RedisOpen' = RedisOpen /\ dispatcher # "new"
  BY <1>1, NotNew DEF RedisOpen
<1>4. /\ outcome[m] = "failed" => RedisTallied' = RedisTallied \cup {m}
      /\ outcome[m] # "failed" => RedisTallied' = RedisTallied
      /\ m \notin RedisTallied
  BY <1>1 DEF RedisInv, RedisTypes, RedisTallied
<1>5. RedisTallied \in SUBSET Members
  BY DEF RedisTallied
<1>6. /\ outcome[m] = "failed" =>
           Cardinality(RedisTallied') = Cardinality(RedisTallied) + 1
      /\ Cardinality(RedisTallied) \in Nat
  BY <1>4, <1>5, PartsAreFinite, FS_AddElement, BatchAssumption, FS_CardinalityType
<1>7. /\ f = IF key["failed"] = Gone THEN 0 ELSE key["failed"]
      /\ key["failed"] \in Int \cup {Gone} /\ f \in Int /\ f + 1 # Gone
  BY BatchAssumption DEF Redis!Number, RedisInv, RedisTypes, Redis!Keys
<1> HIDE DEF f
<1>8. /\ key' \in [Redis!Keys -> Int \cup {Gone}]
      /\ \A k \in Redis!Keys \ {"failed"} : key'[k] = key[k]
      /\ \/ outcome[m] = "failed" /\ key'["failed"] = f + 1
         \/ outcome[m] # "failed" /\ key'["failed"] = key["failed"]
  BY <1>2, <1>7 DEF RedisInv, RedisTypes, Redis!Keys
<1>9. RedisTypes'
  <2>1. age' \in [Redis!Keys -> 0 .. TTL]
    BY <1>2, BatchAssumption DEF RedisInv, RedisTypes, Redis!Keys
  <2> QED BY <1>1, <1>8, <2>1 DEF RedisInv, RedisTypes, Redis!Stages
<1>10. OutcomeByStage' /\ NewIsNew'
  BY <1>1, <1>3 DEF RedisInv, RedisTypes, OutcomeByStage, NewIsNew, BeforeResult
<1>11. /\ key'["pending"] = key["pending"] /\ key'["total"] = key["total"]
       /\ key'["then"] = key["then"]
  BY <1>8 DEF Redis!Keys
<1>12. PendingIsOpen'
  BY <1>1, <1>3, <1>11 DEF RedisInv, PendingIsOpen
<1>13. CountersBounded'
  BY <1>1, <1>3, <1>4, <1>6, <1>7, <1>8, <1>11 DEF RedisInv, CountersBounded
<1>14. OneLastThere'
  BY <1>1, <1>3 DEF RedisInv, OneLastThere, LastThere
<1>15. ThenByLast'
  BY <1>1 DEF RedisInv, RedisTypes, ThenByLast, LastThere
<1>16. ExactIfLasting'
  BY <1>1, <1>3, <1>11 DEF RedisInv, RedisTypes, ExactIfLasting
<1> QED BY <1>9, <1>10, <1>12, <1>13, <1>14, <1>15, <1>16 DEF RedisInv

LEMMA PushThenInductive ==
  ASSUME RedisInv, NEW m \in Members, Redis!Fire(m)
  PROVE  RedisInv'
<1>1. /\ stage[m] = "thenRead" /\ stage' = [stage EXCEPT ![m] = "fired"]
      /\ thens' = thens + 1
      /\ UNCHANGED <<lasting, dispatcher, tries, outcome, seen, key, age, losses, gotThen,
                     ticks>>
  BY DEF Redis!Fire, Redis!Move, Redis!redisVars
<1>2. LastThere(m)
  BY <1>1 DEF RedisInv, OutcomeByStage, ThenByLast, LastThere, BeforeResult
<1>3. thens = 0
  BY <1>1, <1>2 DEF RedisInv, OneLastThere, ThenByLast
<1>4. /\ RedisTypes' /\ dispatcher # "new"
      /\ RedisOpen' = RedisOpen /\ RedisTallied' = RedisTallied
  BY <1>1, <1>3, NotNew DEF RedisInv, RedisTypes, Redis!Stages, RedisOpen, RedisTallied
<1>5. OutcomeByStage' /\ NewIsNew' /\ OneLastThere' /\ ThenByLast'
  BY <1>1, <1>2, <1>3, <1>4
     DEF RedisInv, RedisTypes, OutcomeByStage, NewIsNew, OneLastThere, LastThere, ThenByLast,
         BeforeResult
<1>6. PendingIsOpen' /\ CountersBounded'
  BY <1>1, <1>4 DEF RedisInv, PendingIsOpen, CountersBounded
<1>7. ExactIfLasting'
  BY <1>1, <1>4 DEF RedisInv, RedisTypes, ExactIfLasting
<1> QED BY <1>4, <1>5, <1>6, <1>7 DEF RedisInv

LEMMA NextRedis ==
  ASSUME RedisInv, [Redis!Next]_batchVars
  PROVE  RedisInv'
<1>1. CASE UNCHANGED batchVars
  BY <1>1 DEF batchVars, RedisInv, RedisTypes, OutcomeByStage, NewIsNew, PendingIsOpen,
              CountersBounded, OneLastThere, LastThere, ThenByLast, ExactIfLasting, RedisOpen,
              RedisTallied
<1>2. CASE Redis!Next
  BY <1>2, CreateInductive, DispatcherStep, TickInductive, QuietRedisStep,
     CountDownInductive, TallyInductive, PushThenInductive
     DEF Redis!Next, Redis!MemberStep
<1> QED BY <1>1, <1>2

LEMMA RedisHolds ==
  ASSUME RedisInv
  PROVE  Redis!TypeOK /\ Redis!ThenOnceAfterAll
<1>1. RedisOpen \in SUBSET Members /\ RedisTallied \in SUBSET Members
  BY DEF RedisOpen, RedisTallied
<1>2. /\ Cardinality(RedisOpen) \in 0 .. Cardinality(Members)
      /\ Cardinality(RedisTallied) \in 0 .. Cardinality(Members)
  BY <1>1, PartsAreFinite
<1>3. Cardinality(Members) \in Nat /\ Cardinality(Members) # 0
  BY BatchAssumption, FS_CardinalityType, FS_EmptySet
<1>4. \A k \in Redis!Keys :
        key[k] \in -Cardinality(Members) .. Cardinality(Members) \cup {Gone}
  <2>1. /\ key["pending"] \in Int \cup {Gone} /\ key["failed"] \in Int \cup {Gone}
    BY DEF RedisInv, RedisTypes, Redis!Keys
  <2> QED BY <1>2, <1>3, <2>1 DEF RedisInv, CountersBounded, Redis!Keys
<1>5. Redis!TypeOK
  BY <1>4, SameCardinality
     DEF RedisInv, RedisTypes, CountersBounded, Redis!TypeOK, Redis!N
<1>6. Redis!ThenOnceAfterAll
  BY DEF RedisInv, ThenByLast, OneLastThere, RedisOpen, Redis!ThenOnceAfterAll
<1> QED BY <1>5, <1>6

(***************************************************************************)
(* RedisBatch implements JobBatch                                          *)
(***************************************************************************)

LEMMA InitImplements ==
  ASSUME Redis!Init
  PROVE  Redis!Batch!Init
<1>1. Redis!Failures = {} /\ Cardinality({}) = 0
  BY FS_EmptySet DEF Redis!Init, Redis!Failures
<1>2. Redis!Number("pending") = 0
  BY DEF Redis!Init, Redis!Number, Redis!Keys
<1> QED BY <1>1, <1>2, SameCardinality
        DEF Redis!Init, Redis!Batch!Init, Redis!IfLasting, Redis!StageOf

(* What the step of a lasting batch does to JobBatch's variables.          *)
Stays ==
  /\ lasting' = lasting
  /\ \A m \in Members : Redis!StageOf(m)' = Redis!StageOf(m)
  /\ UNCHANGED <<dispatcher, tries, outcome, seen, thens, losses>>
  /\ Redis!Number("pending")' = Redis!Number("pending")

LEMMA MemberStutters ==
  ASSUME lasting' = lasting, ~lasting \/ Stays
  PROVE  UNCHANGED Redis!Batch!batchVars
<1> USE DEF Redis!Batch!batchVars, Redis!Batch!memberVars, Redis!Batch!trackerVars,
            Redis!IfLasting
<1>1. CASE ~lasting
  BY <1>1
<1>2. CASE lasting /\ Stays
  <2>1. Redis!Failures' = Redis!Failures
    BY <1>2 DEF Stays, Redis!Failures
  <2> QED BY <1>2, <2>1 DEF Stays
<1> QED BY <1>1, <1>2

(* JobBatch's variables, read off a lasting batch                          *)
LEMMA ReadOff ==
  ASSUME RedisTypes, lasting
  PROVE  /\ Redis!IfLasting(dispatcher, "new") = dispatcher
         /\ [m \in Members |-> Redis!IfLasting(Redis!StageOf(m), "none")] =
              [m \in Members |-> Redis!StageOf(m)]
         /\ [m \in Members |-> Redis!IfLasting(tries[m], 0)] = tries
         /\ [m \in Members |-> Redis!IfLasting(outcome[m], "open")] = outcome
         /\ [m \in Members |-> Redis!IfLasting(seen[m], 0)] = seen
         /\ Redis!IfLasting(Redis!Number("pending"), 0) = Redis!Number("pending")
         /\ Redis!IfLasting(Redis!Cardinality(Redis!Failures), 0) =
              Cardinality(Redis!Failures)
         /\ Redis!IfLasting(thens, 0) = thens
         /\ Redis!IfLasting(losses, 0) = losses
BY SameCardinality DEF RedisTypes, Redis!IfLasting

LEMMA ReadOffNext ==
  ASSUME RedisTypes', lasting'
  PROVE  /\ Redis!IfLasting(dispatcher, "new")' = dispatcher'
         /\ [m \in Members |-> Redis!IfLasting(Redis!StageOf(m), "none")]' =
              [m \in Members |-> Redis!StageOf(m)']
         /\ [m \in Members |-> Redis!IfLasting(tries[m], 0)]' = tries'
         /\ [m \in Members |-> Redis!IfLasting(outcome[m], "open")]' = outcome'
         /\ [m \in Members |-> Redis!IfLasting(seen[m], 0)]' = seen'
         /\ Redis!IfLasting(Redis!Number("pending"), 0)' = Redis!Number("pending")'
         /\ Redis!IfLasting(Redis!Cardinality(Redis!Failures), 0)' =
              Cardinality(Redis!Failures')
         /\ Redis!IfLasting(thens, 0)' = thens'
         /\ Redis!IfLasting(losses, 0)' = losses'
BY SameCardinality DEF RedisTypes, Redis!IfLasting

LEMMA DispatcherImplements ==
  ASSUME RedisInv, RedisInv', lasting, lasting' = lasting
  PROVE  /\ Redis!Create => Redis!Batch!Create
         /\ Redis!DispatchReturns => Redis!Batch!DispatchReturns
         /\ Redis!DispatchFails => Redis!Batch!DispatchFails
<1> USE DEF Redis!Batch!memberVars, Redis!Batch!trackerVars
<1>1. RedisTypes /\ RedisTypes'
  BY DEF RedisInv
<1>2. ASSUME stage' = stage, outcome' = outcome
      PROVE  /\ \A m \in Members : Redis!StageOf(m)' = Redis!StageOf(m)
             /\ Redis!Failures' = Redis!Failures
  BY <1>2 DEF Redis!StageOf, Redis!Failures
<1>3. ASSUME Redis!Create PROVE Redis!Batch!Create
  <2>1. /\ dispatcher = "new" /\ dispatcher' = "pushing"
        /\ key' = [total |-> Cardinality(Members), pending |-> Cardinality(Members),
                   failed |-> 0, then |-> 1]
        /\ UNCHANGED <<stage, tries, outcome, seen, thens, losses>>
    BY <1>3, SameCardinality DEF Redis!Create, Redis!memberVars, Redis!N
  <2>2. Redis!Number("pending")' = Cardinality(Members)
    BY <2>1, BatchAssumption, FS_CardinalityType DEF Redis!Number
  <2>3. Redis!Failures = {} /\ Cardinality({}) = 0
    BY <2>1, FS_EmptySet DEF RedisInv, OutcomeByStage, NewIsNew, BeforeResult, Redis!Failures
  <2> QED BY <1>1, <1>2, <2>1, <2>2, <2>3, ReadOff, ReadOffNext, SameCardinality
          DEF Redis!Batch!Create
<1>4. ASSUME Redis!DispatchReturns PROVE Redis!Batch!DispatchReturns
  <2>1. /\ dispatcher = "pushing" /\ dispatcher' = "returned"
        /\ \A m \in Members : stage[m] # "none"
        /\ UNCHANGED <<stage, tries, outcome, seen, key, thens, losses>>
    BY <1>4 DEF Redis!DispatchReturns, Redis!memberVars, Redis!redisVars
  <2>2. \A m \in Members : Redis!StageOf(m) # "none"
    BY <2>1 DEF Redis!StageOf
  <2>3. Redis!Number("pending")' = Redis!Number("pending")
    BY <2>1 DEF Redis!Number
  <2> QED BY <1>1, <1>2, <2>1, <2>2, <2>3, ReadOff, ReadOffNext
          DEF Redis!Batch!DispatchReturns
<1>5. ASSUME Redis!DispatchFails PROVE Redis!Batch!DispatchFails
  <2>1. /\ dispatcher = "pushing" /\ dispatcher' = "raised"
        /\ losses < MaxLosses /\ losses' = losses + 1
        /\ UNCHANGED <<stage, tries, outcome, seen, key, thens>>
    BY <1>5 DEF Redis!DispatchFails, Redis!memberVars, Redis!redisVars
  <2>2. Redis!Number("pending")' = Redis!Number("pending")
    BY <2>1 DEF Redis!Number
  <2> QED BY <1>1, <1>2, <2>1, <2>2, ReadOff, ReadOffNext DEF Redis!Batch!DispatchFails
<1> QED BY <1>3, <1>4, <1>5

LEMMA MoveImplements ==
  ASSUME RedisTypes, RedisTypes', lasting, lasting', NEW m \in Members,
         NEW s \in Redis!Stages, stage' = [stage EXCEPT ![m] = s],
         NEW from, NEW to, Redis!StageOf(m) = from, Redis!StageOf(m)' = to
  PROVE  Redis!Batch!Move(m, from, to)
<1>1. \A q \in Members : q # m => Redis!StageOf(q)' = Redis!StageOf(q)
  BY DEF RedisTypes, Redis!StageOf
<1>2. [q \in Members |-> Redis!StageOf(q)'] =
        [[q \in Members |-> Redis!StageOf(q)] EXCEPT ![m] = to]
  BY <1>1
<1> QED BY <1>2, ReadOff, ReadOffNext DEF Redis!Batch!Move

(* DECR is record_completion(), for the last member is told by its answer. *)
LEMMA CountDownImplements ==
  ASSUME RedisInv, RedisInv', lasting, lasting' = lasting,
         NEW m \in Members, Redis!CountDown(m)
  PROVE  Redis!Batch!Record(m)
<1>1. RedisTypes /\ RedisTypes'
  BY DEF RedisInv
<1>2. PICK o \in Redis!Outcomes(m) : outcome' = [outcome EXCEPT ![m] = o]
  BY DEF Redis!CountDown
<1>3. /\ stage[m] = "running" /\ stage' = [stage EXCEPT ![m] = "counted"]
      /\ key' = [key EXCEPT !["pending"] = Redis!Number("pending") - 1]
      /\ seen' = [seen EXCEPT ![m] = Redis!Number("pending") - 1]
      /\ UNCHANGED <<dispatcher, tries, thens, losses>>
  BY DEF Redis!CountDown, Redis!IncrBy, Redis!Move
<1>4. Redis!Batch!Move(m, "running", "recorded")
  <2>1. "counted" \in Redis!Stages
    BY DEF Redis!Stages
  <2>2. Redis!StageOf(m) = "running" /\ Redis!StageOf(m)' = "recorded"
    BY <1>1, <1>3 DEF RedisTypes, Redis!StageOf
  <2> QED BY <1>1, <1>3, <2>1, <2>2, MoveImplements
<1>5. o \in {"ok", "failed"} /\ o \in Redis!Batch!Outcomes(m)
  BY <1>1, <1>2, ReadOff DEF Redis!Outcomes, Redis!Batch!Outcomes
<1>6. Cardinality(Redis!Failures') =
        IF o = "failed" THEN Cardinality(Redis!Failures) + 1 ELSE Cardinality(Redis!Failures)
  <2>1. outcome[m] = "open"
    BY <1>3 DEF RedisInv, OutcomeByStage, BeforeResult
  <2>2. /\ Redis!Failures' = IF o = "failed" THEN Redis!Failures \cup {m} ELSE Redis!Failures
        /\ m \notin Redis!Failures /\ Redis!Failures \in SUBSET Members
    BY <1>1, <1>2, <1>5, <2>1 DEF RedisTypes, Redis!Failures
  <2> QED BY <2>2, PartsAreFinite, FS_AddElement
<1>7. Redis!Number("pending")' = Redis!Number("pending") - 1
  <2>1. /\ key["pending"] \in Int \cup {Gone}
        /\ key'["pending"] = Redis!Number("pending") - 1
    BY <1>1, <1>3 DEF RedisTypes, Redis!Keys
  <2>2. Redis!Number("pending") - 1 # Gone
    BY <2>1, BatchAssumption DEF Redis!Number
  <2> QED BY <2>1, <2>2 DEF Redis!Number
<1> QED BY <1>1, <1>2, <1>3, <1>4, <1>5, <1>6, <1>7, ReadOff, ReadOffNext
        DEF Redis!Batch!Record

LEMMA MemberImplements ==
  ASSUME RedisInv, RedisInv', lasting, lasting' = lasting, NEW m \in Members
  PROVE  /\ Redis!Dispatch(m) => Redis!Batch!Dispatch(m)
         /\ Redis!Begin(m) => Redis!Batch!Begin(m)
         /\ Redis!TryAgain(m) => Redis!Batch!TryAgain(m)
         /\ Redis!Fire(m) => Redis!Batch!Fire(m)
         /\ Redis!Finish(m) => Redis!Batch!Finish(m)
         /\ Redis!Lose(m) => Redis!Batch!Lose(m)
<1> USE DEF Redis!Batch!trackerVars, Redis!Move
<1>1. RedisTypes /\ RedisTypes'
  BY DEF RedisInv
<1>2. ASSUME key' = key, outcome' = outcome
      PROVE  /\ Redis!Number("pending")' = Redis!Number("pending")
             /\ Redis!Failures' = Redis!Failures
  BY <1>2 DEF Redis!Number, Redis!Failures
<1>3. ASSUME Redis!Dispatch(m) PROVE Redis!Batch!Dispatch(m)
  <2>1. /\ dispatcher = "pushing" /\ stage[m] = "none"
        /\ stage' = [stage EXCEPT ![m] = "queued"]
        /\ UNCHANGED <<dispatcher, tries, outcome, seen, key, thens, losses>>
    BY <1>3 DEF Redis!Dispatch, Redis!redisVars
  <2>2. Redis!StageOf(m) = "none" /\ Redis!StageOf(m)' = "queued" /\ "queued" \in Redis!Stages
    BY <1>1, <2>1 DEF RedisTypes, Redis!StageOf, Redis!Stages
  <2>3. Redis!Batch!Move(m, "none", "queued")
    BY <1>1, <2>1, <2>2, MoveImplements
  <2> QED BY <1>1, <1>2, <2>1, <2>3, ReadOff, ReadOffNext DEF Redis!Batch!Dispatch
<1>4. ASSUME Redis!Begin(m) PROVE Redis!Batch!Begin(m)
  <2>1. /\ stage[m] = "queued" /\ stage' = [stage EXCEPT ![m] = "running"]
        /\ UNCHANGED <<dispatcher, tries, outcome, seen, key, thens, losses>>
    BY <1>4 DEF Redis!Begin, Redis!redisVars
  <2>2. Redis!StageOf(m) = "queued" /\ Redis!StageOf(m)' = "running" /\ "running" \in Redis!Stages
    BY <1>1, <2>1 DEF RedisTypes, Redis!StageOf, Redis!Stages
  <2>3. Redis!Batch!Move(m, "queued", "running")
    BY <1>1, <2>1, <2>2, MoveImplements
  <2> QED BY <1>1, <1>2, <2>1, <2>3, ReadOff, ReadOffNext DEF Redis!Batch!Begin
<1>5. ASSUME Redis!TryAgain(m) PROVE Redis!Batch!TryAgain(m)
  <2>1. /\ stage[m] = "running" /\ tries[m] + 1 < MemberAttempts[m]
        /\ tries' = [tries EXCEPT ![m] = @ + 1]
        /\ UNCHANGED <<dispatcher, stage, outcome, seen, key, thens, losses>>
    BY <1>5 DEF Redis!TryAgain, Redis!redisVars
  <2>2. /\ Redis!StageOf(m) = "running"
        /\ \A q \in Members : Redis!StageOf(q)' = Redis!StageOf(q)
    BY <2>1 DEF Redis!StageOf
  <2> QED BY <1>1, <1>2, <2>1, <2>2, ReadOff, ReadOffNext DEF Redis!Batch!TryAgain
<1>6. ASSUME Redis!Fire(m) PROVE Redis!Batch!Fire(m)
  <2>1. /\ stage[m] = "thenRead" /\ stage' = [stage EXCEPT ![m] = "fired"]
        /\ thens' = thens + 1
        /\ UNCHANGED <<dispatcher, tries, outcome, seen, key, losses>>
    BY <1>6 DEF Redis!Fire, Redis!redisVars
  <2>2. seen[m] = 0
    BY <2>1 DEF RedisInv, ThenByLast
  <2>3. Redis!StageOf(m) = "recorded" /\ Redis!StageOf(m)' = "fired" /\ "fired" \in Redis!Stages
    BY <1>1, <2>1 DEF RedisTypes, Redis!StageOf, Redis!Stages
  <2>4. Redis!Batch!Move(m, "recorded", "fired")
    BY <1>1, <2>1, <2>3, MoveImplements
  <2> QED BY <1>1, <1>2, <2>1, <2>2, <2>4, ReadOff, ReadOffNext DEF Redis!Batch!Fire
<1>7. ASSUME Redis!Finish(m) PROVE Redis!Batch!Finish(m)
  <2>1. /\ \/ stage[m] = "recorded" /\ seen[m] # 0
           \/ stage[m] = "fired"
        /\ stage' = [stage EXCEPT ![m] = "finished"]
        /\ UNCHANGED <<dispatcher, tries, outcome, seen, key, thens, losses>>
    BY <1>7 DEF Redis!Finish, Redis!redisVars, RedisInv, ExactIfLasting
  <2>2. Redis!StageOf(m) = stage[m] /\ Redis!StageOf(m)' = "finished" /\ "finished" \in Redis!Stages
    BY <1>1, <2>1 DEF RedisTypes, Redis!StageOf, Redis!Stages
  <2>3. Redis!Batch!Move(m, stage[m], "finished")
    BY <1>1, <2>1, <2>2, MoveImplements
  <2> QED BY <1>1, <1>2, <2>1, <2>3, ReadOff, ReadOffNext DEF Redis!Batch!Finish
<1>8. ASSUME Redis!Lose(m) PROVE Redis!Batch!Lose(m)
  <2>1. /\ stage[m] \notin {"none", "finished", "lost"} /\ losses < MaxLosses
        /\ stage' = [stage EXCEPT ![m] = "lost"] /\ losses' = losses + 1
        /\ UNCHANGED <<dispatcher, tries, outcome, seen, key, thens>>
    BY <1>8 DEF Redis!Lose, Redis!redisVars
  <2>2. /\ Redis!StageOf(m) \in {"queued", "running", "recorded", "fired"}
        /\ Redis!StageOf(m)' = "lost" /\ "lost" \in Redis!Stages
    BY <1>1, <2>1 DEF RedisTypes, Redis!StageOf, Redis!Stages
  <2>3. Redis!Batch!Move(m, Redis!StageOf(m), "lost")
    BY <1>1, <2>1, <2>2, MoveImplements
  <2> QED BY <1>1, <1>2, <2>1, <2>2, <2>3, ReadOff, ReadOffNext
          DEF Redis!Batch!Lose, Redis!Batch!Move
<1> QED BY <1>3, <1>4, <1>5, <1>6, <1>7, <1>8

(* The commands after the DECR are no step of JobBatch.                    *)
LEMMA RestStutters ==
  ASSUME RedisInv, lasting, NEW m \in Members,
         Redis!Tally(m) \/ Redis!KeepPending(m) \/ Redis!KeepFailed(m) \/ Redis!GetThen(m)
  PROVE  Stays
<1>1. /\ UNCHANGED <<lasting, dispatcher, tries, outcome, seen, thens, losses>>
      /\ key' \in {key, [key EXCEPT !["failed"] = Redis!Number("failed") + 1]}
  BY DEF Redis!Tally, Redis!KeepPending, Redis!KeepFailed, Redis!Keep, Redis!ExpireAfterTTL,
         Redis!GetThen, Redis!IncrBy, Redis!redisVars
<1>2. Redis!Number("pending")' = Redis!Number("pending")
  BY <1>1 DEF Redis!Number, RedisInv, RedisTypes, Redis!Keys
<1>3. \A q \in Members : Redis!StageOf(q)' = Redis!StageOf(q)
  <2>1. /\ stage[m] \in {"counted", "tallied", "kept", "recorded"}
        /\ \E s \in {"tallied", "kept", "recorded", "thenRead"} :
             stage' = [stage EXCEPT ![m] = s]
    BY DEF Redis!Tally, Redis!KeepPending, Redis!KeepFailed, Redis!Keep, Redis!GetThen,
           Redis!Move
  <2> QED BY <2>1 DEF RedisInv, RedisTypes, Redis!StageOf
<1> QED BY <1>1, <1>2, <1>3 DEF Stays

LEMMA NextImplements ==
  ASSUME RedisInv, RedisInv', [Redis!Next]_batchVars
  PROVE  [Redis!Batch!Next]_(Redis!Batch!batchVars)
<1>1. lasting' = lasting
  BY DEF batchVars, Redis!Next, Redis!MemberStep, Redis!Create, Redis!DispatchReturns,
         Redis!DispatchFails, Redis!Tick, Redis!Dispatch, Redis!Begin, Redis!TryAgain,
         Redis!CountDown, Redis!Tally, Redis!KeepPending, Redis!KeepFailed, Redis!Keep,
         Redis!GetThen, Redis!Fire, Redis!Finish, Redis!Lose
<1>2. CASE ~lasting
  BY <1>1, <1>2, MemberStutters
<1>3. CASE UNCHANGED batchVars
  <2>1. Stays
    BY <1>3 DEF batchVars, Stays, Redis!StageOf, Redis!Number
  <2> QED BY <1>1, <2>1, MemberStutters
<1>4. CASE lasting /\ Redis!Next
  <2>1. CASE Redis!Create \/ Redis!DispatchReturns \/ Redis!DispatchFails
    BY <1>1, <1>4, <2>1, DispatcherImplements DEF Redis!Batch!Next
  <2>2. ~Redis!Tick
    BY <1>4 DEF Redis!Tick
  <2>3. ASSUME NEW m \in Members, Redis!CountDown(m)
        PROVE  Redis!Batch!Next
    BY <1>1, <1>4, <2>3, CountDownImplements DEF Redis!Batch!Next, Redis!Batch!MemberStep
  <2>4. ASSUME NEW m \in Members,
               \/ Redis!Dispatch(m) \/ Redis!Begin(m) \/ Redis!TryAgain(m)
               \/ Redis!Fire(m) \/ Redis!Finish(m) \/ Redis!Lose(m)
        PROVE  Redis!Batch!Next
    BY <1>1, <1>4, <2>4, MemberImplements DEF Redis!Batch!Next, Redis!Batch!MemberStep
  <2>5. ASSUME NEW m \in Members,
               \/ Redis!Tally(m) \/ Redis!KeepPending(m)
               \/ Redis!KeepFailed(m) \/ Redis!GetThen(m)
        PROVE  UNCHANGED Redis!Batch!batchVars
    BY <1>1, <1>4, <2>5, RestStutters, MemberStutters
  <2> QED BY <1>4, <2>1, <2>2, <2>3, <2>4, <2>5 DEF Redis!Next, Redis!MemberStep
<1> QED BY <1>2, <1>3, <1>4

(***************************************************************************)
(* The chain                                                               *)
(***************************************************************************)

ChainTypes ==
  /\ Chain!TypeOK
  /\ \A i \in Chain!Instances : place[i] = "none" => attempts[i] = 0 /\ link[i] = 1

(* An instance is of the link after one that has returned.                 *)
InOrder ==
  \A i \in Chain!Instances :
    /\ place[i] # "none" => \A n \in 1 .. link[i] - 1 : n \in handled
    /\ place[i] \in {"handled", "pushed", "done"} => link[i] \in handled

(* Without faults each link is pushed once, by the one before it, which    *)
(* has nothing left to do but commit.                                      *)
OneByOne ==
  chainFaults = 0 =>
    /\ \A i \in 1 .. pushes : link[i] = i
    /\ \A i \in 1 .. pushes - 1 : place[i] \in {"pushed", "done"}
    /\ \A i \in Chain!Instances : place[i] # "lost"
    /\ \A k \in Chain!Links :
         committed[k] = IF k <= pushes /\ place[k] = "done" THEN 1 ELSE 0

ChainInv == ChainTypes /\ InOrder /\ OneByOne

LEMMA InitChain ==
  ASSUME Chain!Init
  PROVE  ChainInv
<1>1. ChainTypes
  BY ChainAssumption
     DEF Chain!Init, ChainTypes, Chain!TypeOK, Chain!Instances, Chain!Links, Chain!Stages
<1>2. InOrder /\ OneByOne
  BY DEF Chain!Init, InOrder, OneByOne, Chain!Links
<1> QED BY <1>1, <1>2 DEF ChainInv

(* An instance goes on, and nothing is pushed or committed.                *)
LEMMA OneGoesOn ==
  ASSUME ChainInv, NEW i \in Chain!Instances, NEW s \in Chain!Stages \ {"none", "lost", "done"},
         place[i] \in {"queued", "handling", "handled", "pushed", "raised"},
         place' = [place EXCEPT ![i] = s],
         attempts' \in {attempts, [attempts EXCEPT ![i] = @ + 1]},
         handled' \in {handled, handled \cup {link[i]}},
         s \in {"handled", "pushed"} => place[i] \in {"handled", "pushed"} \/ link[i] \in handled',
         \/ chainFaults' = chainFaults /\ place[i] # "pushed"
         \/ chainFaults' = chainFaults + 1 /\ chainFaults < MaxChainFaults,
         UNCHANGED <<driver, pushes, link, committed>>
  PROVE  ChainInv'
<1>1. handled' \in SUBSET Chain!Links /\ attempts' \in [Chain!Instances -> Nat]
  BY DEF ChainInv, ChainTypes, Chain!TypeOK
<1>2. chainFaults' \in 0 .. MaxChainFaults
  BY ChainAssumption DEF ChainInv, ChainTypes, Chain!TypeOK
<1>3. ChainTypes'
  BY <1>1, <1>2 DEF ChainInv, ChainTypes, Chain!TypeOK, Chain!Instances, Chain!Links
<1>4. InOrder'
  BY DEF ChainInv, ChainTypes, Chain!TypeOK, InOrder
<1>5. OneByOne'
  <2> SUFFICES ASSUME chainFaults' = 0 PROVE OneByOne'
    BY DEF OneByOne
  <2>1. chainFaults = 0 /\ place[i] # "pushed"
    BY ChainAssumption DEF ChainInv, ChainTypes, Chain!TypeOK
  <2>2. pushes \in Nat /\ 1 .. pushes \subseteq Chain!Instances
    BY ChainAssumption DEF ChainInv, ChainTypes, Chain!TypeOK, Chain!Instances
  <2>3. i \in 1 .. pushes
    BY <2>2 DEF ChainInv, ChainTypes, Chain!TypeOK, Chain!Instances
  <2>4. \A n \in 1 .. pushes - 1 : n # i
    BY <2>1 DEF ChainInv, OneByOne
  <2>5. \A k \in Chain!Links : k <= pushes => (place'[k] = "done" <=> place[k] = "done")
    BY <2>2, <2>3 DEF ChainInv, ChainTypes, Chain!TypeOK, Chain!Links
  <2> QED BY <2>1, <2>2, <2>4, <2>5 DEF ChainInv, ChainTypes, Chain!TypeOK, OneByOne
<1> QED BY <1>3, <1>4, <1>5 DEF ChainInv

LEMMA ChainDispatchInductive ==
  ASSUME ChainInv, Chain!Dispatch
  PROVE  ChainInv'
<1>1. /\ pushes = 0 /\ pushes' = 1 /\ place' = [place EXCEPT ![1] = "queued"]
      /\ UNCHANGED <<driver, link, attempts, handled, committed, chainFaults>>
  BY DEF Chain!Dispatch
<1>2. 1 \in Chain!Instances /\ \A i \in Chain!Instances : place[i] = "none"
  BY <1>1, ChainAssumption DEF ChainInv, ChainTypes, Chain!TypeOK, Chain!Instances
<1>3. ChainTypes'
  BY <1>1, <1>2, ChainAssumption
     DEF ChainInv, ChainTypes, Chain!TypeOK, Chain!Instances, Chain!Stages
<1>4. link[1] = 1
  BY <1>2 DEF ChainInv, ChainTypes
<1>5. InOrder'
  BY <1>1, <1>2, <1>4 DEF ChainInv, ChainTypes, Chain!TypeOK, InOrder, Chain!Instances
<1>6. OneByOne'
  BY <1>1, <1>2, <1>4
     DEF ChainInv, ChainTypes, Chain!TypeOK, OneByOne, Chain!Instances, Chain!Links
<1> QED BY <1>3, <1>5, <1>6 DEF ChainInv

(* queue.push() of the next link, or of none                               *)
LEMMA PushNextInductive ==
  ASSUME ChainInv, NEW i \in Chain!Instances, Chain!PushNext(i)
  PROVE  ChainInv'
<1>1. place[i] = "handled" /\ UNCHANGED <<driver, attempts, handled, committed, chainFaults>>
  BY DEF Chain!PushNext
<1>2. CASE link[i] >= Length
  <2>1. place' = [place EXCEPT ![i] = "pushed"] /\ UNCHANGED <<pushes, link>>
    BY <1>2, ChainAssumption
       DEF Chain!PushNext, Chain!Goto, ChainInv, ChainTypes, Chain!TypeOK, Chain!Links
  <2>2. "pushed" \in Chain!Stages \ {"none", "lost", "done"}
    BY DEF Chain!Stages
  <2>3. link[i] \in handled
    BY <1>1 DEF ChainInv, InOrder
  <2> QED BY <1>1, <2>1, <2>2, <2>3, OneGoesOn
<1>3. CASE link[i] < Length
  <2> DEFINE j == pushes + 1
  <2>1. /\ pushes < MaxPushes /\ pushes' = j
        /\ link' = [link EXCEPT ![j] = link[i] + 1]
        /\ place' = [place EXCEPT ![i] = "pushed", ![j] = "queued"]
    BY <1>3 DEF Chain!PushNext
  <2>2. /\ pushes \in Nat /\ j \in Chain!Instances /\ i \in 1 .. pushes /\ j # i
        /\ 1 .. j \subseteq Chain!Instances
        /\ place[j] = "none" /\ link[i] + 1 \in Chain!Links /\ link[i] \in Nat
    <3>1. pushes \in Nat /\ j \in Chain!Instances /\ j > pushes
      BY <2>1, ChainAssumption DEF ChainInv, ChainTypes, Chain!TypeOK, Chain!Instances
    <3>2. 1 .. j \subseteq Chain!Instances
      BY <3>1, ChainAssumption DEF Chain!Instances
    <3>3. i \in 1 .. pushes /\ place[j] = "none"
      BY <1>1, <3>1 DEF ChainInv, ChainTypes, Chain!TypeOK, Chain!Instances
    <3>4. link[i] \in Nat /\ link[i] + 1 \in Chain!Links
      BY <1>3, ChainAssumption DEF ChainInv, ChainTypes, Chain!TypeOK, Chain!Links
    <3> QED BY <3>1, <3>2, <3>3, <3>4
  <2> HIDE DEF j
  <2>3. ChainTypes'
    <3>1. \A n \in Chain!Instances : place'[n] = "none" <=> n > pushes'
      BY <1>1, <2>1, <2>2 DEF ChainInv, ChainTypes, Chain!TypeOK, Chain!Instances, j
    <3>2. pushes' \in 0 .. MaxPushes
      BY <2>1, <2>2, ChainAssumption DEF j
    <3>3. /\ link' \in [Chain!Instances -> Chain!Links]
          /\ place' \in [Chain!Instances -> Chain!Stages]
      BY <2>1, <2>2 DEF ChainInv, ChainTypes, Chain!TypeOK, Chain!Stages
    <3>4. \A n \in Chain!Instances :
            place'[n] = "none" => place[n] = "none" /\ link'[n] = link[n]
      BY <1>1, <2>1, <2>2 DEF ChainInv, ChainTypes, Chain!TypeOK
    <3> QED BY <1>1, <3>1, <3>2, <3>3, <3>4 DEF ChainInv, ChainTypes, Chain!TypeOK
  <2>4. InOrder'
    <3>1. \A n \in 1 .. link[i] : n \in handled
      BY <1>1, <2>2 DEF ChainInv, InOrder
    <3>2. \A n \in Chain!Instances \ {i, j} : place'[n] = place[n] /\ link'[n] = link[n]
      BY <2>1 DEF ChainInv, ChainTypes, Chain!TypeOK
    <3>3. /\ place'[i] = "pushed" /\ link'[i] = link[i]
          /\ place'[j] = "queued" /\ link'[j] = link[i] + 1
      BY <2>1, <2>2 DEF ChainInv, ChainTypes, Chain!TypeOK
    <3> QED BY <1>1, <2>2, <3>1, <3>2, <3>3 DEF ChainInv, InOrder
  <2>5. OneByOne'
    <3> SUFFICES ASSUME chainFaults = 0 PROVE OneByOne'
      BY <1>1 DEF OneByOne
    <3>1. i = pushes
      BY <1>1, <2>2 DEF ChainInv, OneByOne, Chain!Instances
    <3>2. link[i] = i /\ \A n \in 1 .. pushes : link[n] = n
      BY <2>2, <3>1 DEF ChainInv, OneByOne, Chain!Instances
    <3>3. \A n \in Chain!Instances \ {i, j} : place'[n] = place[n] /\ link'[n] = link[n]
      BY <2>1 DEF ChainInv, ChainTypes, Chain!TypeOK
    <3>4. /\ place'[i] = "pushed" /\ link'[i] = link[i]
          /\ place'[j] = "queued" /\ link'[j] = j
      BY <2>1, <2>2, <3>1, <3>2 DEF ChainInv, ChainTypes, Chain!TypeOK, j
    <3>5. \A n \in 1 .. pushes' : n # j => n \in 1 .. pushes
      BY <2>1, <2>2 DEF j
    <3>6. \A n \in 1 .. pushes' : link'[n] = n
      BY <2>1, <2>2, <3>2, <3>3, <3>4, <3>5
    <3>7. \A n \in 1 .. pushes' - 1 : place'[n] \in {"pushed", "done"}
      <4> SUFFICES ASSUME NEW n \in 1 .. pushes' - 1 PROVE place'[n] \in {"pushed", "done"}
        OBVIOUS
      <4>1. n \in 1 .. pushes /\ n \in Chain!Instances \ {j}
        BY <2>1, <2>2 DEF j
      <4>2. n # i => n \in 1 .. pushes - 1
        BY <2>2, <3>1, <4>1
      <4> QED BY <3>3, <3>4, <4>1, <4>2 DEF ChainInv, OneByOne
    <3>8. \A n \in Chain!Instances : place'[n] # "lost"
      BY <3>3, <3>4 DEF ChainInv, OneByOne
    <3>9. ASSUME NEW k \in Chain!Links
          PROVE  committed[k] = IF k <= pushes' /\ place'[k] = "done" THEN 1 ELSE 0
      <4>1. committed[k] = IF k <= pushes /\ place[k] = "done" THEN 1 ELSE 0
        BY DEF ChainInv, OneByOne
      <4>2. k \in Nat /\ k >= 1 /\ pushes' = pushes + 1 /\ j = pushes + 1
        BY <2>1 DEF Chain!Links, j
      <4>3. CASE k > j
        BY <2>2, <4>1, <4>2, <4>3
      <4>4. CASE k = j
        BY <2>2, <3>4, <4>1, <4>2, <4>4
      <4>5. CASE k = i
        BY <1>1, <2>2, <3>4, <4>1, <4>2, <4>5
      <4>6. CASE k <= pushes /\ k # i
        <5>1. k \in Chain!Instances \ {i, j}
          BY <2>2, <4>2, <4>6
        <5> QED BY <2>2, <3>3, <4>1, <4>2, <4>6, <5>1
      <4> QED BY <2>2, <4>2, <4>3, <4>4, <4>5, <4>6
    <3> QED BY <1>1, <3>6, <3>7, <3>8, <3>9 DEF ChainInv, OneByOne
  <2> QED BY <2>3, <2>4, <2>5 DEF ChainInv
<1>4. link[i] \in 1 .. Length
  BY DEF ChainInv, ChainTypes, Chain!TypeOK, Chain!Links
<1> QED BY <1>2, <1>3, <1>4, ChainAssumption

LEMMA ChainCommitInductive ==
  ASSUME ChainInv, NEW i \in Chain!Instances, Chain!Commit(i)
  PROVE  ChainInv'
<1>1. /\ place[i] = "pushed" /\ place' = [place EXCEPT ![i] = "done"]
      /\ committed' = [committed EXCEPT ![link[i]] = @ + 1]
      /\ UNCHANGED <<driver, pushes, link, attempts, handled, chainFaults>>
  BY DEF Chain!Commit, Chain!Goto
<1>2. ChainTypes'
  BY <1>1 DEF ChainInv, ChainTypes, Chain!TypeOK, Chain!Instances, Chain!Links, Chain!Stages
<1>3. InOrder'
  BY <1>1 DEF ChainInv, ChainTypes, Chain!TypeOK, InOrder
<1>4. OneByOne'
  <2> SUFFICES ASSUME chainFaults = 0 PROVE OneByOne'
    BY <1>1 DEF OneByOne
  <2>1. pushes \in Nat /\ i \in 1 .. pushes /\ 1 .. pushes \subseteq Chain!Instances
    BY <1>1, ChainAssumption DEF ChainInv, ChainTypes, Chain!TypeOK, Chain!Instances
  <2>2. link[i] = i /\ i \in Chain!Links
    BY <2>1 DEF ChainInv, ChainTypes, Chain!TypeOK, OneByOne
  <2>3. committed[i] = 0 /\ committed'[i] = 1
    BY <1>1, <2>2 DEF ChainInv, ChainTypes, Chain!TypeOK, OneByOne
  <2>4. \A k \in Chain!Links \ {i} : committed'[k] = committed[k]
    BY <1>1, <2>2 DEF ChainInv, ChainTypes, Chain!TypeOK
  <2>5. \A n \in Chain!Instances \ {i} : place'[n] = place[n]
    BY <1>1 DEF ChainInv, ChainTypes, Chain!TypeOK
  <2>6. place'[i] = "done"
    BY <1>1 DEF ChainInv, ChainTypes, Chain!TypeOK
  <2>7. \A k \in Chain!Links :
          committed'[k] = IF k <= pushes' /\ place'[k] = "done" THEN 1 ELSE 0
    <3> SUFFICES ASSUME NEW k \in Chain!Links
                 PROVE  committed'[k] = IF k <= pushes' /\ place'[k] = "done" THEN 1 ELSE 0
      OBVIOUS
    <3>1. CASE k = i
      BY <1>1, <2>1, <2>3, <2>6, <3>1
    <3>2. CASE k # i /\ k <= pushes
      <4>1. k \in 1 .. pushes
        BY <2>1, <3>2 DEF Chain!Links
      <4> QED BY <1>1, <2>1, <2>4, <2>5, <3>2, <4>1 DEF ChainInv, OneByOne
    <3>3. CASE k # i /\ ~(k <= pushes)
      BY <1>1, <2>4, <3>3 DEF ChainInv, OneByOne
    <3> QED BY <3>1, <3>2, <3>3
  <2>8. \A n \in Chain!Instances : place'[n] # "lost"
    BY <2>5, <2>6 DEF ChainInv, OneByOne
  <2>9. \A n \in 1 .. pushes' - 1 : place'[n] \in {"pushed", "done"}
    BY <1>1, <2>1, <2>5, <2>6 DEF ChainInv, OneByOne
  <2> QED BY <1>1, <2>7, <2>8, <2>9 DEF ChainInv, OneByOne
<1> QED BY <1>2, <1>3, <1>4 DEF ChainInv

LEMMA CrashInductive ==
  ASSUME ChainInv, NEW i \in Chain!Instances, Chain!Crash(i)
  PROVE  ChainInv'
<1>1. /\ chainFaults < MaxChainFaults /\ chainFaults' = chainFaults + 1
      /\ place[i] # "none" /\ DOMAIN place' = Chain!Instances
      /\ \A n \in Chain!Instances :
           place'[n] = place[n] \/ (place[n] # "none" /\ place'[n] = "lost")
      /\ UNCHANGED <<driver, pushes, link, attempts, handled, committed>>
  BY DEF Chain!Crash, Chain!Fault, Chain!Busy
<1>2. chainFaults' \in 0 .. MaxChainFaults /\ chainFaults' # 0
  BY <1>1, ChainAssumption DEF ChainInv, ChainTypes, Chain!TypeOK
<1>3. place' \in [Chain!Instances -> Chain!Stages]
  BY DEF Chain!Crash, ChainInv, ChainTypes, Chain!TypeOK, Chain!Stages
<1>4. ChainTypes'
  BY <1>1, <1>2, <1>3 DEF ChainInv, ChainTypes, Chain!TypeOK
<1>5. InOrder'
  BY <1>1 DEF ChainInv, InOrder
<1>6. OneByOne'
  BY <1>2 DEF OneByOne
<1> QED BY <1>4, <1>5, <1>6 DEF ChainInv

LEMMA NextChain ==
  ASSUME ChainInv, [Chain!Next]_chainVars
  PROVE  ChainInv'
<1>1. CASE UNCHANGED chainVars
  BY <1>1 DEF chainVars, ChainInv, ChainTypes, Chain!TypeOK, InOrder, OneByOne
<1>2. ASSUME NEW i \in Chain!Instances,
             \/ Chain!Start(i) \/ Chain!Handle(i) \/ Chain!HandleRaises(i) \/ Chain!Retry(i)
             \/ Chain!GiveUp(i) \/ Chain!PushFails(i) \/ Chain!CommitFails(i)
      PROVE  ChainInv'
  <2>1. \E s \in Chain!Stages \ {"none", "lost", "done"} :
          /\ place' = [place EXCEPT ![i] = s]
          /\ s \in {"handled", "pushed"} => link[i] \in handled'
    BY <1>2 DEF Chain!Start, Chain!Handle, Chain!HandleRaises, Chain!Retry, Chain!GiveUp,
                Chain!PushFails, Chain!CommitFails, Chain!Goto, Chain!Stages
  <2>2. /\ place[i] \in {"queued", "handling", "handled", "pushed", "raised"}
        /\ attempts' \in {attempts, [attempts EXCEPT ![i] = @ + 1]}
        /\ handled' \in {handled, handled \cup {link[i]}}
        /\ \/ chainFaults' = chainFaults /\ place[i] # "pushed"
           \/ chainFaults' = chainFaults + 1 /\ chainFaults < MaxChainFaults
        /\ UNCHANGED <<driver, pushes, link, committed>>
    BY <1>2 DEF Chain!Start, Chain!Handle, Chain!HandleRaises, Chain!Retry, Chain!GiveUp,
                Chain!PushFails, Chain!CommitFails, Chain!Fault
  <2> QED BY <2>1, <2>2, OneGoesOn
<1>3. CASE Chain!Next
  BY <1>2, <1>3, ChainDispatchInductive, PushNextInductive, ChainCommitInductive,
     CrashInductive DEF Chain!Next, Chain!Step
<1> QED BY <1>1, <1>3

LEMMA ChainHolds ==
  ASSUME ChainInv
  PROVE  Chain!TypeOK /\ Chain!LinksInOrder /\ Chain!StopsAtFailure
<1>1. Chain!TypeOK
  BY DEF ChainInv, ChainTypes
<1>2. \A i \in Chain!Instances : attempts[i] > 0 => place[i] # "none" /\ i <= pushes
  BY DEF ChainInv, ChainTypes, Chain!TypeOK, Chain!Instances
<1>3. Chain!LinksInOrder
  BY <1>2 DEF ChainInv, InOrder, Chain!LinksInOrder, Chain!Started
<1>4. Chain!StopsAtFailure
  <2> SUFFICES ASSUME chainFaults = 0
               PROVE  /\ \A k, n \in Chain!Links :
                           Chain!GaveUp(k) /\ n > k => ~Chain!Started(n)
                      /\ \A k \in Chain!Links : committed[k] <= 1
    BY DEF Chain!StopsAtFailure
  <2>1. \A i \in Chain!Instances : i <= pushes => link[i] = i
    BY DEF ChainInv, ChainTypes, Chain!TypeOK, OneByOne, Chain!Instances
  <2>2. \A i \in Chain!Instances : place[i] = "failed" => i = pushes /\ link[i] = i
    BY <2>1 DEF ChainInv, ChainTypes, Chain!TypeOK, OneByOne, Chain!Instances
  <2>3. \A k, n \in Chain!Links : Chain!GaveUp(k) /\ n > k => ~Chain!Started(n)
    BY <1>2, <2>1, <2>2
       DEF Chain!GaveUp, Chain!Started, Chain!Links, Chain!Instances, ChainInv, ChainTypes,
           Chain!TypeOK
  <2>4. \A k \in Chain!Links : committed[k] <= 1
    BY DEF ChainInv, OneByOne
  <2> QED BY <2>3, <2>4
<1> QED BY <1>1, <1>3, <1>4

(***************************************************************************)
(* Theorems, about what run Queue checks.  Of the behaviours' fairness     *)
(* nothing is used.                                                        *)
(***************************************************************************)

WorkflowsInv == MemoryInv /\ RedisInv /\ ChainInv

LEMMA WorkflowsInductive ==
  /\ QueueInit => WorkflowsInv
  /\ WorkflowsInv /\ [QueueNext]_<<dispatched, vars, batchVars, memoryVars, chainVars>> =>
       /\ WorkflowsInv'
       /\ [Redis!Next]_batchVars
<1>1. QueueInit => WorkflowsInv
  BY InitMemory, InitRedis, InitChain DEF QueueInit, WorkflowsInv
<1>2. ASSUME WorkflowsInv, [QueueNext]_<<dispatched, vars, batchVars, memoryVars, chainVars>>
      PROVE  WorkflowsInv' /\ [Redis!Next]_batchVars
  <2>1. /\ [Redis!Next]_batchVars
        /\ [Memory!Next]_memoryVars
        /\ [Chain!Next]_chainVars
    BY <1>2 DEF QueueNext
  <2> QED BY <1>2, <2>1, NextMemory, NextRedis, NextChain DEF WorkflowsInv
<1> QED BY <1>1, <1>2

(* Batches and chains are type correct, in particular the trackers' counts *)
(* stay within the members there are and those that expired keys let them  *)
(* count below zero (queue.py:543-549, 585-623).                           *)
THEOREM WorkflowsTypeCorrect == FairQueueSpec => []WorkflowsTypeOK
<1>1. WorkflowsInv => WorkflowsTypeOK
  BY MemoryHolds, RedisHolds, ChainHolds DEF WorkflowsInv, WorkflowsTypeOK
<1> QED BY <1>1, WorkflowsInductive, PTL DEF FairQueueSpec

(* A batch's `then` is pushed at most once and after all members, be its   *)
(* tracker in the process or in Redis, whose keys may expire; the links of *)
(* a chain begin in order, and none after one that gave up                 *)
(* (queue.py:442-447, 457-459, 543-549, 597-623, 661-667).                 *)
THEOREM AlwaysOnceAndInOrder == FairQueueSpec => []OnceAndInOrder
<1>1. WorkflowsInv => OnceAndInOrder
  BY MemoryHolds, RedisHolds, ChainHolds DEF WorkflowsInv, OnceAndInOrder
<1> QED BY <1>1, WorkflowsInductive, PTL DEF FairQueueSpec

(* The batch over Redis, as long as no key expires, is a batch of the      *)
(* in-process tracker: its DECR is the critical section, the commands      *)
(* after it and the order they come in change nothing                      *)
(* (queue.py:543-549, 597-611).                                            *)
THEOREM RedisBatchImplements == FairQueueSpec => ImplementsJobBatch
<1>1. QueueInit => Redis!Batch!Init
  BY InitImplements DEF QueueInit
<1>2. /\ WorkflowsInv /\ WorkflowsInv'
      /\ [QueueNext]_<<dispatched, vars, batchVars, memoryVars, chainVars>>
      => [Redis!Batch!Next]_(Redis!Batch!batchVars)
  BY WorkflowsInductive, NextImplements DEF WorkflowsInv
<1> QED BY <1>1, <1>2, WorkflowsInductive, PTL
        DEF FairQueueSpec, ImplementsJobBatch, Redis!ImplementsJobBatch, Redis!Batch!Spec

=============================================================================
