------------------------------ MODULE Schedule ------------------------------
(***************************************************************************)
(* src/src/zeython/schedule.py.  `zeython schedule run` is started once a  *)
(* minute as a process of its own; it reads the clock, collects the events *)
(* that are due and runs them one after the other, behind the RateLimiter  *)
(* when they are without_overlapping().  The limiter is the shared one     *)
(* (RedisRateLimit); what it does within a hit is that module's subject.   *)
(*                                                                         *)
(* Time is counted in minutes from midnight on 2026-01-01, a Thursday.     *)
(***************************************************************************)
EXTENDS Naturals, Sequences, FiniteSets

CONSTANTS Schedules,   \* the registered events, in order
          Expression,  \* of an event: its cron fields
          Window,      \* of an event: its overlap window in minutes, or 0
          Opening,
          Closing,     \* the first and the last minute that are looked at
          MaxCrashes   \* bound on processes that die

VARIABLES
  now,      \* the minute
  process,  \* of the process that cron started in a minute: what it does
  at,       \* of a process: the minute that it has read from the clock
  due,      \* of a process: the places of the events it has still to run
  handled,  \* of a process: the events that it has started, skipped or reported
  expires,  \* of an event: when its key in the limiter does
  starts,   \* of an event: the minutes in which it was started
  crashes

vars == <<now, process, at, due, handled, expires, starts, crashes>>

(***************************************************************************)
(* cron_matches()                                                          *)
(***************************************************************************)

(* A field is a set of parts.  "*" is Star, "*/1" the range of all values, *)
(* and a value n is n-n.                                                   *)
Star == [star |-> TRUE, lo |-> 0, hi |-> 0, step |-> 1]
Every(n) == [Star EXCEPT !.step = n]
Range(lo, hi, step) == [star |-> FALSE, lo |-> lo, hi |-> hi, step |-> step]

PartMatches(value, part) ==
  IF part.star THEN value % part.step = 0
  ELSE value \in part.lo .. part.hi /\ (value - part.lo) % part.step = 0

FieldMatches(value, field) == \E part \in field : PartMatches(value, part)

(* The day of a month is found for the first two months of 2026.           *)
At(m) ==
  LET days == m \div 1440 IN
  [minute |-> m % 60, hour |-> (m \div 60) % 24,
   day |-> IF days < 31 THEN days + 1 ELSE days - 30,
   month |-> IF days < 31 THEN 1 ELSE 2,
   weekday |-> (days + 3) % 7]        \* Python's: Monday is 0

CronMatches(fields, t) ==
  LET day == FieldMatches(t.day, fields.day)
      weekday == FieldMatches((t.weekday + 1) % 7, fields.weekday)
  IN /\ FieldMatches(t.minute, fields.minute)
     /\ FieldMatches(t.hour, fields.hour)
     /\ FieldMatches(t.month, fields.month)
     /\ IF {Star} \notin {fields.day, fields.weekday} THEN day \/ weekday
                                                      ELSE day /\ weekday

(***************************************************************************)
(* The processes                                                           *)
(***************************************************************************)

EventSet == {Schedules[i] : i \in DOMAIN Schedules}
MinuteSet == Opening .. Closing

TypeOK ==
  /\ now \in MinuteSet
  /\ process \in [MinuteSet -> {"none", "loading", "between", "running", "done", "dead"}]
  /\ at \in [MinuteSet -> MinuteSet]
  /\ due \in [MinuteSet -> SUBSET DOMAIN Schedules]
  /\ handled \in [MinuteSet -> SUBSET EventSet]
  /\ expires \in [EventSet -> Nat] /\ starts \in [EventSet -> Seq(MinuteSet)]
  /\ crashes \in 0 .. MaxCrashes

Init ==
  /\ now = Opening
  /\ process = [m \in MinuteSet |-> "none"] /\ at = [m \in MinuteSet |-> Opening]
  /\ due = [m \in MinuteSet |-> {}] /\ handled = [m \in MinuteSet |-> {}]
  /\ expires = [e \in EventSet |-> 0] /\ starts = [e \in EventSet |-> <<>>]
  /\ crashes = 0

Become(m, s) == process' = [process EXCEPT ![m] = s]

Tick ==
  /\ now < Closing /\ now' = now + 1
  /\ UNCHANGED <<process, at, due, handled, expires, starts, crashes>>

(* cron starts `zeython schedule run`.                                     *)
Spawn ==
  /\ process[now] = "none" /\ Become(now, "loading")
  /\ UNCHANGED <<now, at, due, handled, expires, starts, crashes>>

(* The application is loaded; run_due() reads the clock only then.         *)
ReadClock(m) ==
  /\ process[m] = "loading"
  /\ at' = [at EXCEPT ![m] = now]
  /\ due' = [due EXCEPT ![m] =
       {i \in DOMAIN Schedules : CronMatches(Expression[Schedules[i]], At(now))}]
  /\ Become(m, "between")
  /\ UNCHANGED <<now, handled, expires, starts, crashes>>

(* The next one, in the order of registration.                             *)
Earliest(places) == CHOOSE i \in places : \A k \in places : i <= k
Upcoming(m) == Schedules[Earliest(due[m])]
Others(m) == due[m] \ {Earliest(due[m])}

Handle(m, e) == handled' = [handled EXCEPT ![m] = @ \cup {e}]

(* Mutant: the limiter is asked, and its answer not looked at.             *)
AlwaysAllowed(e) == TRUE

(* RateLimiter.hit() with limit 1: no start within the window.             *)
Allowed(e) == Window[e] = 0 \/ expires[e] <= now

StartEvent(m) ==
  /\ process[m] = "between" /\ due[m] # {}
  /\ LET e == Upcoming(m) IN
       /\ Allowed(e) /\ Handle(m, e)
       /\ starts' = [starts EXCEPT ![e] = Append(@, now)]
       /\ expires' = [expires EXCEPT ![e] = now + Window[e]]
  /\ Become(m, "running")
  /\ UNCHANGED <<now, at, due, crashes>>

SkipEvent(m) ==
  /\ process[m] = "between" /\ due[m] # {}
  /\ ~Allowed(Upcoming(m)) /\ Handle(m, Upcoming(m))
  /\ due' = [due EXCEPT ![m] = Others(m)]
  /\ UNCHANGED <<now, process, at, expires, starts, crashes>>

(* What a hit() that does not get to its answer leaves of the key: that of *)
(* before, a new one, or one whose INCR has no EXPIRE and that stays.      *)
Never(e) == Closing + 1 + Window[e]
CutShort(e) ==
  {expires} \cup (IF Window[e] > 0 /\ Allowed(e)
                   THEN {[expires EXCEPT ![e] = t] : t \in {now + Window[e], Never(e)}}
                   ELSE {})

(* hit() raises, which is logged and reported like what a callback raises. *)
HitFails(m) ==
  /\ process[m] = "between" /\ due[m] # {}
  /\ LET e == Upcoming(m) IN
       Window[e] > 0 /\ Handle(m, e) /\ expires' \in CutShort(e)
  /\ due' = [due EXCEPT ![m] = Others(m)]
  /\ UNCHANGED <<now, process, at, starts, crashes>>

(* Mutant: an exception ends run_due().                                    *)
EndAll(m, raised) ==
  /\ process[m] = "running" /\ Become(m, "between")
  /\ due' = [due EXCEPT ![m] = IF raised THEN {} ELSE Others(m)]
  /\ UNCHANGED <<now, at, handled, expires, starts, crashes>>

(* What the callback raises is logged and reported.                        *)
EndEvent(m, raised) ==
  /\ process[m] = "running" /\ Become(m, "between")
  /\ due' = [due EXCEPT ![m] = Others(m)]
  /\ UNCHANGED <<now, at, handled, expires, starts, crashes>>

Exit(m) ==
  /\ process[m] = "between" /\ due[m] = {} /\ Become(m, "done")
  /\ UNCHANGED <<now, at, due, handled, expires, starts, crashes>>

(* At any moment, also within hit().                                       *)
Crash(m) ==
  /\ process[m] \in {"loading", "between", "running"} /\ crashes < MaxCrashes
  /\ crashes' = crashes + 1 /\ Become(m, "dead")
  /\ \/ UNCHANGED expires
     \/ /\ process[m] = "between" /\ due[m] # {}
        /\ expires' \in CutShort(Upcoming(m))
  /\ UNCHANGED <<now, at, due, handled, starts>>

Next ==
  \/ Tick \/ Spawn
  \/ \E m \in MinuteSet :
       \/ ReadClock(m) \/ StartEvent(m) \/ SkipEvent(m) \/ HitFails(m)
       \/ Exit(m) \/ Crash(m)
       \/ \E raised \in BOOLEAN : EndEvent(m, raised)

Spec == Init /\ [][Next]_vars

(***************************************************************************)
(* Properties                                                              *)
(***************************************************************************)

(* Of an event without_overlapping() two runs do not start within its      *)
(* window (schedule.py:144-147), whichever processes start them, however   *)
(* long the first takes, and whatever becomes of the hits between them.    *)
StartsApart ==
  \A e \in EventSet : \A i \in 1 .. Len(starts[e]) - 1 :
    starts[e][i + 1] >= starts[e][i] + Window[e]
=============================================================================
