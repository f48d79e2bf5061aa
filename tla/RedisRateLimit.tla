-------------------------- MODULE RedisRateLimit --------------------------
(***************************************************************************)
(* src/src/zeython/rate_limit.py, class RedisRateLimiter: one key, counted *)
(* by the callers of hit() in several processes.  hit() sends up to three  *)
(* commands, and what other callers and the clock do comes in between.     *)
(* schedule.py's without_overlapping() is such a caller, with limit 1.     *)
(***************************************************************************)
EXTENDS Integers, FiniteSets

CONSTANTS Callers,
          Limit,
          Window,      \* the argument of hit(), in units of the clock
          Second,      \* units of the clock in a second
          MaxTime,     \* bound on the clock
          MaxCount,    \* bound on the hits in one window
          MaxCrashes,  \* bound on callers that die within hit()
          None

VARIABLES count,     \* the value of the key, 0 if there is none
          deadline,  \* when it expires, None if it has no expiry
          now,
          stage,     \* where each caller's hit() is
          seen,      \* the answer to its INCR
          granted,   \* INCRs answered with at most Limit: their times and counts
          crashes

vars == <<count, deadline, now, stage, seen, granted, crashes>>

Times == 0 .. MaxTime

TypeOK ==
  /\ count \in Nat
  /\ deadline \in Nat \cup {None}
  /\ count = 0 => deadline = None
  /\ deadline # None => deadline > now
  /\ now \in Times
  /\ stage \in [Callers -> {"idle", "expire", "ttl", "dead"}]
  /\ seen \in [Callers -> Nat]
  /\ granted \subseteq Times \X (1 .. Limit)
  /\ crashes \in 0 .. MaxCrashes

Init ==
  /\ count = 0 /\ deadline = None
  /\ now = 0
  /\ stage = [p \in Callers |-> "idle"]
  /\ seen = [p \in Callers |-> 0]
  /\ granted = {}
  /\ crashes = 0

(* Mutant: the key is still there at the end of its last second.           *)
TickLate ==
  /\ now < MaxTime
  /\ now' = now + 1
  /\ IF deadline # None /\ deadline < now'
       THEN count' = 0 /\ deadline' = None
       ELSE UNCHANGED <<count, deadline>>
  /\ UNCHANGED <<stage, seen, granted, crashes>>

(* Time passes; Redis drops the key at its deadline.                       *)
Tick ==
  /\ now < MaxTime
  /\ now' = now + 1
  /\ IF deadline = now'
       THEN count' = 0 /\ deadline' = None
       ELSE UNCHANGED <<count, deadline>>
  /\ UNCHANGED <<stage, seen, granted, crashes>>

(* Mutant: the limit is checked against the count before this hit.         *)
AllowsOneMore(n) == n - 1 <= Limit

Allows(n) == n <= Limit

Incr(p) ==
  /\ stage[p] = "idle" /\ count < MaxCount
  /\ count' = count + 1
  /\ seen' = [seen EXCEPT ![p] = count']
  /\ stage' = [stage EXCEPT ![p] = IF count' = 1 THEN "expire" ELSE "ttl"]
  /\ granted' = granted \cup (IF Allows(count') THEN {<<now, count'>>} ELSE {})
  /\ UNCHANGED <<deadline, now, crashes>>

(* max(int(window), 1) seconds                                             *)
WholeSeconds == LET s == Window \div Second IN (IF s < 1 THEN 1 ELSE s) * Second

(* Mutant: `if count > 1`, so that the first hit sets no expiry.           *)
ExpireSkipped(p) ==
  /\ stage[p] = "expire"
  /\ stage' = [stage EXCEPT ![p] = "ttl"]
  /\ UNCHANGED <<count, deadline, now, seen, granted, crashes>>

Expire(p) ==
  /\ stage[p] = "expire"
  /\ stage' = [stage EXCEPT ![p] = "ttl"]
  /\ deadline' = now + WholeSeconds
  /\ UNCHANGED <<count, now, seen, granted, crashes>>

(* TTL, which only feeds retry_after and reset_after, then the result.     *)
Ttl(p) ==
  /\ stage[p] = "ttl"
  /\ stage' = [stage EXCEPT ![p] = "idle"]
  /\ UNCHANGED <<count, deadline, now, seen, granted, crashes>>

(* The caller dies, or its next command raises.                            *)
Crash(p) ==
  /\ stage[p] \in {"expire", "ttl"} /\ crashes < MaxCrashes
  /\ crashes' = crashes + 1
  /\ stage' = [stage EXCEPT ![p] = "dead"]
  /\ UNCHANGED <<count, deadline, now, seen, granted>>

Next == Tick \/ \E p \in Callers : Incr(p) \/ Expire(p) \/ Ttl(p) \/ Crash(p)

Spec == Init /\ [][Next]_vars

(***************************************************************************)
(* Properties                                                              *)
(***************************************************************************)

(* A count comes once at a time: a new window starts at a later one.       *)
GrantedIn(from, to) ==
  Cardinality({g \in granted : from < g[1] /\ g[1] <= to})

(* "a client can get up to 2x limit requests through across a window       *)
(* boundary" (rate_limit.py:112-117).  With windows of whole seconds it is *)
(* less within one window's length, however late an EXPIRE comes, for a    *)
(* window starts with a hit of its own: without_overlapping(), whose limit *)
(* is 1, starts no run within for_seconds of the previous one              *)
(* (schedule.py:144-147, 179-190).  int() shortens a fractional window,    *)
(* and three full bursts then fit.                                         *)
FewerThanTwice ==
  Window % Second = 0 => GrantedIn(now - Window, now) < 2 * Limit

(* A key without an expiry never resets: unless a caller died between INCR *)
(* and EXPIRE, the caller that will set it is still there                  *)
(* (rate_limit.py:136-143).                                                *)
ExpiryOnItsWay ==
  count > 0 /\ deadline = None /\ crashes = 0 => \E p \in Callers : stage[p] = "expire"

=============================================================================
