----------------------------- MODULE RateLimit -----------------------------
(***************************************************************************)
(* src/src/zeython/rate_limit.py, class InMemoryRateLimiter: a log of hit  *)
(* times per key, the keys ordered by their last hit and bounded in        *)
(* number.  hit() runs under one asyncio.Lock without an await inside, so  *)
(* each call is one step.                                                  *)
(***************************************************************************)
EXTENDS Integers, Sequences, FiniteSets, SequencesExt

CONSTANTS Calls,       \* the arguments hit() is called with, a set of
                       \* [key, limit, window] records
          MaxTracked,  \* max_tracked_keys
          MaxTime,     \* bound on the clock
          MaxHits,     \* bound on the calls
          None

Keys == {c.key : c \in Calls}

VARIABLES bucket,   \* self._hits[key]
          order,    \* the keys of self._hits, least recently hit first
          now,      \* self._clock()
          granted,  \* times of the allowed hits since the key was evicted
          last,     \* the last call and its RateLimitResult
          calls

vars == <<bucket, order, now, granted, last, calls>>

Limits == {c.limit : c \in Calls}

(* No more than the largest limit is ever kept for a key, and nothing for  *)
(* a key that is not tracked.                                              *)
TypeOK ==
  /\ bucket \in [Keys -> Seq(0 .. MaxTime)]
  /\ \A k \in Keys : \E n \in Limits : Len(bucket[k]) <= n
  /\ order \in Seq(Keys) /\ IsInjective(order)
  /\ \A k \in Keys : k \in ToSet(order) <=> bucket[k] # <<>>
  /\ now \in 0 .. MaxTime
  /\ granted \in [Keys -> Seq(0 .. MaxTime)]
  /\ last = None \/ last \in [call : Calls, allowed : BOOLEAN, retryAfter : Nat]
  /\ calls \in 0 .. MaxHits

Init ==
  /\ bucket = [k \in Keys |-> <<>>]
  /\ order = <<>>
  /\ now = 0
  /\ granted = [k \in Keys |-> <<>>]
  /\ last = None
  /\ calls = 0

Tick ==
  /\ now < MaxTime
  /\ now' = now + 1
  /\ last' = None
  /\ UNCHANGED <<bucket, order, granted, calls>>

(* popleft() as long as the first of them is old.                          *)
Since(log, cutoff) ==
  SubSeq(log, Min({i \in 1 .. Len(log) + 1 : i <= Len(log) => log[i] > cutoff}),
         Len(log))

(* Mutant: a hit as old as the window still counts.                        *)
RecentInclusive(c) == Since(bucket[c.key], now - c.window - 1)

Recent(c) == Since(bucket[c.key], now - c.window)

(* Mutant: one hit more than the limit is let through.                     *)
WithinOneMore(c) == Len(Recent(c)) <= c.limit

Within(c) == Len(Recent(c)) < c.limit

Logged(c) == IF Within(c) THEN Append(Recent(c), now) ELSE Recent(c)

Place(k) == CHOOSE i \in DOMAIN order : order[i] = k
MoveToEnd(k) ==
  Append(IF k \in ToSet(order) THEN RemoveAt(order, Place(k)) ELSE order, k)

(* popitem(last=False) while there are too many keys: one at most.         *)
Evicted(keys) == IF Len(keys) > MaxTracked THEN {Head(keys)} ELSE {}

Later(a, b) == IF a > b THEN a ELSE b

Hit(c) ==
  LET moved == MoveToEnd(c.key)
      gone == Evicted(moved)
  IN
    /\ calls < MaxHits
    /\ calls' = calls + 1
    /\ order' = IF gone = {} THEN moved ELSE Tail(moved)
    /\ bucket' = [k \in Keys |-> IF k \in gone THEN <<>>
                                 ELSE IF k = c.key THEN Logged(c) ELSE bucket[k]]
    /\ granted' = [k \in Keys |-> IF k \in gone THEN <<>>
                                  ELSE IF k = c.key /\ Within(c)
                                    THEN Append(granted[k], now) ELSE granted[k]]
    /\ last' = [call |-> c, allowed |-> Within(c),
                retryAfter |-> IF Within(c) THEN 0
                               ELSE Later(Recent(c)[1] + c.window - now, 0)]
    /\ UNCHANGED now

Next == Tick \/ \E c \in Calls : Hit(c)

Spec == Init /\ [][Next]_vars

(***************************************************************************)
(* Properties                                                              *)
(***************************************************************************)

GrantedWithin(c) == Len(Since(granted[c.key], now - c.window))

(* hit() reports "whether it's within limit per window seconds"            *)
(* (rate_limit.py:41): an allowed hit is among the first `limit` of the    *)
(* window that ends with it, unless the key was evicted meanwhile.  It     *)
(* takes one window per key: a call with a shorter one drops hits that a   *)
(* call with a longer one still has to count (rate_limit.py:82-83).        *)
LimitHolds ==
  last # None /\ last.allowed => GrantedWithin(last.call) <= last.call.limit

(* retry_after is the "seconds until the next hit would be allowed"        *)
(* (rate_limit.py:32): not before, and then indeed.                        *)
RetryAfterExact ==
  last # None /\ ~last.allowed =>
    LET c == last.call
        AllowedAt(t) == Len(Since(granted[c.key], t - c.window)) < c.limit
    IN /\ last.retryAfter > 0
       /\ AllowedAt(now + last.retryAfter)
       /\ \A d \in 0 .. last.retryAfter - 1 : ~AllowedAt(now + d)

=============================================================================
