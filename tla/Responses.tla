----------------------------- MODULE Responses -----------------------------
(***************************************************************************)
(* One client's requests through RateLimitMiddleware, then                 *)
(* RateLimitHeadersMiddleware, and ETagMiddleware outside or inside the    *)
(* two, to handlers that may call throttle() and that answer with what the *)
(* database holds, in two chunks.  The client keeps what it was sent, and  *)
(* asks again with its tag.                                                *)
(***************************************************************************)
EXTENDS FiniteSets, Naturals, Sequences

CONSTANTS Requests,     \* numbers, in the order in which they arrive
          BlanketLimit, RouteLimit,
          MaxVersion    \* of what the handlers answer with

Empty == 0               \* no copy, no tag
Limiters == {"blanket", "route"}

VARIABLES
  outermost,    \* ETagMiddleware was added last
  version,      \* what is committed
  copy,         \* what the client holds
  counts,       \* the limiter's hits by key
  stage,        \* of a request
  throttled,    \* those whose handler calls throttle()
  asks,         \* the tag that it sends
  result,       \* scope["state"]["rate_limit_result"]: whose it is
  content,      \* what its handler has read
  chunks,       \* how many messages the handler has sent
  sent,         \* the messages that have left the application
  granted       \* requests that each limiter let through, in its window

vars == <<outermost, version, copy, counts, stage, throttled, asks, result,
          content, chunks, sent, granted>>

Stages == {"new", "inside", "running", "over"}
Start == [type : {"start"}, status : {200, 304, 429, 500},
          limits : Limiters \cup {"none"}]
Body(v) == [type |-> "body", of |-> v]

TypeOK ==
  /\ outermost \in BOOLEAN /\ version \in 1 .. MaxVersion /\ copy \in 0 .. version
  /\ DOMAIN counts \subseteq {"blanket:", "ip:"}
  /\ stage \in [Requests -> Stages]
  /\ throttled \subseteq Requests /\ asks \in [Requests -> 0 .. MaxVersion]
  /\ result \in [Requests -> Limiters \cup {"none"}]
  /\ content \in [Requests -> 0 .. MaxVersion] /\ chunks \in [Requests -> 0 .. 3]
  /\ \A r \in Requests : \A i \in DOMAIN sent[r] :
       sent[r][i].type = "start" => sent[r][i] \in Start
  /\ granted \in [Limiters -> SUBSET Requests]

Init ==
  /\ outermost \in BOOLEAN /\ version = 1 /\ copy = Empty
  /\ counts = [key \in {"blanket:", "ip:"} |-> 0]
  /\ stage = [r \in Requests |-> "new"]
  /\ throttled = {}
  /\ asks = [r \in Requests |-> Empty] /\ result = [r \in Requests |-> "none"]
  /\ content = [r \in Requests |-> Empty] /\ chunks = [r \in Requests |-> 0]
  /\ sent = [r \in Requests |-> <<>>]
  /\ granted = [l \in Limiters |-> {}]

-----------------------------------------------------------------------------
(* The limiters: one RateLimiter, two keys                                 *)

(* A mutant: both count under throttle()'s default key.                    *)
OneKey(l) == "ip:"

Key(l) == IF l = "blanket" THEN "blanket:" ELSE "ip:"
Limit(l) == IF l = "blanket" THEN BlanketLimit ELSE RouteLimit

Passes(l) == counts[Key(l)] < Limit(l)

Hit(r, l) ==
  IF Passes(l) THEN /\ counts' = [counts EXCEPT ![Key(l)] = @ + 1]
                    /\ granted' = [granted EXCEPT ![l] = @ \cup {r}]
  ELSE UNCHANGED <<counts, granted>>

(* A limiter's window is over for all of its hits; RateLimit has the rest. *)
WindowEnds(l) ==
  /\ counts' = [counts EXCEPT ![Key(l)] = 0]
  /\ granted' = [granted EXCEPT ![l] = {}]
  /\ UNCHANGED <<outermost, version, copy, stage, throttled, asks, result,
                 content, chunks, sent>>

-----------------------------------------------------------------------------
(* Layers                                                                  *)

Message(status, limits) ==
  [type |-> "start", status |-> status, limits |-> limits]

(* A mutant: the layer asks for the result before it calls the handler.    *)
StampedEarly(r) == "blanket"

(* RateLimitHeadersMiddleware, when the start comes by: the last result.   *)
Stamped(r) == result[r]

Leave(r, messages) ==
  /\ sent' = [sent EXCEPT ![r] = messages]
  /\ stage' = [stage EXCEPT ![r] = "over"]

(* The request arrives with the client's tag, and the blanket limit counts *)
(* it: 429 with the headers, or it goes on.                                *)
Arrive(r) ==
  /\ stage[r] = "new" /\ \A q \in Requests : q < r => stage[q] # "new"
  /\ throttled' \in {throttled, throttled \cup {r}}
  /\ asks' = [asks EXCEPT ![r] = copy]
  /\ Hit(r, "blanket")
  /\ result' = [result EXCEPT ![r] = "blanket"]
  /\ IF Passes("blanket")
       THEN stage' = [stage EXCEPT ![r] = "inside"] /\ UNCHANGED sent
       ELSE Leave(r, <<Message(429, "blanket"), Body(Empty)>>)
  /\ UNCHANGED <<outermost, version, copy, content, chunks>>

(* throttle() keeps its result for the headers, and raises: the exception  *)
(* handler's 429 takes the way of every response.  Then the handler reads. *)
Handle(r) ==
  /\ stage[r] = "inside"
  /\ IF r \in throttled
       THEN Hit(r, "route") /\ result' = [result EXCEPT ![r] = "route"]
       ELSE UNCHANGED <<counts, granted, result>>
  /\ IF r \in throttled /\ ~ Passes("route")
       THEN /\ Leave(r, <<Message(429, "route"), Body(Empty)>>)
            /\ UNCHANGED content
       ELSE /\ stage' = [stage EXCEPT ![r] = "running"]
            /\ content' = [content EXCEPT ![r] = version]
            /\ UNCHANGED sent
  /\ UNCHANGED <<outermost, version, copy, throttled, asks, chunks>>

(* A mutant: the tag is that of the first chunk, the same in all versions. *)
TagOfFirst(r) == 1

(* The hash of the whole body, once the last chunk is there.               *)
Tag(r) == content[r]

(* A mutant: what was buffered follows the 304.                            *)
AndAll(r) ==
  <<Message(304, Stamped(r)), Body(Empty),
    Message(200, Stamped(r)), Body(content[r])>>

NotModified(r) ==
  <<Message(304, IF outermost THEN "none" ELSE Stamped(r)), Body(Empty)>>

(* ETagMiddleware has buffered the start and both chunks.                  *)
Whole(r) ==
  IF asks[r] # Empty /\ asks[r] = Tag(r) THEN NotModified(r)
  ELSE <<Message(200, Stamped(r)), Body(content[r])>>

Answer(r) ==
  /\ stage[r] = "running"
  /\ chunks' = [chunks EXCEPT ![r] = @ + 1]
  /\ IF chunks[r] = 2
       THEN /\ Leave(r, Whole(r))
            /\ copy' = IF sent'[r][1].status = 200 THEN content[r] ELSE copy
       ELSE UNCHANGED <<sent, stage, copy>>
  /\ UNCHANGED <<outermost, version, counts, throttled, asks, result, content,
                 granted>>

(* The handler raises before or between its messages: none has left, so    *)
(* ServerErrorMiddleware, outside all layers, sends a 500 of its own.      *)
Raise(r) ==
  /\ stage[r] = "running"
  /\ Leave(r, <<Message(500, "none"), Body(Empty)>>)
  /\ UNCHANGED <<outermost, version, copy, counts, throttled, asks, result,
                 content, chunks, granted>>

(* Another client's write is committed.                                    *)
Write ==
  /\ version < MaxVersion /\ version' = version + 1
  /\ UNCHANGED <<outermost, copy, counts, stage, throttled, asks, result,
                 content, chunks, sent, granted>>

Next ==
  \/ Write \/ \E l \in Limiters : WindowEnds(l)
  \/ \E r \in Requests : Arrive(r) \/ Handle(r) \/ Answer(r) \/ Raise(r)

Spec == Init /\ [][Next]_vars

-----------------------------------------------------------------------------
(* What leaves the application for a request is one whole response: one    *)
(* start, then its body, never a part of one; a 304 only to a client whose *)
(* own copy is what the handler read, and a new copy is what it read       *)
(* (etag.py:55-79).                                                        *)
WholeAndTrue ==
  \A r \in Requests : sent[r] # <<>> =>
    /\ Len(sent[r]) = 2 /\ sent[r][1].type = "start" /\ sent[r][2].type = "body"
    /\ sent[r][1].status = 304 => asks[r] = content[r]
    /\ sent[r][1].status = 200 => sent[r][2].of = content[r]

(* A request costs each budget one hit at most, and the requests of other  *)
(* routes cost the route's nothing: its count is that of the requests that *)
(* throttle() let through, and the blanket's that of all that were let in  *)
(* (rate_limit.py:193-199, 236-251).                                       *)
BudgetsApart ==
  \A l \in Limiters : counts[Key(l)] = Cardinality(granted[l])

(* Every response of a request that a limiter has seen tells the limits of *)
(* the last one that did, be it let through or not: but for the 500 of a   *)
(* handler that raised, and the 304 of an ETagMiddleware outside           *)
(* (rate_limit.py:242-248, 278-286, etag.py:70-73).                        *)
LimitsAreTold ==
  \A r \in Requests : sent[r] # <<>> =>
    \/ sent[r][1].limits = result[r]
    \/ sent[r][1].status = 500
    \/ sent[r][1].status = 304 /\ outermost

=============================================================================
