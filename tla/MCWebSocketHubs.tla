-------------------------- MODULE MCWebSocketHubs --------------------------
(***************************************************************************)
(* The two WebSocket hubs for TLC.  An application binds one of them, and  *)
(* a behaviour takes the steps of that one alone.                          *)
(***************************************************************************)
EXTENDS RedisWebSocketHub, TLC

CONSTANTS p1, p2, c1, c2, c3, m1, m2,
          Conns, Ip, MaxPerIp, Casts, BadCasts, MaxCancels, None

ASSUME LocalAssumption ==
  /\ IsFiniteSet(Conns) /\ MaxPerIp \in Nat /\ MaxCancels \in Nat
  /\ BadCasts \subseteq Casts /\ None \notin Casts

VARIABLES hub,                          \* "local" or "redis"
          task, alive, connections, byIp, ipOf,
          cast, todo, stale,            \* of WebSocketHub
          audience, sent, refused, over, overlapped, cancels

localVars == <<task, alive, connections, byIp, ipOf, cast, todo, stale,
               audience, sent, refused, over, overlapped, cancels>>

(* Two clients of one process and one of another; the first one sends two  *)
(* messages, the third one sends one.                                      *)
Homes == [c \in Clients |-> IF c = c3 THEN p2 ELSE p1]
Senders == [m \in Messages |-> IF m = 3 THEN c3 ELSE c1]

(* The first two connections come from one address.                        *)
Addresses == [c \in Conns |-> IF c = c3 THEN "other" ELSE "one"]

Local == INSTANCE WebSocketHub
           WITH handler <- task, ended <- over

EitherInit == hub \in {"local", "redis"} /\ Init /\ Local!Init

EitherNext ==
  \/ hub = "redis" /\ Next /\ UNCHANGED <<hub, localVars>>
  \/ hub = "local" /\ Local!Next /\ UNCHANGED <<hub, vars>>

EitherSpec == EitherInit /\ [][EitherNext]_<<hub, vars, localVars>>

(* In the behaviours of the local hub no client ever connects to Redis'    *)
(* one, whose steps are never enabled.                                     *)
FairEitherSpec == EitherSpec /\ Fairness

(* Both keep their types: a buffer only for a subscriber, a SUBSCRIBE only *)
(* of a listener, and a broadcast()'s local variables only while it runs.  *)
BothTypeOK == TypeOK /\ Local!TypeOK

(* WebSocketHub's properties: a slot is held from accept() to disconnect(),*)
(* and the cap but for handshakes that overlap (websockets.py:105-124);    *)
(* broadcast() tries whoever was there and drops nobody but who is gone    *)
(* (websockets.py:137-150).                                                *)
LocalHubHolds ==
  /\ Local!SlotsExact /\ Local!CapHolds
  /\ Local!ReachesEveryone /\ Local!OnlyGoneDropped

(* RedisWebSocketHub's: what was published while a process was subscribed  *)
(* arrives there, and connect() returns (websockets.py:158-163, 252-277).  *)
PublishingWorks == PublishedArrives /\ ConnectReturns

=============================================================================
