---------------------------- MODULE WebSocketHub ----------------------------
(***************************************************************************)
(* src/src/zeython/websockets.py, class WebSocketHub, with the handler     *)
(* that its docstring and docs/websockets.md prescribe around it: one task *)
(* per connection, which connects, broadcasts what it receives and         *)
(* disconnects in a finally block.  A step is what runs between two awaits *)
(* on the event loop.                                                      *)
(***************************************************************************)
EXTENDS Naturals, FiniteSets

CONSTANTS Conns,        \* WebSocket objects
          Ip,           \* the client address of each
          MaxPerIp,     \* max_connections_per_ip
          Casts,        \* calls of broadcast()
          BadCasts,     \* those whose message send_json() cannot serialize
          MaxCancels,   \* bound on handlers that are cancelled
          None

Ips == {Ip[c] : c \in Conns}

VARIABLES handler,      \* where the task of each connection is
          alive,        \* connections whose client is still there
          connections,  \* self._connections
          byIp,         \* self._connections_by_ip
          ipOf,         \* the keys of self._ip_of_connection
          cast,         \* the broadcast() a handler is in
          todo,         \* the part of its list(self._connections) to come
          stale,        \* its local variable
          audience,     \* who was connected when a broadcast() began
          sent,         \* whom it was sent to
          refused,      \* for whom the send raised
          ended,        \* broadcasts that returned
          overlapped,   \* addresses of which two were accepted at a time
          cancels

hubVars == <<connections, byIp, ipOf>>
castVars == <<cast, todo, stale>>
historyVars == <<audience, sent, refused, ended, overlapped>>
vars == <<handler, alive, hubVars, castVars, historyVars, cancels>>

TypeOK ==
  /\ handler \in [Conns -> {"new", "accepting", "open", "over"}]
  /\ alive \in SUBSET Conns
  /\ connections \in SUBSET Conns
  /\ byIp \in [Ips -> SUBSET Conns]
  /\ ipOf \in SUBSET Conns
  /\ cast \in [Conns -> Casts \cup {None}]
  /\ todo \in [Conns -> SUBSET Conns]
  /\ stale \in [Conns -> SUBSET Conns]
  /\ \A c \in Conns : /\ cast[c] # None => handler[c] = "open"
                      /\ cast[c] = None => todo[c] = {} /\ stale[c] = {}
  /\ audience \in [Casts -> SUBSET Conns]
  /\ sent \in [Casts -> SUBSET Conns]
  /\ refused \in [Casts -> SUBSET Conns]
  /\ ended \in SUBSET Casts /\ overlapped \in SUBSET Ips
  /\ cancels \in 0 .. MaxCancels

Init ==
  /\ handler = [c \in Conns |-> "new"]
  /\ alive = Conns
  /\ connections = {} /\ ipOf = {}
  /\ byIp = [ip \in Ips |-> {}]
  /\ cast = [c \in Conns |-> None]
  /\ todo = [c \in Conns |-> {}]
  /\ stale = [c \in Conns |-> {}]
  /\ audience = [m \in Casts |-> {}]
  /\ sent = [m \in Casts |-> {}]
  /\ refused = [m \in Casts |-> {}]
  /\ ended = {} /\ overlapped = {}
  /\ cancels = 0

(***************************************************************************)
(* connect()                                                               *)
(***************************************************************************)

(* The origin is not among allowed_origins: close code 4403.               *)
RefuseOrigin(c) ==
  /\ handler[c] = "new"
  /\ handler' = [handler EXCEPT ![c] = "over"]
  /\ UNCHANGED <<alive, hubVars, castVars, historyVars, cancels>>

AtCap(c) == Cardinality(byIp[Ip[c]]) >= MaxPerIp

(* The cap is checked before `await websocket.accept()`: close code 4429,  *)
(* or on to the handshake.                                                 *)
Handshake(c) ==
  /\ handler[c] = "new"
  /\ handler' = [handler EXCEPT ![c] = IF AtCap(c) THEN "over" ELSE "accepting"]
  /\ overlapped' = overlapped \cup
       {ip \in {Ip[c]} : ~AtCap(c) /\ \E d \in Conns : Ip[d] = ip /\ handler[d] = "accepting"}
  /\ UNCHANGED <<alive, hubVars, castVars, audience, sent, refused, ended, cancels>>

Accepted(c) ==
  /\ handler[c] = "accepting"
  /\ handler' = [handler EXCEPT ![c] = "open"]
  /\ connections' = connections \cup {c}
  /\ byIp' = [byIp EXCEPT ![Ip[c]] = @ \cup {c}]
  /\ ipOf' = ipOf \cup {c}
  /\ UNCHANGED <<alive, castVars, historyVars, cancels>>

(* accept() raises: the client has gone, and nothing was tracked yet.      *)
AcceptFails(c) ==
  /\ handler[c] = "accepting" /\ c \notin alive
  /\ handler' = [handler EXCEPT ![c] = "over"]
  /\ UNCHANGED <<alive, hubVars, castVars, historyVars, cancels>>

(***************************************************************************)
(* disconnect()                                                            *)
(***************************************************************************)

(* Mutant: nothing to do for a connection that broadcast() dropped.        *)
DisconnectIfConnected(c) ==
  IF c \in connections
    THEN /\ connections' = connections \ {c}
         /\ ipOf' = ipOf \ {c}
         /\ byIp' = [byIp EXCEPT ![Ip[c]] = @ \ {c}]
    ELSE UNCHANGED hubVars

Disconnect(c) ==
  /\ connections' = connections \ {c}
  /\ ipOf' = ipOf \ {c}
  /\ byIp' = IF c \in ipOf THEN [byIp EXCEPT ![Ip[c]] = @ \ {c}] ELSE byIp

Over(c) ==
  /\ handler' = [handler EXCEPT ![c] = "over"]
  /\ Disconnect(c)
  /\ cast' = [cast EXCEPT ![c] = None]
  /\ todo' = [todo EXCEPT ![c] = {}]
  /\ stale' = [stale EXCEPT ![c] = {}]

(* receive_text() raises WebSocketDisconnect.                              *)
ReceiveEnds(c) ==
  /\ handler[c] = "open" /\ cast[c] = None /\ c \notin alive
  /\ Over(c)
  /\ UNCHANGED <<alive, historyVars, cancels>>

(* The server cancels the handler, in a broadcast() or not.                *)
Cancel(c) ==
  /\ handler[c] = "open" /\ cancels < MaxCancels
  /\ cancels' = cancels + 1
  /\ Over(c)
  /\ alive' = alive \ {c}
  /\ UNCHANGED historyVars

(* The client closes, or its network is lost.                              *)
Vanish(c) ==
  /\ c \in alive
  /\ alive' = alive \ {c}
  /\ UNCHANGED <<handler, hubVars, castVars, historyVars, cancels>>

(***************************************************************************)
(* broadcast(message, exclude=websocket)                                   *)
(***************************************************************************)

Broadcast(c, m) ==
  /\ handler[c] = "open" /\ cast[c] = None /\ c \in alive
  /\ \A d \in Conns : cast[d] # m
  /\ audience[m] = {} /\ m \notin ended
  /\ cast' = [cast EXCEPT ![c] = m]
  /\ todo' = [todo EXCEPT ![c] = connections \ {c}]
  /\ audience' = [audience EXCEPT ![m] = connections \ {c}]
  /\ UNCHANGED <<handler, alive, hubVars, stale, sent, refused, ended, cancels,
                 overlapped>>

SendSucceeds(c, d) ==
  /\ d \in todo[c] /\ cast[c] \notin BadCasts
  /\ todo' = [todo EXCEPT ![c] = @ \ {d}]
  /\ sent' = [sent EXCEPT ![cast[c]] = @ \cup {d}]
  /\ UNCHANGED <<handler, alive, hubVars, cast, stale, audience, refused, ended,
                 overlapped, cancels>>

(* Mutant: the first send that raises ends the loop.                       *)
SendRaisesOut(c, d) ==
  /\ d \in todo[c]
  /\ d \notin alive \/ cast[c] \in BadCasts
  /\ todo' = [todo EXCEPT ![c] = {}]
  /\ stale' = [stale EXCEPT ![c] = @ \cup {d}]
  /\ refused' = [refused EXCEPT ![cast[c]] = @ \cup {d}]
  /\ UNCHANGED <<handler, alive, hubVars, cast, audience, sent, ended, overlapped,
                 cancels>>

(* The client is gone, or the message is not serializable.                 *)
SendRaises(c, d) ==
  /\ d \in todo[c]
  /\ d \notin alive \/ cast[c] \in BadCasts
  /\ todo' = [todo EXCEPT ![c] = @ \ {d}]
  /\ stale' = [stale EXCEPT ![c] = @ \cup {d}]
  /\ refused' = [refused EXCEPT ![cast[c]] = @ \cup {d}]
  /\ UNCHANGED <<handler, alive, hubVars, cast, audience, sent, ended, overlapped,
                 cancels>>

(* Mutant: every connection of the loop is dropped if one of them failed.  *)
BroadcastDropsAll(c) ==
  /\ cast[c] # None /\ todo[c] = {}
  /\ connections' = IF stale[c] = {} THEN connections
                                    ELSE connections \ audience[cast[c]]
  /\ ended' = ended \cup {cast[c]}
  /\ cast' = [cast EXCEPT ![c] = None]
  /\ stale' = [stale EXCEPT ![c] = {}]
  /\ UNCHANGED <<handler, alive, byIp, ipOf, todo, audience, sent, refused,
                 overlapped, cancels>>

BroadcastEnds(c) ==
  /\ cast[c] # None /\ todo[c] = {}
  /\ connections' = connections \ stale[c]
  /\ ended' = ended \cup {cast[c]}
  /\ cast' = [cast EXCEPT ![c] = None]
  /\ stale' = [stale EXCEPT ![c] = {}]
  /\ UNCHANGED <<handler, alive, byIp, ipOf, todo, audience, sent, refused,
                 overlapped, cancels>>

Next == \E c \in Conns :
          \/ RefuseOrigin(c) \/ Handshake(c) \/ Accepted(c) \/ AcceptFails(c)
          \/ ReceiveEnds(c) \/ Cancel(c) \/ Vanish(c) \/ BroadcastEnds(c)
          \/ \E m \in Casts : Broadcast(c, m)
          \/ \E d \in Conns : SendSucceeds(c, d) \/ SendRaises(c, d)

Spec == Init /\ [][Next]_vars

(***************************************************************************)
(* Properties                                                              *)
(***************************************************************************)

(* A slot of the per-client cap is held from accept() to disconnect(),     *)
(* also for a connection that broadcast() has dropped: a slot that leaks   *)
(* locks the client out, one freed early lifts the cap                     *)
(* (websockets.py:116-124, 149-150).                                       *)
SlotsExact ==
  \A c \in Conns : /\ c \in byIp[Ip[c]] <=> handler[c] = "open"
                   /\ c \in ipOf <=> handler[c] = "open"

(* The cap holds but for handshakes of one address that overlap, each of   *)
(* which was let on before the other was counted (websockets.py:105-114).  *)
CapHolds ==
  \A ip \in Ips \ overlapped :
    Cardinality({c \in Conns : Ip[c] = ip /\ handler[c] = "open"}) <= MaxPerIp

(* A broadcast() that returns was tried on every connection that was there *)
(* when it began, whoever comes, goes or fails meanwhile                   *)
(* (websockets.py:131-134).                                                *)
ReachesEveryone == \A m \in ended : audience[m] \subseteq sent[m] \cup refused[m]

(* A connection is dropped only when its client is gone, or with the one   *)
(* message it was sent that is not serializable: the others go on          *)
(* receiving (websockets.py:145-150).                                      *)
OnlyGoneDropped ==
  \A c \in Conns :
    handler[c] = "open" /\ c \in alive =>
      c \in connections \/ \E m \in BadCasts : c \in refused[m]

=============================================================================
