------------------------- MODULE RedisWebSocketHub -------------------------
(***************************************************************************)
(* src/src/zeython/websockets.py, class RedisWebSocketHub: one hub per     *)
(* process, joined by a Redis channel.  The delivery within a process,     *)
(* super().broadcast(), is one step here; module WebSocketHub has its      *)
(* steps.                                                                  *)
(*                                                                         *)
(* Redis and redis-py are external: subscribe() returns once the command   *)
(* is written (its confirmation arrives through listen(), which skips it,  *)
(* line 263), and Redis keeps what it publishes in one FIFO buffer per     *)
(* subscriber.                                                             *)
(***************************************************************************)
EXTENDS Naturals, Sequences, FiniteSets, SequencesExt

CONSTANTS Processes,
          Clients, Home,    \* the process each client is connected to
          Messages, Sender, \* the client that has each message broadcast
          MaxFaults,        \* bound on errors of Redis
          MaxStops          \* bound on calls of stop()

ASSUME HomeAssumption == Home \in [Clients -> Processes]
ASSUME MessagesAssumption == Messages \subseteq Nat /\ Sender \in [Messages -> Clients]
ASSUME BoundsAssumption == MaxFaults \in Nat /\ MaxStops \in Nat

VARIABLES listener,    \* self._listener_task; "none" stands for None
          cancelled,   \* stop() has cancelled it
          event,       \* how many Events self._subscribed has been
          isSet,       \* the Events that are set
          command,     \* a SUBSCRIBE is on its way to Redis
          subscribed,  \* Redis knows the subscriber
          buffer,      \* what it has published to the subscriber
          handler,     \* where the task of each client is
          waitsOn,     \* the Event that its connect() waits for
          publishing,  \* messages delivered here and not yet published
          got,         \* what each client received
          owed,        \* the clients a message was to reach when published
          faults, stops

listenerVars == <<listener, cancelled, event, isSet>>
redisVars == <<command, subscribed, buffer>>
clientVars == <<handler, waitsOn>>
vars == <<listenerVars, redisVars, clientVars, publishing, got, owed, faults,
          stops>>

Events == 1 .. (MaxStops + 1)
Live == {"scheduled", "subscribing", "listening"}
Ends == {"ended", "broken"}  \* "broken": unsubscribe() raised in the finally

TypeOK ==
  /\ listener \in [Processes -> Live \cup Ends \cup {"none"}]
  /\ cancelled \in SUBSET Processes
  /\ event \in [Processes -> {0} \cup Events]
  /\ isSet \in [Processes -> SUBSET Events]
  /\ command \in SUBSET Processes
  /\ subscribed \in SUBSET Processes
  /\ buffer \in [Processes -> Seq(Messages)]
  /\ \A p \in Processes :
       /\ buffer[p] # <<>> => p \in subscribed
       /\ p \in command \cup subscribed => listener[p] = "listening"
  /\ handler \in [Clients -> {"new", "waiting", "open", "over"}]
  /\ waitsOn \in [Clients -> {0} \cup Events]
  /\ publishing \in SUBSET Messages
  /\ got \in [Clients -> Seq(Messages)]
  /\ owed \in [Messages -> SUBSET Clients]
  /\ faults \in 0 .. MaxFaults
  /\ stops \in 0 .. MaxStops

Init ==
  /\ listener = [p \in Processes |-> "none"]
  /\ cancelled = {}
  /\ event = [p \in Processes |-> 0]
  /\ isSet = [p \in Processes |-> {}]
  /\ command = {} /\ subscribed = {}
  /\ buffer = [p \in Processes |-> <<>>]
  /\ handler = [c \in Clients |-> "new"]
  /\ waitsOn = [c \in Clients |-> 0]
  /\ publishing = {}
  /\ got = [c \in Clients |-> <<>>]
  /\ owed = [m \in Messages |-> {}]
  /\ faults = 0 /\ stops = 0

Fault == faults < MaxFaults /\ faults' = faults + 1

(***************************************************************************)
(* connect()                                                               *)
(***************************************************************************)

(* The first call creates a fresh Event and the listener's task.           *)
Connect(c) ==
  LET p == Home[c] IN
    /\ handler[c] = "new"
    /\ handler' = [handler EXCEPT ![c] = "waiting"]
    /\ IF listener[p] = "none"
         THEN /\ listener' = [listener EXCEPT ![p] = "scheduled"]
              /\ cancelled' = cancelled \ {p}
              /\ event' = [event EXCEPT ![p] = @ + 1]
         ELSE UNCHANGED <<listener, cancelled, event>>
    /\ waitsOn' = [waitsOn EXCEPT ![c] = event'[p]]
    /\ UNCHANGED <<isSet, redisVars, publishing, got, owed, faults, stops>>

(* `await self._subscribed.wait()` ends, then super().connect().           *)
Connected(c) ==
  /\ handler[c] = "waiting" /\ waitsOn[c] \in isSet[Home[c]]
  /\ handler' = [handler EXCEPT ![c] = "open"]
  /\ UNCHANGED <<listenerVars, redisVars, waitsOn, publishing, got, owed, faults,
                 stops>>

Disconnect(c) ==
  /\ handler[c] = "open"
  /\ \A m \in publishing : Sender[m] # c
  /\ handler' = [handler EXCEPT ![c] = "over"]
  /\ UNCHANGED <<listenerVars, redisVars, waitsOn, publishing, got, owed, faults,
                 stops>>

(***************************************************************************)
(* _listen()                                                               *)
(***************************************************************************)

SetEvent(p) == isSet' = [isSet EXCEPT ![p] = @ \cup {event[p]}]

(* Mutant: the pub/sub connection is not closed.                           *)
UnsubscribeNever(p) == UNCHANGED redisVars

(* `await pubsub.aclose()` in the finally block.                           *)
Unsubscribe(p) ==
  /\ command' = command \ {p}
  /\ subscribed' = subscribed \ {p}
  /\ buffer' = [buffer EXCEPT ![p] = <<>>]

(* The task is run for the first time.                                     *)
Begin(p) ==
  /\ listener[p] = "scheduled" /\ p \notin cancelled
  /\ listener' = [listener EXCEPT ![p] = "subscribing"]
  /\ UNCHANGED <<cancelled, event, isSet, redisVars, clientVars, publishing, got,
                 owed, faults, stops>>

(* `await pubsub.subscribe()` returns.                                     *)
Subscribe(p) ==
  /\ listener[p] = "subscribing" /\ p \notin cancelled
  /\ listener' = [listener EXCEPT ![p] = "listening"]
  /\ command' = command \cup {p}
  /\ SetEvent(p)
  /\ UNCHANGED <<cancelled, event, subscribed, buffer, clientVars, publishing, got,
                 owed, faults, stops>>

Deliver(m, to) ==
  got' = [c \in Clients |-> IF c \in to THEN Append(got[c], m) ELSE got[c]]

Connections(p) == {c \in Clients : handler[c] = "open" /\ Home[c] = p}

(* Mutant: the envelope's origin is not looked at.                         *)
RelayAll(p) ==
  /\ listener[p] = "listening" /\ p \notin cancelled
  /\ buffer[p] # <<>>
  /\ buffer' = [buffer EXCEPT ![p] = Tail(@)]
  /\ Deliver(Head(buffer[p]), Connections(p))
  /\ UNCHANGED <<listenerVars, command, subscribed, clientVars, publishing, owed,
                 faults, stops>>

(* Mutant: `==` for `!=` in the comparison with the envelope's origin.     *)
RelayOwn(p) ==
  /\ listener[p] = "listening" /\ p \notin cancelled
  /\ buffer[p] # <<>>
  /\ buffer' = [buffer EXCEPT ![p] = Tail(@)]
  /\ LET m == Head(buffer[p]) IN
       Deliver(m, IF Home[Sender[m]] = p THEN Connections(p) ELSE {})
  /\ UNCHANGED <<listenerVars, command, subscribed, clientVars, publishing, owed,
                 faults, stops>>

(* The next message of another instance goes to every connection here, one *)
(* of this instance is skipped.                                            *)
Relay(p) ==
  /\ listener[p] = "listening" /\ p \notin cancelled
  /\ buffer[p] # <<>>
  /\ buffer' = [buffer EXCEPT ![p] = Tail(@)]
  /\ LET m == Head(buffer[p]) IN
       Deliver(m, IF Home[Sender[m]] = p THEN {} ELSE Connections(p))
  /\ UNCHANGED <<listenerVars, command, subscribed, clientVars, publishing, owed,
                 faults, stops>>

(* Mutant: the Event is set only after a subscribe() that succeeded.       *)
ListenDiesUnset(p) ==
  /\ listener[p] \in {"subscribing", "listening"} /\ p \notin cancelled
  /\ Fault
  /\ \E end \in Ends : listener' = [listener EXCEPT ![p] = end]
  /\ Unsubscribe(p)
  /\ UNCHANGED <<cancelled, event, isSet, clientVars, publishing, got, owed, stops>>

(* Redis cannot be reached, or the connection drops: "the listener task    *)
(* logs the error and stops".                                              *)
ListenDies(p) ==
  /\ listener[p] \in {"subscribing", "listening"} /\ p \notin cancelled
  /\ Fault
  /\ \E end \in Ends : listener' = [listener EXCEPT ![p] = end]
  /\ SetEvent(p)
  /\ Unsubscribe(p)
  /\ UNCHANGED <<cancelled, event, clientVars, publishing, got, owed, stops>>

(***************************************************************************)
(* stop()                                                                  *)
(***************************************************************************)

Stop(p) ==
  /\ listener[p] # "none" /\ p \notin cancelled
  /\ stops < MaxStops
  /\ stops' = stops + 1
  /\ cancelled' = cancelled \cup {p}
  /\ UNCHANGED <<listener, event, isSet, redisVars, clientVars, publishing, got,
                 owed, faults>>

(* CancelledError is thrown into the task.  One that was never run has no  *)
(* `finally` to pass through.                                              *)
ListenCancelled(p) ==
  /\ p \in cancelled /\ listener[p] \in Live
  /\ IF listener[p] = "scheduled" THEN UNCHANGED isSet ELSE SetEvent(p)
  /\ \/ listener' = [listener EXCEPT ![p] = "ended"] /\ UNCHANGED faults
     \/ /\ listener[p] # "scheduled" /\ Fault
        /\ listener' = [listener EXCEPT ![p] = "broken"]
  /\ Unsubscribe(p)
  /\ UNCHANGED <<cancelled, event, clientVars, publishing, got, owed, stops>>

StopEnds(p) ==
  /\ p \in cancelled /\ listener[p] = "ended"
  /\ listener' = [listener EXCEPT ![p] = "none"]
  /\ UNCHANGED <<cancelled, event, isSet, redisVars, clientVars, publishing, got,
                 owed, faults, stops>>

(* The exception of a broken listener leaves stop(), and the task stays.   *)
StopRaises(p) ==
  /\ p \in cancelled /\ listener[p] = "broken"
  /\ cancelled' = cancelled \ {p}
  /\ UNCHANGED <<listener, event, isSet, redisVars, clientVars, publishing, got,
                 owed, faults, stops>>

(***************************************************************************)
(* broadcast(message, exclude=websocket)                                   *)
(***************************************************************************)

Said(c) == {m \in Messages : Sender[m] = c
                             /\ (m \in publishing \/ owed[m] # {})}

(* The handler of a client broadcasts one message after the other: first   *)
(* to the connections of its own process ...                               *)
Broadcast(m) ==
  LET c == Sender[m] IN
    /\ handler[c] = "open"
    /\ \A n \in publishing : Sender[n] # c
    /\ owed[m] = {} /\ \A n \in Said(c) : n < m
    /\ publishing' = publishing \cup {m}
    /\ Deliver(m, Connections(Home[c]) \ {c})
    /\ UNCHANGED <<listenerVars, redisVars, clientVars, owed, faults, stops>>

(* ... then through Redis to those of the others.  The sender is counted   *)
(* as reached, for it has the message.                                     *)
Publish(m) ==
  /\ m \in publishing
  /\ publishing' = publishing \ {m}
  /\ buffer' = [p \in Processes |-> IF p \in subscribed THEN Append(buffer[p], m)
                                                        ELSE buffer[p]]
  /\ owed' = [owed EXCEPT ![m] =
                {Sender[m]} \cup {c \in Clients : handler[c] = "open"
                                                  /\ Home[c] \in subscribed
                                                  /\ Home[c] # Home[Sender[m]]}]
  /\ UNCHANGED <<listenerVars, command, subscribed, clientVars, got, faults, stops>>

(* publish() raises into the handler, which ends.                          *)
PublishFails(m) ==
  /\ m \in publishing
  /\ Fault
  /\ publishing' = publishing \ {m}
  /\ owed' = [owed EXCEPT ![m] = {Sender[m]}]
  /\ handler' = [handler EXCEPT ![Sender[m]] = "over"]
  /\ UNCHANGED <<listenerVars, redisVars, waitsOn, got, stops>>

(***************************************************************************)
(* Redis                                                                   *)
(***************************************************************************)

RedisSubscribes(p) ==
  /\ p \in command
  /\ command' = command \ {p}
  /\ subscribed' = subscribed \cup {p}
  /\ UNCHANGED <<listenerVars, buffer, clientVars, publishing, got, owed, faults,
                 stops>>

Run(p) ==
  \/ Begin(p) \/ Subscribe(p) \/ Relay(p)
  \/ ListenCancelled(p) \/ StopEnds(p) \/ StopRaises(p)

Next ==
  \/ \E c \in Clients : Connect(c) \/ Connected(c) \/ Disconnect(c)
  \/ \E p \in Processes : Run(p) \/ ListenDies(p) \/ Stop(p) \/ RedisSubscribes(p)
  \/ \E m \in Messages : Broadcast(m) \/ Publish(m) \/ PublishFails(m)

Spec == Init /\ [][Next]_vars

(* The event loops run what is ready, and Redis answers.                   *)
Fairness ==
  /\ \A c \in Clients : WF_vars(Connected(c))
  /\ \A p \in Processes : WF_vars(Run(p)) /\ WF_vars(RedisSubscribes(p))

FairSpec == Spec /\ Fairness

(***************************************************************************)
(* Properties                                                              *)
(***************************************************************************)

Received(c) == ToSet(got[c])

(* A client receives a message at most once, never its own, and those of   *)
(* one sender in the order they were sent, whether they come from its own  *)
(* process or through Redis (websockets.py:158-165, 239-247, 262-271).     *)
OnceInOrder ==
  \A c \in Clients :
    /\ \A m \in Received(c) : Sender[m] # c
    /\ \A i, k \in DOMAIN got[c] :
         i < k /\ Sender[got[c][i]] = Sender[got[c][k]] => got[c][i] < got[c][k]

(* A message published while a process was subscribed reaches everyone who *)
(* was connected there, unless they leave or the subscription ends         *)
(* (websockets.py:158-163).                                                *)
PublishedArrives ==
  \A m \in Messages, c \in Clients :
    c \in owed[m] \ {Sender[m]} ~> \/ m \in Received(c)
                                  \/ handler[c] = "over"
                                  \/ listener[Home[c]] # "listening"

(* connect() returns, also when Redis cannot be reached or drops the       *)
(* connection, unless stop() is called: the Event is set in the finally of *)
(* _listen() (websockets.py:252-259, 277), which a task that is cancelled  *)
(* before its first step never enters.                                     *)
ConnectReturns ==
  [](stops = 0) =>
    \A c \in Clients : handler[c] = "waiting" ~> handler[c] = "open"

=============================================================================
