---------------------- MODULE RedisWebSocketHub_proofs ----------------------
(***************************************************************************)
(* Proofs about RedisWebSocketHub, for any processes, clients and messages *)
(* and any number of faults and stops.                                     *)
(***************************************************************************)
EXTENDS MCWebSocketHubs, TLAPS

(***************************************************************************)
(* The inductive invariant                                                 *)
(***************************************************************************)

InTransit(p) == ToSet(buffer[p])
SameProcess(m, c) == Home[Sender[m]] = Home[c]

TypesKept ==
  /\ buffer \in [Processes -> Seq(Messages)]
  /\ got \in [Clients -> Seq(Messages)]
  /\ publishing \in SUBSET Messages
  /\ owed \in [Messages -> SUBSET Clients]

(* A handler has one message in hand, its latest, not yet through Redis.   *)
OneInHand ==
  \A m \in publishing :
    /\ owed[m] = {}
    /\ \A n \in Messages :
         Sender[n] = Sender[m] /\ n # m =>
           n \notin publishing /\ (owed[n] # {} => n < m)

(* Everything received has been sent; from another process, through Redis. *)
WasSent ==
  \A c \in Clients : \A m \in Received(c) :
    /\ Sender[m] # c
    /\ owed[m] # {} \/ (m \in publishing /\ SameProcess(m, c))

(* What Redis holds for a process has been published, each sender's        *)
(* messages in their order, ...                                            *)
PublishedInOrder ==
  \A p \in Processes :
    /\ \A m \in InTransit(p) : owed[m] # {}
    /\ \A i, k \in DOMAIN buffer[p] :
         i < k /\ Sender[buffer[p][i]] = Sender[buffer[p][k]]
           => buffer[p][i] < buffer[p][k]

(* ... and comes after what the process has got of that sender.            *)
TransitIsLater ==
  \A c \in Clients : \A m \in Received(c), n \in InTransit(Home[c]) :
    Sender[m] = Sender[n] /\ ~SameProcess(m, c) => m < n

IInv == /\ TypesKept /\ OneInHand /\ WasSent /\ PublishedInOrder
        /\ TransitIsLater /\ OnceInOrder

(***************************************************************************)
(* Sequences of messages                                                   *)
(***************************************************************************)

Ordered(s) ==
  \A i, k \in DOMAIN s : i < k /\ Sender[s[i]] = Sender[s[k]] => s[i] < s[k]

(* A later message of its sender may be appended.                          *)
LEMMA AppendLater ==
  ASSUME NEW s \in Seq(Messages), NEW m \in Messages
  PROVE  /\ Append(s, m) \in Seq(Messages)
         /\ ToSet(Append(s, m)) = ToSet(s) \cup {m}
         /\ Ordered(s) /\ (\A n \in ToSet(s) : Sender[n] = Sender[m] => n < m)
              => Ordered(Append(s, m))
<1>1. /\ Append(s, m) \in Seq(Messages)
      /\ DOMAIN s = 1 .. Len(s) /\ Len(s) \in Nat
      /\ DOMAIN Append(s, m) = 1 .. Len(s) + 1
      /\ \A i \in 1 .. Len(s) : Append(s, m)[i] = s[i]
      /\ Append(s, m)[Len(s) + 1] = m
  OBVIOUS
<1>2. ToSet(Append(s, m)) = ToSet(s) \cup {m}
  BY <1>1 DEF ToSet
<1>3. ASSUME Ordered(s), \A n \in ToSet(s) : Sender[n] = Sender[m] => n < m
      PROVE  Ordered(Append(s, m))
  <2>1. \A i \in 1 .. Len(s) : s[i] \in ToSet(s)
    BY <1>1 DEF ToSet
  <2>2. ASSUME NEW i \in 1 .. Len(s) + 1, NEW k \in 1 .. Len(s) + 1, i < k,
               Sender[Append(s, m)[i]] = Sender[Append(s, m)[k]]
        PROVE  Append(s, m)[i] < Append(s, m)[k]
    <3>1. i \in 1 .. Len(s) /\ (k \in 1 .. Len(s) \/ k = Len(s) + 1)
      BY <1>1, <2>2
    <3>2. CASE k \in 1 .. Len(s)
      BY <1>1, <1>3, <2>2, <3>1, <3>2 DEF Ordered
    <3>3. CASE k = Len(s) + 1
      BY <1>1, <1>3, <2>1, <2>2, <3>1, <3>3
    <3> QED BY <3>1, <3>2, <3>3
  <2> QED BY <1>1, <2>2 DEF Ordered
<1> QED BY <1>1, <1>2, <1>3

(* The first message is the earliest of its sender.                        *)
LEMMA TakeEarliest ==
  ASSUME NEW s \in Seq(Messages), s # <<>>, Ordered(s)
  PROVE  /\ Head(s) \in Messages /\ Head(s) \in ToSet(s)
         /\ Tail(s) \in Seq(Messages) /\ ToSet(Tail(s)) \subseteq ToSet(s)
         /\ Ordered(Tail(s))
         /\ \A n \in ToSet(Tail(s)) : Sender[Head(s)] = Sender[n] => Head(s) < n
<1>1. /\ Head(s) \in Messages /\ Tail(s) \in Seq(Messages)
      /\ DOMAIN s = 1 .. Len(s) /\ Len(s) \in Nat \ {0}
      /\ DOMAIN Tail(s) = 1 .. Len(s) - 1
      /\ \A i \in 1 .. Len(s) - 1 : Tail(s)[i] = s[i + 1]
      /\ Head(s) = s[1]
  OBVIOUS
<1>2. \A i \in 1 .. Len(s) - 1 : i + 1 \in 1 .. Len(s) /\ 1 < i + 1
  BY <1>1
<1>3. Head(s) \in ToSet(s) /\ ToSet(Tail(s)) \subseteq ToSet(s)
  BY <1>1, <1>2 DEF ToSet
<1>4. ASSUME NEW i \in 1 .. Len(s) - 1, NEW k \in 1 .. Len(s) - 1, i < k,
             Sender[Tail(s)[i]] = Sender[Tail(s)[k]]
      PROVE  Tail(s)[i] < Tail(s)[k]
  <2>1. i + 1 < k + 1
    BY <1>4
  <2> QED BY <1>1, <1>2, <1>4, <2>1 DEF Ordered
<1>5. Ordered(Tail(s))
  BY <1>1, <1>4 DEF Ordered
<1>6. ASSUME NEW n \in ToSet(Tail(s)), Sender[Head(s)] = Sender[n]
      PROVE  Head(s) < n
  <2>1. PICK i \in 1 .. Len(s) - 1 : n = Tail(s)[i]
    BY <1>1 DEF ToSet
  <2>2. 1 \in DOMAIN s /\ i + 1 \in DOMAIN s /\ 1 < i + 1 /\ n = s[i + 1]
    BY <1>1, <1>2, <2>1
  <2> QED BY <1>1, <1>6, <2>2 DEF Ordered
<1> QED BY <1>1, <1>3, <1>5, <1>6

(***************************************************************************)
(* The steps that change a message's place                                 *)
(***************************************************************************)

(* Delivering m: who is in `to` has it last, the others have what they had.*)
LEMMA DeliverAppends ==
  ASSUME TypesKept, NEW m \in Messages, NEW to \in SUBSET Clients, Deliver(m, to)
  PROVE  /\ got' \in [Clients -> Seq(Messages)]
         /\ \A c \in Clients \ to : got'[c] = got[c]
         /\ \A c \in to : got'[c] = Append(got[c], m)
         /\ \A c \in to : Received(c)' = Received(c) \cup {m}
         /\ \A c \in Clients \ to : Received(c)' = Received(c)
<1>1. \A c \in Clients : got[c] \in Seq(Messages)
  BY DEF TypesKept
<1>2. /\ \A c \in Clients \ to : got'[c] = got[c]
      /\ \A c \in to : got'[c] = Append(got[c], m)
  BY DEF Deliver
<1>3. \A c \in to : /\ Append(got[c], m) \in Seq(Messages)
                    /\ ToSet(Append(got[c], m)) = ToSet(got[c]) \cup {m}
  BY <1>1, AppendLater
<1>4. got' = [c \in Clients |-> got'[c]]
  BY DEF Deliver
<1>5. \A c \in Clients : got'[c] \in Seq(Messages)
  BY <1>1, <1>2, <1>3
<1>6. got' \in [Clients -> Seq(Messages)]
  BY <1>4, <1>5
<1>7. /\ \A c \in to : Received(c)' = Received(c) \cup {m}
      /\ \A c \in Clients \ to : Received(c)' = Received(c)
  BY <1>2, <1>3 DEF Received
<1> QED BY <1>2, <1>6, <1>7

(* A handler's next message is later than all it has sent.                 *)
LEMMA BroadcastInductive ==
  ASSUME IInv, NEW m \in Messages, Broadcast(m)
  PROVE  IInv'
<1> DEFINE c0 == Sender[m]
           to == Connections(Home[c0]) \ {c0}
<1>1. /\ publishing' = publishing \cup {m} /\ owed' = owed /\ buffer' = buffer
      /\ owed[m] = {} /\ Deliver(m, to) /\ to \in SUBSET Clients
      /\ \A n \in publishing : Sender[n] # c0
      /\ \A n \in Messages : Sender[n] = c0 /\ owed[n] # {} => n < m
  BY DEF Broadcast, Connections, Said, redisVars
<1>2. \A c \in to : Home[c] = Home[c0] /\ c # c0
  BY DEF Connections
<1> HIDE DEF to
<1>3. /\ got' \in [Clients -> Seq(Messages)]
      /\ \A c \in Clients \ to : got'[c] = got[c]
      /\ \A c \in to : got'[c] = Append(got[c], m)
      /\ \A c \in to : Received(c)' = Received(c) \cup {m}
      /\ \A c \in Clients \ to : Received(c)' = Received(c)
  BY <1>1, DeliverAppends DEF IInv
<1>4. \A c \in Clients : Received(c) \in SUBSET Messages
  BY DEF IInv, TypesKept, Received, ToSet
<1>5. TypesKept'
  BY <1>1, <1>3 DEF IInv, TypesKept
<1>6. OneInHand'
  BY <1>1 DEF IInv, OneInHand
<1>7. WasSent'
  BY <1>1, <1>2, <1>3 DEF IInv, WasSent, SameProcess
<1>8. PublishedInOrder'
  BY <1>1 DEF IInv, PublishedInOrder, InTransit
<1>9. TransitIsLater'
  BY <1>1, <1>2, <1>3 DEF IInv, TransitIsLater, InTransit, SameProcess
<1>10. \A c \in to : \A n \in Received(c) : Sender[n] = c0 => n < m
  BY <1>1, <1>4 DEF IInv, WasSent
<1>11. OnceInOrder'
  <2>1. ASSUME NEW c \in Clients
        PROVE  /\ \A n \in Received(c)' : Sender[n] # c
               /\ Ordered(got'[c])
    <3>1. /\ \A n \in Received(c) : Sender[n] # c
          /\ Ordered(got[c]) /\ got[c] \in Seq(Messages)
      BY DEF IInv, OnceInOrder, Ordered, TypesKept
    <3>2. CASE c \in to
      <4>1. \A n \in ToSet(got[c]) : Sender[n] = Sender[m] => n < m
        BY <1>10, <3>2 DEF Received
      <4>2. Ordered(Append(got[c], m))
        BY <3>1, <4>1, AppendLater
      <4> QED BY <1>2, <1>3, <3>1, <3>2, <4>2
    <3>3. CASE c \notin to
      BY <1>3, <3>1, <3>3
    <3> QED BY <3>2, <3>3
  <2> QED BY <2>1 DEF OnceInOrder, Ordered
<1> QED BY <1>5, <1>6, <1>7, <1>8, <1>9, <1>11 DEF IInv

(* What is published is later than all of its sender that Redis holds, or  *)
(* that has come through Redis.                                            *)
LEMMA PublishInductive ==
  ASSUME IInv, NEW m \in Messages, Publish(m)
  PROVE  IInv'
<1>1. /\ m \in publishing /\ publishing' = publishing \ {m} /\ got' = got
      /\ \A p \in Processes :
           buffer'[p] = buffer[p] \/ buffer'[p] = Append(buffer[p], m)
      /\ buffer' = [p \in Processes |-> buffer'[p]]
      /\ owed' \in [Messages -> SUBSET Clients]
      /\ \A n \in Messages : IF n = m THEN owed'[n] # {} ELSE owed'[n] = owed[n]
  BY MessagesAssumption DEF Publish, IInv, TypesKept
<1>2. \A p \in Processes : buffer[p] \in Seq(Messages) /\ Ordered(buffer[p])
  BY DEF IInv, TypesKept, PublishedInOrder, Ordered
<1>3. \A n \in Messages : Sender[n] = Sender[m] /\ owed[n] # {} => n < m
  BY <1>1 DEF IInv, OneInHand
<1>4. \A p \in Processes : InTransit(p) \in SUBSET Messages
  BY <1>2 DEF InTransit, ToSet
<1>5. \A c \in Clients : Received(c) \in SUBSET Messages /\ Received(c)' = Received(c)
  BY <1>1 DEF IInv, TypesKept, Received, ToSet
<1>6. ASSUME NEW p \in Processes
      PROVE  /\ buffer'[p] \in Seq(Messages) /\ Ordered(buffer'[p])
             /\ InTransit(p)' \subseteq InTransit(p) \cup {m}
  <2>1. \A n \in ToSet(buffer[p]) : Sender[n] = Sender[m] => n < m
    BY <1>3, <1>4 DEF IInv, PublishedInOrder, InTransit
  <2>2. CASE buffer'[p] = buffer[p]
    BY <1>2, <2>2 DEF InTransit
  <2>3. CASE buffer'[p] = Append(buffer[p], m)
    BY <1>2, <2>1, <2>3, AppendLater DEF InTransit
  <2> QED BY <1>1, <2>2, <2>3
<1>7. TypesKept'
  BY <1>1, <1>6 DEF IInv, TypesKept
<1>8. OneInHand'
  BY <1>1 DEF IInv, OneInHand, TypesKept
<1>9. WasSent'
  BY <1>1, <1>5 DEF IInv, WasSent, SameProcess
<1>10. PublishedInOrder'
  BY <1>1, <1>4, <1>6 DEF IInv, PublishedInOrder, Ordered
<1>11. TransitIsLater'
  <2> SUFFICES ASSUME NEW c \in Clients, NEW n \in Received(c),
                      NEW k \in InTransit(Home[c])',
                      Sender[n] = Sender[k], ~SameProcess(n, c)
               PROVE  n < k
    BY <1>5 DEF TransitIsLater, SameProcess
  <2>1. k \in InTransit(Home[c]) \/ k = m
    BY <1>6, HomeAssumption
  <2>2. CASE k = m
    BY <1>3, <1>5, <2>2 DEF IInv, WasSent
  <2> QED BY <2>1, <2>2 DEF IInv, TransitIsLater
<1>12. OnceInOrder'
  BY <1>1, <1>5 DEF IInv, OnceInOrder
<1> QED BY <1>7, <1>8, <1>9, <1>10, <1>11, <1>12 DEF IInv

(* The earliest message that Redis holds of a sender reaches clients that  *)
(* have only got earlier ones of it.                                       *)
LEMMA RelayInductive ==
  ASSUME IInv, NEW p \in Processes, Relay(p)
  PROVE  IInv'
<1> DEFINE m == Head(buffer[p])
           to == IF Home[Sender[m]] = p THEN {} ELSE Connections(p)
<1>1. /\ buffer[p] # <<>> /\ buffer' = [buffer EXCEPT ![p] = Tail(buffer[p])]
      /\ Deliver(m, to) /\ to \in SUBSET Clients
      /\ publishing' = publishing /\ owed' = owed
  BY DEF Relay, Connections
<1>2. \A q \in Processes : buffer[q] \in Seq(Messages) /\ Ordered(buffer[q])
  BY DEF IInv, TypesKept, PublishedInOrder, Ordered
<1>3. /\ m \in Messages /\ m \in InTransit(p)
      /\ Tail(buffer[p]) \in Seq(Messages) /\ Ordered(Tail(buffer[p]))
      /\ ToSet(Tail(buffer[p])) \subseteq InTransit(p)
      /\ \A n \in ToSet(Tail(buffer[p])) : Sender[m] = Sender[n] => m < n
  BY <1>1, <1>2, TakeEarliest DEF InTransit
<1>4. \A c \in to : Home[c] = p /\ Home[Sender[m]] # p /\ Sender[m] # c
  BY DEF Connections
<1> HIDE DEF m, to
<1>5. /\ got' \in [Clients -> Seq(Messages)]
      /\ \A c \in Clients \ to : got'[c] = got[c]
      /\ \A c \in to : got'[c] = Append(got[c], m)
      /\ \A c \in to : Received(c)' = Received(c) \cup {m}
      /\ \A c \in Clients \ to : Received(c)' = Received(c)
  BY <1>1, <1>3, DeliverAppends DEF IInv
<1>6. \A q \in Processes : buffer'[q] = IF q = p THEN Tail(buffer[p]) ELSE buffer[q]
  BY <1>1 DEF IInv, TypesKept
<1>7. \A q \in Processes : InTransit(q)' \subseteq InTransit(q)
  BY <1>3, <1>6 DEF InTransit
<1>8. TypesKept'
  BY <1>1, <1>3, <1>5 DEF IInv, TypesKept
<1>9. OneInHand'
  BY <1>1 DEF IInv, OneInHand
<1>10. owed[m] # {}
  BY <1>3 DEF IInv, PublishedInOrder
<1>11. WasSent'
  BY <1>1, <1>4, <1>5, <1>10 DEF IInv, WasSent, SameProcess
<1>12. PublishedInOrder'
  <2>1. \A q \in Processes : Ordered(buffer'[q])
    BY <1>2, <1>3, <1>6
  <2> QED BY <1>1, <1>7, <2>1 DEF IInv, PublishedInOrder, Ordered
<1>13. TransitIsLater'
  <2> SUFFICES ASSUME NEW c \in Clients, NEW n \in Received(c)',
                      NEW k \in InTransit(Home[c])',
                      Sender[n] = Sender[k], ~SameProcess(n, c)
               PROVE  n < k
    BY DEF TransitIsLater, SameProcess
  <2>1. k \in InTransit(Home[c])
    BY <1>7, HomeAssumption
  <2>2. CASE n \in Received(c)
    BY <2>1, <2>2 DEF IInv, TransitIsLater
  <2>3. CASE n \notin Received(c)
    <3>1. c \in to /\ n = m
      BY <1>5, <2>3
    <3>2. k \in ToSet(Tail(buffer[p]))
      BY <1>4, <1>6, <3>1 DEF InTransit
    <3> QED BY <1>3, <3>1, <3>2
  <2> QED BY <2>2, <2>3
<1>14. \A c \in to : \A n \in Received(c) : Sender[n] = Sender[m] => n < m
  BY <1>1, <1>3, <1>4 DEF IInv, TransitIsLater, SameProcess
<1>15. OnceInOrder'
  <2>1. ASSUME NEW c \in Clients
        PROVE  /\ \A n \in Received(c)' : Sender[n] # c
               /\ Ordered(got'[c])
    <3>1. /\ \A n \in Received(c) : Sender[n] # c
          /\ Ordered(got[c]) /\ got[c] \in Seq(Messages)
      BY DEF IInv, OnceInOrder, Ordered, TypesKept
    <3>2. CASE c \in to
      <4>1. \A n \in ToSet(got[c]) : Sender[n] = Sender[m] => n < m
        BY <1>14, <3>2 DEF Received
      <4>2. Ordered(Append(got[c], m))
        BY <1>3, <3>1, <4>1, AppendLater
      <4> QED BY <1>4, <1>5, <3>1, <3>2, <4>2
    <3>3. CASE c \notin to
      BY <1>5, <3>1, <3>3
    <3> QED BY <3>2, <3>3
  <2> QED BY <2>1 DEF OnceInOrder, Ordered
<1> QED BY <1>8, <1>9, <1>11, <1>12, <1>13, <1>15 DEF IInv

(* A publish() that raised counts as sent.                                 *)
LEMMA PublishFailsInductive ==
  ASSUME IInv, NEW m \in Messages, PublishFails(m)
  PROVE  IInv'
<1>1. /\ publishing' = publishing \ {m} /\ got' = got /\ buffer' = buffer
      /\ m \in publishing
      /\ owed' \in [Messages -> SUBSET Clients]
      /\ \A n \in Messages : IF n = m THEN owed'[n] # {} ELSE owed'[n] = owed[n]
  BY MessagesAssumption DEF PublishFails, redisVars, IInv, TypesKept
<1>2. /\ \A c \in Clients : Received(c) \in SUBSET Messages
                           /\ Received(c)' = Received(c)
      /\ \A p \in Processes : InTransit(p) \in SUBSET Messages
                             /\ InTransit(p)' = InTransit(p)
  BY <1>1 DEF IInv, TypesKept, Received, InTransit, ToSet
<1>3. TypesKept'
  BY <1>1 DEF IInv, TypesKept
<1>4. OneInHand'
  BY <1>1 DEF IInv, OneInHand, TypesKept
<1>5. WasSent'
  BY <1>1, <1>2 DEF IInv, WasSent, SameProcess
<1>6. PublishedInOrder'
  BY <1>1, <1>2 DEF IInv, PublishedInOrder
<1>7. TransitIsLater'
  BY <1>2, HomeAssumption DEF IInv, TransitIsLater, SameProcess
<1>8. OnceInOrder'
  BY <1>1, <1>2 DEF IInv, OnceInOrder
<1> QED BY <1>3, <1>4, <1>5, <1>6, <1>7, <1>8 DEF IInv

(* A subscription that ends loses what Redis holds for it; every other     *)
(* step leaves the messages where they are.                                *)
LEMMA OthersInductive ==
  ASSUME IInv, UNCHANGED <<publishing, got, owed>>,
         \/ buffer' = buffer
         \/ \E p \in Processes : buffer' = [buffer EXCEPT ![p] = <<>>]
  PROVE  IInv'
<1>1. \A p \in Processes : buffer'[p] = buffer[p] \/ buffer'[p] = <<>>
  BY DEF IInv, TypesKept
<1>2. /\ <<>> \in Seq(Messages) /\ DOMAIN <<>> = {}
      /\ \A p \in Processes : InTransit(p)' \subseteq InTransit(p)
  BY <1>1 DEF InTransit, ToSet
<1>3. \A c \in Clients : Received(c)' = Received(c)
  BY DEF Received
<1>4. TypesKept'
  BY <1>1, <1>2 DEF IInv, TypesKept
<1>5. OneInHand' /\ WasSent' /\ OnceInOrder'
  BY <1>3 DEF IInv, OneInHand, WasSent, OnceInOrder, SameProcess
<1>6. PublishedInOrder'
  BY <1>1, <1>2 DEF IInv, PublishedInOrder
<1>7. TransitIsLater'
  BY <1>2, <1>3, HomeAssumption DEF IInv, TransitIsLater, SameProcess
<1> QED BY <1>4, <1>5, <1>6, <1>7 DEF IInv

(***************************************************************************)
(* The types                                                               *)
(***************************************************************************)

(* Each of a process's Events but the first was made after a stop().       *)
EventsByStops ==
  \A p \in Processes :
    /\ event[p] <= stops + (IF listener[p] # "none" /\ p \notin cancelled THEN 1 ELSE 0)
    /\ listener[p] # "none" => event[p] > 0

Typed == TypeOK /\ EventsByStops

LEMMA InitTyped ==
  ASSUME Init
  PROVE  Typed
BY BoundsAssumption DEF Init, Typed, TypeOK, EventsByStops

(* connect(), its end, and disconnect()                                    *)
LEMMA ClientTyped ==
  ASSUME Typed, NEW c \in Clients, Connect(c) \/ Connected(c) \/ Disconnect(c)
  PROVE  Typed'
<1> DEFINE p == Home[c]
<1>1. p \in Processes
  BY HomeAssumption
<1>2. CASE Connect(c)
  <2>1. /\ handler' = [handler EXCEPT ![c] = "waiting"]
        /\ waitsOn' = [waitsOn EXCEPT ![c] = event'[p]]
        /\ UNCHANGED <<isSet, command, subscribed, buffer, publishing, got, owed, faults,
                       stops>>
    BY <1>2 DEF Connect, redisVars
  <2>2. CASE listener[p] = "none"
    <3>1. /\ listener' = [listener EXCEPT ![p] = "scheduled"]
          /\ cancelled' = cancelled \ {p}
          /\ event' = [event EXCEPT ![p] = @ + 1]
      BY <1>2, <2>2 DEF Connect
    <3>2. event[p] \in 0 .. stops /\ stops \in 0 .. MaxStops
      BY <1>1, <2>2 DEF Typed, TypeOK, EventsByStops, Events
    <3>3. event[p] + 1 \in Events
      BY <3>2, BoundsAssumption DEF Events
    <3>4. event' \in [Processes -> {0} \cup Events] /\ event'[p] \in {0} \cup Events
      BY <1>1, <3>1, <3>3 DEF Typed, TypeOK
    <3>5. TypeOK'
      BY <1>1, <2>1, <2>2, <3>1, <3>4 DEF Typed, TypeOK, Live
    <3>6. EventsByStops'
      BY <1>1, <2>1, <2>2, <3>1, <3>2 DEF Typed, TypeOK, EventsByStops, Events
    <3> QED BY <3>5, <3>6 DEF Typed
  <2>3. CASE listener[p] # "none"
    <3>1. UNCHANGED <<listener, cancelled, event>>
      BY <1>2, <2>3 DEF Connect
    <3> QED BY <1>1, <2>1, <3>1 DEF Typed, TypeOK, EventsByStops
  <2> QED BY <2>2, <2>3
<1>3. CASE Connected(c) \/ Disconnect(c)
  <2>1. /\ handler' \in [Clients -> {"new", "waiting", "open", "over"}]
        /\ UNCHANGED <<listener, cancelled, event, isSet, command, subscribed, buffer,
                       waitsOn, publishing, got, owed, faults, stops>>
    BY <1>3 DEF Connected, Disconnect, listenerVars, redisVars, Typed, TypeOK
  <2> QED BY <2>1 DEF Typed, TypeOK, EventsByStops
<1> QED BY <1>2, <1>3

(* A listener that goes on, or ends: then nothing is subscribed.           *)
LEMMA ListenerTyped ==
  ASSUME Typed, NEW p \in Processes, NEW l \in Live \cup Ends,
         listener[p] # "none", listener' = [listener EXCEPT ![p] = l],
         isSet' \in {isSet, [isSet EXCEPT ![p] = @ \cup {event[p]}]},
         \/ listener[p] # "listening" /\ UNCHANGED <<command, subscribed, buffer>>
         \/ /\ l = "listening" /\ command' = command \cup {p}
            /\ UNCHANGED <<subscribed, buffer>>
         \/ Unsubscribe(p),
         faults' \in 0 .. MaxFaults,
         UNCHANGED <<cancelled, event, handler, waitsOn, publishing, got, owed, stops>>
  PROVE  Typed'
<1>1. event[p] \in Events
  BY DEF Typed, TypeOK, EventsByStops, Events
<1>2. listener' \in [Processes -> Live \cup Ends \cup {"none"}]
  BY DEF Typed, TypeOK
<1>3. isSet' \in [Processes -> SUBSET Events]
  <2>1. isSet \in [Processes -> SUBSET Events]
    BY DEF Typed, TypeOK
  <2>2. [isSet EXCEPT ![p] = @ \cup {event[p]}] \in [Processes -> SUBSET Events]
    BY <1>1, <2>1
  <2> QED BY <2>1, <2>2
<1>4. /\ command' \in SUBSET Processes /\ subscribed' \in SUBSET Processes
      /\ buffer' \in [Processes -> Seq(Messages)]
      /\ \A q \in Processes : /\ buffer'[q] # <<>> => q \in subscribed'
                              /\ q \in command' \cup subscribed' => listener'[q] = "listening"
  <2>1. /\ listener \in [Processes -> Live \cup Ends \cup {"none"}]
        /\ command \in SUBSET Processes /\ subscribed \in SUBSET Processes
        /\ buffer \in [Processes -> Seq(Messages)]
        /\ \A q \in Processes : /\ buffer[q] # <<>> => q \in subscribed
                                /\ q \in command \cup subscribed => listener[q] = "listening"
    BY DEF Typed, TypeOK
  <2>2. CASE listener[p] # "listening" /\ UNCHANGED <<command, subscribed, buffer>>
    BY <2>1, <2>2
  <2>3. CASE /\ l = "listening" /\ command' = command \cup {p}
             /\ UNCHANGED <<subscribed, buffer>>
    BY <2>1, <2>3
  <2>4. CASE Unsubscribe(p)
    <3>1. <<>> \in Seq(Messages)
      OBVIOUS
    <3> QED BY <2>1, <2>4, <3>1 DEF Unsubscribe
  <2> QED BY <2>2, <2>3, <2>4
<1>5. EventsByStops'
  <2>1. l # "none"
    BY DEF Live, Ends
  <2>2. \A q \in Processes : listener'[q] = "none" <=> listener[q] = "none"
    BY <2>1 DEF Typed, TypeOK
  <2> QED BY <2>2 DEF Typed, EventsByStops
<1>6. /\ cancelled' \in SUBSET Processes
      /\ event' \in [Processes -> {0} \cup Events]
      /\ handler' \in [Clients -> {"new", "waiting", "open", "over"}]
      /\ waitsOn' \in [Clients -> {0} \cup Events]
      /\ publishing' \in SUBSET Messages
      /\ got' \in [Clients -> Seq(Messages)]
      /\ owed' \in [Messages -> SUBSET Clients]
      /\ stops' \in 0 .. MaxStops
  BY DEF Typed, TypeOK
<1>7. faults' \in 0 .. MaxFaults
  OBVIOUS
<1>8. TypeOK'
  BY <1>2, <1>3, <1>4, <1>6, <1>7 DEF TypeOK, Live, Ends, Events
<1> QED BY <1>5, <1>8 DEF Typed

LEMMA ProcessTyped ==
  ASSUME Typed, NEW p \in Processes,
         Run(p) \/ ListenDies(p) \/ Stop(p) \/ RedisSubscribes(p)
  PROVE  Typed'
<1>1. CASE Begin(p)
  BY <1>1, ListenerTyped DEF Begin, redisVars, clientVars, Live, Typed, TypeOK
<1>2. CASE Subscribe(p)
  BY <1>2, ListenerTyped DEF Subscribe, SetEvent, clientVars, Live, Typed, TypeOK
<1>3. CASE Relay(p)
  <2>1. /\ buffer[p] # <<>> /\ buffer' = [buffer EXCEPT ![p] = Tail(@)]
        /\ UNCHANGED <<listener, cancelled, event, isSet, command, subscribed, handler,
                       waitsOn, publishing, owed, faults, stops>>
    BY <1>3 DEF Relay, listenerVars, clientVars
  <2>2. Head(buffer[p]) \in Messages /\ Tail(buffer[p]) \in Seq(Messages)
    BY <2>1 DEF Typed, TypeOK
  <2>3. got' \in [Clients -> Seq(Messages)]
    BY <1>3, <2>2 DEF Relay, Deliver, Typed, TypeOK
  <2> QED BY <2>1, <2>2, <2>3 DEF Typed, TypeOK, EventsByStops
<1>4. CASE ListenDies(p)
  <2>1. faults' \in 0 .. MaxFaults
    BY <1>4, BoundsAssumption DEF ListenDies, Fault, Typed, TypeOK
  <2> QED BY <1>4, <2>1, ListenerTyped DEF ListenDies, SetEvent, clientVars, Live, Ends
<1>5. CASE ListenCancelled(p)
  <2>1. faults' \in 0 .. MaxFaults
    BY <1>5, BoundsAssumption DEF ListenCancelled, Fault, Typed, TypeOK
  <2> QED BY <1>5, <2>1, ListenerTyped DEF ListenCancelled, SetEvent, clientVars, Live, Ends
<1>6. CASE StopEnds(p)
  BY <1>6 DEF StopEnds, redisVars, clientVars, Typed, TypeOK, EventsByStops, Ends, Live
<1>7. CASE StopRaises(p)
  <2>1. /\ cancelled' = cancelled \ {p}
        /\ UNCHANGED <<listener, event, isSet, command, subscribed, buffer, handler, waitsOn,
                       publishing, got, owed, faults, stops>>
    BY <1>7 DEF StopRaises, redisVars, clientVars
  <2>2. stops \in Nat /\ \A q \in Processes : event[q] \in Nat
    BY BoundsAssumption DEF Typed, TypeOK, Events
  <2>3. EventsByStops'
    BY <2>1, <2>2 DEF Typed, EventsByStops
  <2> QED BY <2>1, <2>3 DEF Typed, TypeOK, Live, Ends, Events
<1>8. CASE Stop(p)
  <2>1. stops' \in 0 .. MaxStops /\ stops' = stops + 1
    BY <1>8, BoundsAssumption DEF Stop, Typed, TypeOK
  <2>2. /\ cancelled' = cancelled \cup {p}
        /\ UNCHANGED <<listener, event, isSet, command, subscribed, buffer, handler, waitsOn,
                       publishing, got, owed, faults>>
    BY <1>8 DEF Stop, redisVars, clientVars
  <2>3. stops \in Nat /\ \A q \in Processes : event[q] \in Nat
    BY BoundsAssumption DEF Typed, TypeOK, Events
  <2>4. EventsByStops'
    BY <2>1, <2>2, <2>3 DEF Typed, EventsByStops
  <2> QED BY <2>1, <2>2, <2>4 DEF Typed, TypeOK, Live, Ends, Events
<1>9. CASE RedisSubscribes(p)
  BY <1>9 DEF RedisSubscribes, listenerVars, clientVars, Typed, TypeOK, EventsByStops
<1> QED BY <1>1, <1>2, <1>3, <1>4, <1>5, <1>6, <1>7, <1>8, <1>9 DEF Run

LEMMA MessageTyped ==
  ASSUME Typed, NEW m \in Messages, Broadcast(m) \/ Publish(m) \/ PublishFails(m)
  PROVE  Typed'
<1>1. Sender[m] \in Clients
  BY MessagesAssumption
<1>2. CASE Broadcast(m)
  <2>1. /\ publishing' = publishing \cup {m}
        /\ UNCHANGED <<listener, cancelled, event, isSet, command, subscribed, buffer,
                       handler, waitsOn, owed, faults, stops>>
    BY <1>2 DEF Broadcast, listenerVars, redisVars, clientVars
  <2>2. got' \in [Clients -> Seq(Messages)]
    BY <1>2 DEF Broadcast, Deliver, Typed, TypeOK
  <2> QED BY <2>1, <2>2 DEF Typed, TypeOK, EventsByStops
<1>3. CASE Publish(m)
  <2>1. /\ publishing' = publishing \ {m}
        /\ buffer' = [p \in Processes |-> IF p \in subscribed THEN Append(buffer[p], m)
                                                              ELSE buffer[p]]
        /\ UNCHANGED <<listener, cancelled, event, isSet, command, subscribed, handler,
                       waitsOn, got, faults, stops>>
    BY <1>3 DEF Publish, listenerVars, clientVars
  <2>2. owed' \in [Messages -> SUBSET Clients]
    BY <1>1, <1>3 DEF Publish, Typed, TypeOK
  <2>3. /\ buffer' \in [Processes -> Seq(Messages)]
        /\ \A p \in Processes : buffer'[p] # <<>> => p \in subscribed
    BY <2>1 DEF Typed, TypeOK
  <2> QED BY <2>1, <2>2, <2>3 DEF Typed, TypeOK, EventsByStops
<1>4. CASE PublishFails(m)
  <2>1. faults' \in 0 .. MaxFaults
    BY <1>4, BoundsAssumption DEF PublishFails, Fault, Typed, TypeOK
  <2> QED BY <1>1, <1>4, <2>1 DEF PublishFails, listenerVars, redisVars, Typed, TypeOK,
                                  EventsByStops
<1> QED BY <1>2, <1>3, <1>4

LEMMA NextTyped ==
  ASSUME Typed, [Next]_vars
  PROVE  Typed'
<1>1. CASE UNCHANGED vars
  BY <1>1 DEF vars, listenerVars, redisVars, clientVars, Typed, TypeOK, EventsByStops
<1> QED BY <1>1, ClientTyped, ProcessTyped, MessageTyped DEF Next

(***************************************************************************)
(* Theorems, about the properties that run WebSocketHubs checks            *)
(***************************************************************************)

(* OnceInOrder, a property of run WebSocketHubs: whatever processes are    *)
(* stopped, lose Redis or are subscribed anew, a client gets no message    *)
(* twice, none of its own, and those of one sender in order                *)
(* (websockets.py:239-271).                                                *)
THEOREM AlwaysOnceInOrder == Spec => []OnceInOrder
<1>1. Init => IInv
  <2> SUFFICES ASSUME Init PROVE IInv
    OBVIOUS
  <2>1. /\ \A p \in Processes : buffer[p] = <<>>
        /\ \A c \in Clients : got[c] = <<>>
        /\ publishing = {}
    BY DEF Init
  <2>2. TypesKept /\ OneInHand
    BY <2>1 DEF Init, TypesKept, OneInHand
  <2>3. /\ \A p \in Processes : DOMAIN buffer[p] = {} /\ InTransit(p) = {}
        /\ \A c \in Clients : DOMAIN got[c] = {} /\ Received(c) = {}
    BY <2>1 DEF InTransit, Received, ToSet
  <2> QED
    BY <2>2, <2>3 DEF IInv, WasSent, PublishedInOrder, TransitIsLater, OnceInOrder
<1>2. IInv /\ [Next]_vars => IInv'
  <2> SUFFICES ASSUME IInv, [Next]_vars PROVE IInv'
    OBVIOUS
  <2>1. ASSUME NEW c \in Clients, Connect(c) \/ Connected(c) \/ Disconnect(c)
        PROVE  IInv'
    BY <2>1, OthersInductive DEF Connect, Connected, Disconnect, redisVars
  <2>2. ASSUME NEW p \in Processes, Run(p) PROVE IInv'
    <3>1. CASE Relay(p)
      BY <3>1, RelayInductive
    <3>2. CASE Begin(p) \/ Subscribe(p) \/ StopEnds(p) \/ StopRaises(p)
      BY <3>2, OthersInductive DEF Begin, Subscribe, StopEnds, StopRaises, redisVars
    <3>3. CASE ListenCancelled(p)
      BY <3>3, OthersInductive DEF ListenCancelled, Unsubscribe
    <3> QED BY <2>2, <3>1, <3>2, <3>3 DEF Run
  <2>3. ASSUME NEW p \in Processes, ListenDies(p) PROVE IInv'
    BY <2>3, OthersInductive DEF ListenDies, Unsubscribe
  <2>4. ASSUME NEW p \in Processes, Stop(p) \/ RedisSubscribes(p) PROVE IInv'
    BY <2>4, OthersInductive DEF Stop, RedisSubscribes, redisVars
  <2>5. ASSUME NEW m \in Messages, Broadcast(m) \/ Publish(m) \/ PublishFails(m)
        PROVE  IInv'
    BY <2>5, BroadcastInductive, PublishInductive, PublishFailsInductive
  <2>6. CASE UNCHANGED vars
    BY <2>6, OthersInductive DEF vars, redisVars
  <2> QED BY <2>1, <2>2, <2>3, <2>4, <2>5, <2>6 DEF Next
<1>3. IInv => OnceInOrder
  BY DEF IInv
<1> QED BY <1>1, <1>2, <1>3, PTL DEF Spec

(***************************************************************************)
(* Both hubs side by side.  A behaviour of the run is, of each hub, one of *)
(* its own that may stop: what was proved of the parts holds of it.        *)
(***************************************************************************)

LocalProofs ==
  INSTANCE WebSocketHub_proofs WITH handler <- task, ended <- over

LEMMA Parts == EitherSpec => Spec /\ LocalProofs!Spec
<1>1. EitherInit => Init /\ LocalProofs!Init
  BY DEF EitherInit, Local!Init, LocalProofs!Init, Local!Ips, LocalProofs!Ips
<1>2. [EitherNext]_<<hub, vars, localVars>> =>
        [Next]_vars /\ [LocalProofs!Next]_(LocalProofs!vars)
  <2> USE DEF Local!hubVars, LocalProofs!hubVars, Local!castVars, LocalProofs!castVars,
              Local!historyVars, LocalProofs!historyVars
  <2>1. \A c \in Conns :
        /\ Local!RefuseOrigin(c) => LocalProofs!RefuseOrigin(c)
        /\ Local!AcceptFails(c) => LocalProofs!AcceptFails(c)
    BY DEF Local!RefuseOrigin, LocalProofs!RefuseOrigin, Local!AcceptFails,
           LocalProofs!AcceptFails
  <2>2. \A c \in Conns : Local!Handshake(c) => LocalProofs!Handshake(c)
    BY DEF Local!Handshake, LocalProofs!Handshake, Local!AtCap, LocalProofs!AtCap,
           Local!Cardinality, LocalProofs!Cardinality
  <2>3. \A c \in Conns : Local!Accepted(c) => LocalProofs!Accepted(c)
    BY DEF Local!Accepted, LocalProofs!Accepted
  <2>4. \A c \in Conns :
        /\ Local!ReceiveEnds(c) => LocalProofs!ReceiveEnds(c)
        /\ Local!Cancel(c) => LocalProofs!Cancel(c)
    BY DEF Local!ReceiveEnds, LocalProofs!ReceiveEnds, Local!Cancel, LocalProofs!Cancel,
           Local!Over, LocalProofs!Over, Local!Disconnect, LocalProofs!Disconnect
  <2>5. \A c \in Conns : Local!Vanish(c) => LocalProofs!Vanish(c)
    BY DEF Local!Vanish, LocalProofs!Vanish
  <2>6. \A c \in Conns : Local!BroadcastEnds(c) => LocalProofs!BroadcastEnds(c)
    BY DEF Local!BroadcastEnds, LocalProofs!BroadcastEnds
  <2>7. \A c \in Conns : \A m \in Casts : Local!Broadcast(c, m) => LocalProofs!Broadcast(c, m)
    BY DEF Local!Broadcast, LocalProofs!Broadcast
  <2>8. \A c, d \in Conns :
        /\ Local!SendSucceeds(c, d) => LocalProofs!SendSucceeds(c, d)
        /\ Local!SendRaises(c, d) => LocalProofs!SendRaises(c, d)
    BY DEF Local!SendSucceeds, LocalProofs!SendSucceeds, Local!SendRaises,
           LocalProofs!SendRaises
  <2>9. Local!Next => LocalProofs!Next
    BY <2>1, <2>2, <2>3, <2>4, <2>5, <2>6, <2>7, <2>8 DEF Local!Next, LocalProofs!Next
  <2>10. UNCHANGED localVars => UNCHANGED LocalProofs!vars
    BY DEF localVars, LocalProofs!vars
  <2> QED BY <2>9, <2>10 DEF EitherNext
<1> QED BY <1>1, <1>2, PTL DEF EitherSpec, LocalProofs!Spec, Spec

(* Whatever is connected, cancelled, stopped or fails, both hubs are type  *)
(* correct: what Redis keeps for a process it keeps for a subscriber, a    *)
(* SUBSCRIBE is a listener's, a process has had no more Events than the    *)
(* stop()s allow (websockets.py:232-277).                                  *)
THEOREM BothTypeCorrect == EitherSpec => []BothTypeOK
<1>1. Init => Typed
  BY InitTyped
<1>2. Typed /\ [Next]_vars => Typed'
  BY NextTyped
<1>3. Typed => TypeOK
  BY DEF Typed
<1>4. LocalProofs!Constants /\ MaxCancels \in Nat
  BY LocalAssumption DEF LocalProofs!Constants
<1>5. LocalProofs!Spec => []LocalProofs!TypeOK
  BY <1>4, LocalProofs!TypeCorrect
<1>6. TypeOK /\ LocalProofs!TypeOK => BothTypeOK
  BY DEF BothTypeOK, Local!TypeOK, LocalProofs!TypeOK, Local!Ips, LocalProofs!Ips
<1> QED BY <1>1, <1>2, <1>3, <1>5, <1>6, Parts, PTL DEF Spec

(* LocalHubHolds, a property of run WebSocketHubs, for any connections and *)
(* any cap: slots are exact, the cap holds unless handshakes overlap, and  *)
(* a broadcast() tries everyone and drops only the gone                    *)
(* (websockets.py:105-150).                                                *)
THEOREM LocalHubAlwaysHolds == EitherSpec => []LocalHubHolds
<1>1. LocalProofs!Constants /\ LocalProofs!FiniteCap
  BY LocalAssumption
     DEF LocalProofs!Constants, LocalProofs!FiniteCap, LocalProofs!IsFiniteSet, IsFiniteSet
<1>2. LocalProofs!Spec => []LocalProofs!SlotsExact
  BY <1>1, LocalProofs!SlotsAlwaysExact
<1>3. LocalProofs!Spec => []LocalProofs!CapHolds
  BY <1>1, LocalProofs!CapAlwaysHolds
<1>4. LocalProofs!Spec => []LocalProofs!ReachesEveryone
  BY <1>1, LocalProofs!EveryoneReached
<1>5. LocalProofs!Spec => []LocalProofs!OnlyGoneDropped
  BY <1>1, LocalProofs!OnlyTheGoneDropped
<1>6. /\ LocalProofs!SlotsExact /\ LocalProofs!CapHolds
      /\ LocalProofs!ReachesEveryone /\ LocalProofs!OnlyGoneDropped
      => LocalHubHolds
  <2>1. LocalProofs!SlotsExact => Local!SlotsExact
    BY DEF Local!SlotsExact, LocalProofs!SlotsExact
  <2>2. LocalProofs!CapHolds => Local!CapHolds
    BY DEF Local!CapHolds, LocalProofs!CapHolds, Local!Ips, LocalProofs!Ips,
           Local!Cardinality, LocalProofs!Cardinality
  <2>3. LocalProofs!ReachesEveryone => Local!ReachesEveryone
    BY DEF Local!ReachesEveryone, LocalProofs!ReachesEveryone
  <2>4. LocalProofs!OnlyGoneDropped => Local!OnlyGoneDropped
    BY DEF Local!OnlyGoneDropped, LocalProofs!OnlyGoneDropped
  <2> QED BY <2>1, <2>2, <2>3, <2>4 DEF LocalHubHolds
<1> QED BY <1>2, <1>3, <1>4, <1>5, <1>6, Parts, PTL

=============================================================================
