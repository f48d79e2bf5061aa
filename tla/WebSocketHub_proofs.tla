------------------------ MODULE WebSocketHub_proofs ------------------------
(***************************************************************************)
(* Proofs about WebSocketHub, for any connections, addresses, broadcasts   *)
(* and cancellations.  The bound of the cap needs finitely many            *)
(* connections.                                                            *)
(***************************************************************************)
EXTENDS WebSocketHub, FiniteSetTheorems, TLAPS

(***************************************************************************)
(* The inductive invariant                                                 *)
(***************************************************************************)

TypesKept ==
  /\ handler \in [Conns -> {"new", "accepting", "open", "over"}]
  /\ byIp \in [Ips -> SUBSET Conns]
  /\ cast \in [Conns -> Casts \cup {None}]
  /\ todo \in [Conns -> SUBSET Conns]
  /\ stale \in [Conns -> SUBSET Conns]
  /\ audience \in [Casts -> SUBSET Conns]
  /\ sent \in [Casts -> SUBSET Conns]
  /\ refused \in [Casts -> SUBSET Conns]
  /\ connections \subseteq Conns /\ ended \subseteq Casts

(* The slots of an address are those of its open connections.              *)
Slots ==
  /\ \A ip \in Ips : \A c \in Conns :
       c \in byIp[ip] <=> Ip[c] = ip /\ handler[c] = "open"
  /\ ipOf = {c \in Conns : handler[c] = "open"}

(* A handshake that is under way will take a slot.                         *)
Taken(ip) == {c \in Conns : Ip[c] = ip /\ handler[c] \in {"accepting", "open"}}
TakenWithinCap == \A ip \in Ips \ overlapped : Cardinality(Taken(ip)) <= MaxPerIp

(* Each broadcast() is one handler's, and who is not in `todo` any more    *)
(* was tried.                                                              *)
CastsApart ==
  \A c \in Conns :
    /\ cast[c] = None => todo[c] = {}
    /\ \A d \in Conns : cast[c] = cast[d] /\ cast[c] # None => c = d
Tried(m) == sent[m] \cup refused[m]
RestIsTodo ==
  \A c \in Conns : cast[c] # None =>
    audience[cast[c]] \subseteq Tried(cast[c]) \cup todo[c]

(* Who may be dropped                                                      *)
Gone(d) == d \notin alive \/ \E m \in BadCasts : d \in refused[m]
StaleAreGone == \A c \in Conns : \A d \in stale[c] : Gone(d)

Reach == CastsApart /\ RestIsTodo /\ ReachesEveryone
Drops == StaleAreGone /\ OnlyGoneDropped

IInv == TypesKept /\ Slots /\ Reach /\ Drops

Constants == None \notin Casts /\ BadCasts \subseteq Casts

LEMMA InitIInv ==
  ASSUME Init
  PROVE  IInv
<1>1. TypesKept
  BY DEF Init, TypesKept
<1>2. Slots
  BY DEF Init, Slots
<1>3. Reach
  BY DEF Init, Reach, CastsApart, RestIsTodo, ReachesEveryone
<1>4. Drops
  BY DEF Init, Drops, StaleAreGone, OnlyGoneDropped
<1> QED BY <1>1, <1>2, <1>3, <1>4 DEF IInv

(***************************************************************************)
(* connect(), disconnect() and the clients                                 *)
(***************************************************************************)

LEMMA AddressOf == \A c \in Conns : Ip[c] \in Ips
BY DEF Ips

(* Steps that leave the broadcasts alone and track nobody.                 *)
LEMMA BeforeAccept ==
  ASSUME IInv, NEW c \in Conns, handler[c] \in {"new", "accepting"},
         NEW h \in {"accepting", "over"}, handler' = [handler EXCEPT ![c] = h],
         UNCHANGED <<alive, connections, byIp, ipOf, cast, todo, stale, audience, sent,
                     refused, ended>>
  PROVE  IInv'
<1>1. TypesKept'
  BY DEF IInv, TypesKept
<1>2. Slots'
  BY DEF IInv, TypesKept, Slots
<1>3. Reach'
  BY DEF IInv, Reach, CastsApart, RestIsTodo, ReachesEveryone, Tried
<1>4. Drops'
  BY DEF IInv, TypesKept, Drops, StaleAreGone, OnlyGoneDropped, Gone
<1> QED BY <1>1, <1>2, <1>3, <1>4 DEF IInv

LEMMA AcceptedInductive ==
  ASSUME IInv, NEW c \in Conns, Accepted(c)
  PROVE  IInv'
<1>1. /\ handler' = [handler EXCEPT ![c] = "open"]
      /\ connections' = connections \cup {c} /\ ipOf' = ipOf \cup {c}
      /\ byIp' = [byIp EXCEPT ![Ip[c]] = @ \cup {c}]
      /\ UNCHANGED <<alive, cast, todo, stale, audience, sent, refused, ended>>
  BY DEF Accepted, castVars, historyVars
<1>2. TypesKept'
  BY <1>1, AddressOf DEF IInv, TypesKept
<1>3. Slots'
  <2>1. \A ip \in Ips : \A d \in Conns :
          d \in byIp'[ip] <=> d \in byIp[ip] \/ (d = c /\ ip = Ip[c])
    BY <1>1, AddressOf DEF IInv, TypesKept
  <2>2. \A d \in Conns : handler'[d] = "open" <=> handler[d] = "open" \/ d = c
    BY <1>1 DEF IInv, TypesKept
  <2> QED BY <1>1, <2>1, <2>2 DEF IInv, Slots
<1>4. Reach'
  BY <1>1 DEF IInv, Reach, CastsApart, RestIsTodo, ReachesEveryone, Tried
<1>5. Drops'
  BY <1>1 DEF IInv, TypesKept, Drops, StaleAreGone, OnlyGoneDropped, Gone
<1> QED BY <1>2, <1>3, <1>4, <1>5 DEF IInv

(* disconnect() finds the slot that connect() has taken.                   *)
LEMMA OverInductive ==
  ASSUME IInv, NEW c \in Conns, handler[c] = "open", Over(c),
         alive' \subseteq alive, UNCHANGED historyVars
  PROVE  IInv'
<1>1. c \in ipOf
  BY DEF IInv, Slots
<1>2. /\ handler' = [handler EXCEPT ![c] = "over"]
      /\ connections' = connections \ {c} /\ ipOf' = ipOf \ {c}
      /\ byIp' = [byIp EXCEPT ![Ip[c]] = @ \ {c}]
      /\ cast' = [cast EXCEPT ![c] = None]
      /\ todo' = [todo EXCEPT ![c] = {}] /\ stale' = [stale EXCEPT ![c] = {}]
      /\ UNCHANGED <<audience, sent, refused, ended>>
  BY <1>1 DEF Over, Disconnect, historyVars
<1>3. TypesKept'
  BY <1>2, AddressOf DEF IInv, TypesKept
<1>4. Slots'
  <2>1. \A ip \in Ips : \A d \in Conns :
          d \in byIp'[ip] <=> d \in byIp[ip] /\ ~(d = c /\ ip = Ip[c])
    BY <1>2, AddressOf DEF IInv, TypesKept
  <2>2. \A d \in Conns : handler'[d] = "open" <=> handler[d] = "open" /\ d # c
    BY <1>2 DEF IInv, TypesKept
  <2> QED BY <1>2, <2>1, <2>2 DEF IInv, Slots
<1>5. CastsApart' /\ RestIsTodo' /\ ReachesEveryone'
  BY <1>2 DEF IInv, TypesKept, Reach, CastsApart, RestIsTodo, ReachesEveryone, Tried
<1>6. Drops'
  BY <1>2 DEF IInv, TypesKept, Drops, StaleAreGone, OnlyGoneDropped, Gone
<1> QED BY <1>3, <1>4, <1>5, <1>6 DEF IInv, Reach

LEMMA VanishInductive ==
  ASSUME IInv, NEW c \in Conns, Vanish(c)
  PROVE  IInv'
<1>1. /\ alive' \subseteq alive
      /\ UNCHANGED <<handler, connections, byIp, ipOf, cast, todo, stale, audience, sent,
                     refused, ended>>
  BY DEF Vanish, hubVars, castVars, historyVars
<1>2. TypesKept' /\ Slots' /\ Reach'
  BY <1>1 DEF IInv, TypesKept, Slots, Reach, CastsApart, RestIsTodo, ReachesEveryone, Tried
<1>3. Drops'
  BY <1>1 DEF IInv, Drops, StaleAreGone, OnlyGoneDropped, Gone
<1> QED BY <1>2, <1>3 DEF IInv

(***************************************************************************)
(* broadcast()                                                             *)
(***************************************************************************)

LEMMA BroadcastInductive ==
  ASSUME Constants, IInv,
         NEW c \in Conns, NEW m \in Casts, Broadcast(c, m)
  PROVE  IInv'
<1>1. /\ cast[c] = None /\ m \notin ended /\ \A d \in Conns : cast[d] # m
      /\ cast' = [cast EXCEPT ![c] = m]
      /\ todo' = [todo EXCEPT ![c] = connections \ {c}]
      /\ audience' = [audience EXCEPT ![m] = connections \ {c}]
      /\ UNCHANGED <<handler, alive, connections, byIp, ipOf, stale, sent, refused, ended>>
  BY DEF Broadcast, hubVars
<1>2. TypesKept' /\ Slots'
  BY <1>1 DEF IInv, TypesKept, Slots
<1>3. CastsApart'
  BY <1>1 DEF Constants, IInv, TypesKept, Reach, CastsApart
<1>4. RestIsTodo'
  BY <1>1 DEF Constants, IInv, TypesKept, Reach, RestIsTodo, Tried
<1>5. ReachesEveryone'
  BY <1>1 DEF IInv, TypesKept, Reach, ReachesEveryone
<1>6. Drops'
  BY <1>1 DEF IInv, Drops, StaleAreGone, OnlyGoneDropped, Gone
<1> QED BY <1>2, <1>3, <1>4, <1>5, <1>6 DEF IInv, Reach

(* A send has a broadcast, and takes a connection from its rest.           *)
LEMMA SendInductive ==
  ASSUME Constants, IInv, NEW c \in Conns, NEW d \in Conns,
         SendSucceeds(c, d) \/ SendRaises(c, d)
  PROVE  IInv'
<1> DEFINE m == cast[c]
           triedNow(n) == sent'[n] \cup refused'[n]
<1>1. /\ d \in todo[c] /\ todo' = [todo EXCEPT ![c] = @ \ {d}]
      /\ UNCHANGED <<handler, alive, connections, byIp, ipOf, cast, audience, ended>>
  BY DEF SendSucceeds, SendRaises, hubVars
<1>2. m \in Casts /\ m # None
  BY <1>1 DEF Constants, IInv, TypesKept, Reach, CastsApart
<1>3. \/ /\ sent' = [sent EXCEPT ![m] = @ \cup {d}]
         /\ UNCHANGED <<refused, stale>>
      \/ /\ d \notin alive \/ m \in BadCasts
         /\ refused' = [refused EXCEPT ![m] = @ \cup {d}]
         /\ stale' = [stale EXCEPT ![c] = @ \cup {d}]
         /\ sent' = sent
  BY DEF SendSucceeds, SendRaises
<1> HIDE DEF m, triedNow
<1>4. TypesKept' /\ Slots'
  <2>1. todo' \in [Conns -> SUBSET Conns]
    BY <1>1 DEF IInv, TypesKept
  <2>2. /\ sent' \in [Casts -> SUBSET Conns] /\ refused' \in [Casts -> SUBSET Conns]
        /\ stale' \in [Conns -> SUBSET Conns]
    BY <1>2, <1>3 DEF IInv, TypesKept
  <2> QED BY <1>1, <2>1, <2>2 DEF IInv, TypesKept, Slots
<1>5. \A n \in Casts : Tried(n) \subseteq triedNow(n) /\ (n = m => d \in triedNow(n))
  BY <1>2, <1>3 DEF IInv, TypesKept, Tried, triedNow
<1>6. CastsApart'
  BY <1>1 DEF IInv, TypesKept, Reach, CastsApart
<1>7. RestIsTodo'
  <2> SUFFICES ASSUME NEW e \in Conns, cast[e] # None, NEW x \in audience[cast[e]]
               PROVE  x \in triedNow(cast[e]) \cup todo'[e]
    BY <1>1 DEF RestIsTodo, Tried, triedNow
  <2>1. cast[e] \in Casts
    BY DEF IInv, TypesKept
  <2>2. x \in Tried(cast[e]) \cup todo[e]
    BY DEF IInv, Reach, RestIsTodo
  <2>3. x \in todo[e] => x \in todo'[e] \/ (e = c /\ x = d)
    BY <1>1 DEF IInv, TypesKept
  <2>4. CASE e = c /\ x = d
    <3>1. cast[e] = m
      BY <2>4 DEF m
    <3> QED BY <1>2, <1>5, <2>4, <3>1
  <2>5. CASE ~(e = c /\ x = d)
    BY <1>5, <2>1, <2>2, <2>3, <2>5
  <2> QED BY <2>4, <2>5
<1>8. ReachesEveryone'
  <2> SUFFICES ASSUME NEW n \in ended
               PROVE  audience[n] \subseteq triedNow(n)
    BY <1>1 DEF ReachesEveryone, triedNow
  <2>1. n \in Casts /\ audience[n] \subseteq Tried(n)
    BY DEF TypesKept, IInv, Reach, ReachesEveryone, Tried
  <2> QED BY <1>5, <2>1
<1>9. \A e \in Conns : Gone(e) => Gone(e)'
  BY <1>1, <1>2, <1>3 DEF Constants, IInv, TypesKept, Gone
<1>10. StaleAreGone'
  <2>1. CASE stale' = stale
    BY <1>9, <2>1 DEF IInv, TypesKept, Drops, StaleAreGone
  <2>2. CASE /\ d \notin alive \/ m \in BadCasts
             /\ refused' = [refused EXCEPT ![m] = @ \cup {d}]
             /\ stale' = [stale EXCEPT ![c] = @ \cup {d}]
    <3>1. Gone(d)'
      BY <1>1, <1>2, <2>2 DEF IInv, TypesKept, Gone
    <3> QED BY <1>9, <2>2, <3>1 DEF IInv, TypesKept, Drops, StaleAreGone
  <2> QED BY <1>3, <2>1, <2>2
<1>11. OnlyGoneDropped'
  BY <1>1, <1>9 DEF IInv, Drops, OnlyGoneDropped, Gone
<1> QED BY <1>4, <1>6, <1>7, <1>8, <1>10, <1>11 DEF IInv, Reach, Drops

LEMMA BroadcastEndsInductive ==
  ASSUME Constants, IInv, NEW c \in Conns, BroadcastEnds(c)
  PROVE  IInv'
<1>1. /\ cast[c] # None /\ todo[c] = {}
      /\ connections' = connections \ stale[c]
      /\ ended' = ended \cup {cast[c]}
      /\ cast' = [cast EXCEPT ![c] = None] /\ stale' = [stale EXCEPT ![c] = {}]
      /\ UNCHANGED <<handler, alive, byIp, ipOf, todo, audience, sent, refused>>
  BY DEF BroadcastEnds
<1>2. TypesKept' /\ Slots'
  BY <1>1 DEF IInv, TypesKept, Slots
<1>3. CastsApart' /\ RestIsTodo'
  BY <1>1 DEF IInv, TypesKept, Reach, CastsApart, RestIsTodo, Tried
<1>4. ReachesEveryone'
  <2>1. audience[cast[c]] \subseteq Tried(cast[c])
    BY <1>1 DEF IInv, Reach, RestIsTodo
  <2> QED BY <1>1, <2>1 DEF IInv, Reach, ReachesEveryone, Tried
<1>5. StaleAreGone'
  BY <1>1 DEF IInv, TypesKept, Drops, StaleAreGone, Gone
<1>6. OnlyGoneDropped'
  BY <1>1 DEF IInv, TypesKept, Drops, StaleAreGone, OnlyGoneDropped, Gone
<1> QED BY <1>2, <1>3, <1>4, <1>5, <1>6 DEF IInv, Reach, Drops

LEMMA NextIInv ==
  ASSUME Constants, IInv, [Next]_vars
  PROVE  IInv'
<1>1. CASE UNCHANGED vars
  BY <1>1 DEF vars, hubVars, castVars, historyVars, IInv, TypesKept, Slots, Reach, CastsApart,
              RestIsTodo, ReachesEveryone, Tried, Drops, StaleAreGone, OnlyGoneDropped, Gone
<1>2. ASSUME NEW c \in Conns, RefuseOrigin(c) \/ Handshake(c) \/ AcceptFails(c)
      PROVE  IInv'
  <2>1. /\ handler[c] \in {"new", "accepting"}
        /\ \E h \in {"accepting", "over"} : handler' = [handler EXCEPT ![c] = h]
        /\ UNCHANGED <<alive, connections, byIp, ipOf, cast, todo, stale, audience, sent,
                       refused, ended>>
    BY <1>2 DEF RefuseOrigin, Handshake, AcceptFails, hubVars, castVars, historyVars
  <2> QED BY <2>1, BeforeAccept
<1>3. ASSUME NEW c \in Conns, ReceiveEnds(c) \/ Cancel(c)
      PROVE  IInv'
  BY <1>3, OverInductive DEF ReceiveEnds, Cancel
<1>4. CASE Next
  BY <1>2, <1>3, <1>4, AcceptedInductive, VanishInductive, BroadcastInductive, SendInductive,
     BroadcastEndsInductive DEF Next
<1> QED BY <1>1, <1>4

(***************************************************************************)
(* The cap                                                                 *)
(***************************************************************************)

FiniteCap == IsFiniteSet(Conns) /\ MaxPerIp \in Nat

LEMMA TakenIsFinite ==
  ASSUME FiniteCap
  PROVE  \A S \in SUBSET Conns :
           /\ IsFiniteSet(S) /\ Cardinality(S) \in Nat
           /\ \A T \in SUBSET S : Cardinality(T) <= Cardinality(S)
BY FS_Subset, FS_CardinalityType DEF FiniteCap

LEMMA InitTaken ==
  ASSUME FiniteCap, Init
  PROVE  TakenWithinCap
<1>1. \A ip \in Ips : Taken(ip) = {}
  BY DEF Init, Taken
<1> QED BY <1>1, FS_EmptySet DEF TakenWithinCap, FiniteCap

(* A handshake is let on when there is a slot that no other has in view;   *)
(* no other step takes one.                                                *)
LEMMA NextTaken ==
  ASSUME FiniteCap, IInv, TakenWithinCap, [Next]_vars
  PROVE  TakenWithinCap'
<1>1. ASSUME NEW c \in Conns, Handshake(c), NEW ip \in Ips \ overlapped'
      PROVE  Cardinality(Taken(ip)') <= MaxPerIp
  <2>1. ip \in Ips \ overlapped /\ Cardinality(Taken(ip)) <= MaxPerIp
    BY <1>1 DEF Handshake, TakenWithinCap
  <2>2. CASE Ip[c] = ip /\ ~AtCap(c)
    <3>1. Taken(ip) = byIp[ip]
      BY <1>1, <2>2 DEF Handshake, Taken, IInv, TypesKept, Slots
    <3>2. Taken(ip)' = Taken(ip) \cup {c}
      BY <1>1, <2>2 DEF Handshake, Taken, IInv, TypesKept
    <3>3. ~(Cardinality(byIp[ip]) >= MaxPerIp)
      BY <2>2 DEF AtCap
    <3>4. IsFiniteSet(Taken(ip)) /\ Cardinality(Taken(ip)) \in Nat
      BY TakenIsFinite DEF Taken
    <3>5. Cardinality(Taken(ip) \cup {c}) =
            IF c \in Taken(ip) THEN Cardinality(Taken(ip)) ELSE Cardinality(Taken(ip)) + 1
      BY <3>4, FS_AddElement
    <3> QED BY <3>1, <3>2, <3>3, <3>4, <3>5 DEF FiniteCap
  <2>3. CASE ~(Ip[c] = ip /\ ~AtCap(c))
    <3>1. Taken(ip)' = Taken(ip)
      BY <1>1, <2>3 DEF Handshake, Taken, IInv, TypesKept
    <3> QED BY <2>1, <3>1
  <2> QED BY <2>2, <2>3
<1>2. ASSUME overlapped' = overlapped, \A ip \in Ips : Taken(ip)' \in SUBSET Taken(ip)
      PROVE  TakenWithinCap'
  <2> SUFFICES ASSUME NEW ip \in Ips \ overlapped
               PROVE  Cardinality(Taken(ip)') <= MaxPerIp
    BY <1>2 DEF TakenWithinCap
  <2>1. Taken(ip) \in SUBSET Conns /\ Taken(ip)' \in SUBSET Taken(ip)
    BY <1>2 DEF Taken
  <2>2. /\ Cardinality(Taken(ip)') <= Cardinality(Taken(ip))
        /\ Cardinality(Taken(ip)) \in Nat /\ Cardinality(Taken(ip)') \in Nat
    BY <2>1, TakenIsFinite
  <2> QED BY <2>2 DEF TakenWithinCap, FiniteCap
<1>3. ASSUME NEW c \in Conns, Accepted(c) PROVE TakenWithinCap'
  <2>1. \A ip \in Ips : Taken(ip)' \in SUBSET Taken(ip)
    BY <1>3 DEF Accepted, Taken, IInv, TypesKept
  <2> QED BY <1>2, <1>3, <2>1 DEF Accepted, historyVars
<1>4. ASSUME overlapped' = overlapped,
             handler' = handler \/ \E c \in Conns : handler' = [handler EXCEPT ![c] = "over"]
      PROVE  TakenWithinCap'
  <2>1. \A ip \in Ips : Taken(ip)' \in SUBSET Taken(ip)
    BY <1>4 DEF Taken, IInv, TypesKept
  <2> QED BY <1>2, <1>4, <2>1
<1>5. ASSUME NEW c \in Conns, ~Handshake(c), ~Accepted(c),
             \/ RefuseOrigin(c) \/ AcceptFails(c) \/ ReceiveEnds(c) \/ Cancel(c) \/ Vanish(c)
             \/ BroadcastEnds(c) \/ \E m \in Casts : Broadcast(c, m)
             \/ \E d \in Conns : SendSucceeds(c, d) \/ SendRaises(c, d)
      PROVE  /\ overlapped' = overlapped
             /\ handler' = handler \/ handler' = [handler EXCEPT ![c] = "over"]
  BY <1>5 DEF RefuseOrigin, AcceptFails, ReceiveEnds, Cancel, Vanish, BroadcastEnds, Broadcast,
              SendSucceeds, SendRaises, Over, historyVars
<1>6. CASE UNCHANGED vars
  BY <1>4, <1>6 DEF vars, historyVars
<1>7. CASE Next
  <2>1. PICK c \in Conns :
          \/ Handshake(c) \/ Accepted(c)
          \/ /\ ~Handshake(c) /\ ~Accepted(c)
             /\ \/ RefuseOrigin(c) \/ AcceptFails(c) \/ ReceiveEnds(c) \/ Cancel(c)
                \/ Vanish(c) \/ BroadcastEnds(c) \/ \E m \in Casts : Broadcast(c, m)
                \/ \E d \in Conns : SendSucceeds(c, d) \/ SendRaises(c, d)
    BY <1>7 DEF Next
  <2>2. CASE Handshake(c)
    BY <1>1, <2>2 DEF TakenWithinCap
  <2> QED BY <1>3, <1>4, <1>5, <2>1, <2>2
<1> QED BY <1>6, <1>7

(***************************************************************************)
(* The types                                                               *)
(***************************************************************************)

LEMMA InitTypeOK ==
  ASSUME MaxCancels \in Nat, Init
  PROVE  TypeOK
BY DEF Init, TypeOK

LEMMA NextTypeOK ==
  ASSUME MaxCancels \in Nat, Constants, TypeOK, [Next]_vars
  PROVE  TypeOK'
<1>1. CASE UNCHANGED vars
  BY <1>1 DEF vars, hubVars, castVars, historyVars, TypeOK
<1>2. ASSUME NEW c \in Conns,
             RefuseOrigin(c) \/ Handshake(c) \/ Accepted(c) \/ AcceptFails(c)
      PROVE  TypeOK'
  <2>1. handler[c] \in {"new", "accepting"} /\ cast[c] = None
    BY <1>2 DEF RefuseOrigin, Handshake, Accepted, AcceptFails, TypeOK
  <2>2. CASE RefuseOrigin(c) \/ Handshake(c) \/ AcceptFails(c)
    <3>1. /\ handler' \in [Conns -> {"new", "accepting", "open", "over"}]
          /\ \A d \in Conns : d # c => handler'[d] = handler[d]
      BY <2>2 DEF RefuseOrigin, Handshake, AcceptFails, TypeOK
    <3>2. /\ overlapped' \in SUBSET Ips
          /\ UNCHANGED <<alive, connections, byIp, ipOf, cast, todo, stale, audience, sent,
                         refused, ended, cancels>>
      BY <2>2, AddressOf DEF RefuseOrigin, Handshake, AcceptFails, hubVars, castVars,
                             historyVars, TypeOK
    <3> QED BY <2>1, <3>1, <3>2 DEF TypeOK
  <2>3. CASE Accepted(c)
    <3>1. /\ handler' = [handler EXCEPT ![c] = "open"]
          /\ connections' = connections \cup {c} /\ ipOf' = ipOf \cup {c}
          /\ byIp' = [byIp EXCEPT ![Ip[c]] = @ \cup {c}]
          /\ UNCHANGED <<alive, cast, todo, stale, audience, sent, refused, ended,
                         overlapped, cancels>>
      BY <2>3 DEF Accepted, castVars, historyVars
    <3> QED BY <2>1, <3>1, AddressOf DEF TypeOK
  <2> QED BY <1>2, <2>2, <2>3
<1>3. ASSUME NEW c \in Conns, ReceiveEnds(c) \/ Cancel(c)
      PROVE  TypeOK'
  <2>1. /\ alive' \in SUBSET Conns /\ cancels' \in 0 .. MaxCancels
        /\ UNCHANGED <<audience, sent, refused, ended, overlapped>>
    BY <1>3 DEF ReceiveEnds, Cancel, historyVars, TypeOK
  <2>2. /\ handler' = [handler EXCEPT ![c] = "over"]
        /\ connections' \in SUBSET Conns /\ ipOf' \in SUBSET Conns
        /\ byIp' \in [Ips -> SUBSET Conns]
        /\ cast' = [cast EXCEPT ![c] = None]
        /\ todo' = [todo EXCEPT ![c] = {}] /\ stale' = [stale EXCEPT ![c] = {}]
    BY <1>3, AddressOf DEF ReceiveEnds, Cancel, Over, Disconnect, TypeOK
  <2> QED BY <2>1, <2>2 DEF TypeOK
<1>4. ASSUME NEW c \in Conns, Vanish(c)
      PROVE  TypeOK'
  BY <1>4 DEF Vanish, hubVars, castVars, historyVars, TypeOK
<1>5. ASSUME NEW c \in Conns, NEW m \in Casts, Broadcast(c, m)
      PROVE  TypeOK'
  BY <1>5 DEF Constants, Broadcast, hubVars, TypeOK
<1>6. ASSUME NEW c \in Conns, NEW d \in Conns, SendSucceeds(c, d) \/ SendRaises(c, d)
      PROVE  TypeOK'
  <2>1. cast[c] # None /\ cast[c] \in Casts
    BY <1>6 DEF SendSucceeds, SendRaises, TypeOK
  <2>2. CASE SendSucceeds(c, d)
    BY <2>1, <2>2 DEF SendSucceeds, hubVars, TypeOK
  <2>3. CASE SendRaises(c, d)
    BY <2>1, <2>3 DEF SendRaises, hubVars, TypeOK
  <2> QED BY <1>6, <2>2, <2>3
<1>7. ASSUME NEW c \in Conns, BroadcastEnds(c)
      PROVE  TypeOK'
  BY <1>7 DEF BroadcastEnds, TypeOK
<1>8. CASE Next
  BY <1>2, <1>3, <1>4, <1>5, <1>6, <1>7, <1>8 DEF Next
<1> QED BY <1>1, <1>8

(***************************************************************************)
(* Theorems, about the properties that run WebSocketHubs checks            *)
(***************************************************************************)

LEMMA Invariance ==
  ASSUME Constants
  PROVE  Spec => []IInv
<1>1. Init => IInv
  BY InitIInv
<1>2. IInv /\ [Next]_vars => IInv'
  BY NextIInv
<1> QED BY <1>1, <1>2, PTL DEF Spec

(* Every reachable state is type correct; a broadcast()'s local variables  *)
(* are there only while it runs (websockets.py:137-150).                   *)
THEOREM TypeCorrect ==
  ASSUME MaxCancels \in Nat, Constants
  PROVE  Spec => []TypeOK
<1>1. Init => TypeOK
  BY InitTypeOK
<1>2. TypeOK /\ [Next]_vars => TypeOK'
  BY NextTypeOK
<1> QED BY <1>1, <1>2, PTL DEF Spec

(* Whoever comes, goes, is dropped or cancelled in whatever order, the     *)
(* slots of an address are those of its open connections                   *)
(* (websockets.py:105-129, 145-150).                                       *)
THEOREM SlotsAlwaysExact ==
  ASSUME Constants
  PROVE  Spec => []SlotsExact
<1>1. IInv => SlotsExact
  BY AddressOf DEF IInv, Slots, SlotsExact
<1> QED BY <1>1, Invariance, PTL

(* The cap of an address is kept until two handshakes of it overlap        *)
(* (websockets.py:105-114).                                                *)
THEOREM CapAlwaysHolds ==
  ASSUME Constants, FiniteCap
  PROVE  Spec => []CapHolds
<1>1. Init => TakenWithinCap
  BY InitTaken
<1>2. IInv /\ TakenWithinCap /\ [Next]_vars => TakenWithinCap'
  BY NextTaken
<1>3. TakenWithinCap => CapHolds
  <2> SUFFICES ASSUME TakenWithinCap, NEW ip \in Ips \ overlapped
               PROVE  Cardinality({c \in Conns : Ip[c] = ip /\ handler[c] = "open"}) <= MaxPerIp
    BY DEF CapHolds
  <2> DEFINE open == {c \in Conns : Ip[c] = ip /\ handler[c] = "open"}
  <2>1. Taken(ip) \in SUBSET Conns /\ open \in SUBSET Taken(ip)
    BY DEF Taken
  <2>2. /\ Cardinality(open) <= Cardinality(Taken(ip))
        /\ Cardinality(open) \in Nat /\ Cardinality(Taken(ip)) \in Nat
    BY <2>1, TakenIsFinite
  <2> HIDE DEF open
  <2>3. Cardinality(open) <= MaxPerIp
    BY <2>2 DEF TakenWithinCap, FiniteCap
  <2> QED BY <2>3 DEF open
<1> QED BY <1>1, <1>2, <1>3, Invariance, PTL DEF Spec

(* A broadcast() that has returned was tried on everyone who was there     *)
(* when it began (websockets.py:131-147).                                  *)
THEOREM EveryoneReached ==
  ASSUME Constants
  PROVE  Spec => []ReachesEveryone
<1>1. IInv => ReachesEveryone
  BY DEF IInv, Reach
<1> QED BY <1>1, Invariance, PTL

(* Who is dropped is gone, or was sent a message that could not be         *)
(* serialized (websockets.py:138-150).                                     *)
THEOREM OnlyTheGoneDropped ==
  ASSUME Constants
  PROVE  Spec => []OnlyGoneDropped
<1>1. IInv => OnlyGoneDropped
  BY DEF IInv, Drops
<1> QED BY <1>1, Invariance, PTL

=============================================================================
