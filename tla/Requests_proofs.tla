-------------------------- MODULE Requests_proofs --------------------------
(***************************************************************************)
(* Proofs about what requests meet in a process, as MCRequests puts the    *)
(* parts together: layers, decisions, cookies, files and limits, for any   *)
(* requests, tasks, users, files and bounds.  Each part has an invariant   *)
(* of its own, which the steps of the others leave alone.  Responses,      *)
(* languages and what a process assembles are in Assembly_proofs.          *)
(***************************************************************************)
EXTENDS MCRequests, FiniteSetTheorems, SequenceTheorems, NaturalsInduction,
        WellFoundedInduction, TLAPS

(* A set of numbers has a least one.                                       *)
LEMMA Least ==
  ASSUME NEW T \in SUBSET Nat, T # {}
  PROVE  \E n \in T : \A k \in T : n <= k
<1>1. PICK n \in T : \A k \in T : <<k, n>> \notin OpToRel(<, Nat)
  BY WFMin, NatLessThanWellFounded, Zenon
<1>2. \A k \in T : ~(k < n)
  BY <1>1, Zenon DEF OpToRel
<1> QED BY <1>2

(* A behaviour of one part stays one of that part.                         *)
LEMMA OneView ==
  ASSUME [RequestNext]_requestVars
  PROVE  view' = view
BY DEF RequestNext, requestVars

(***************************************************************************)
(* The layers                                                              *)
(***************************************************************************)

N == Len(Providers)

(* How many layers, counted from the outermost, a request is within.       *)
Reached(r) ==
  IF stage[r] \in {"down", "handler"} THEN at[r] - 1
  ELSE IF stage[r] \in {"up", "raising", "cancelled"} THEN at[r] ELSE 0

Boots ==
  /\ booted \in 0 .. N /\ middleware \in Seq(Layers) /\ Len(middleware) = booted
  /\ \A i \in 1 .. booted : middleware[i] = Providers[booted + 1 - i]
  /\ built => booted = N

Stages ==
  /\ stage \in [Requests -> {"new", "down", "handler", "up", "raising", "cancelled", "done"}]
  /\ at \in [Requests -> 0 .. N + 1] /\ task \in [Requests -> Tasks \cup {None}]
  /\ \A r \in Requests :
       /\ (task[r] = None) = (stage[r] \in {"new", "done"})
       /\ stage[r] \notin {"new", "done"} => built
       /\ stage[r] = "down" => at[r] \in 1 .. N + 1
       /\ stage[r] = "handler" => at[r] = N + 1
       /\ stage[r] \in {"up", "raising", "cancelled"} => at[r] \in 0 .. N
  /\ \A r, q \in Requests : task[r] # None /\ task[r] = task[q] => r = q

Own(r, v) ==
  IF Reached(r) < Depth(v) THEN context[task[r]][v] = None
  ELSE context[task[r]][v] = r \/ (v \in Unresolved /\ context[task[r]][v] = None)

Contexts ==
  /\ context \in [Tasks \cup {Worker} -> [Vars -> Requests \cup {None}]]
  /\ token = [r \in Requests |-> Blank]
  /\ \A r \in Requests : task[r] # None => \A v \in Vars : Own(r, v)
  /\ \A t \in Tasks : (\A r \in Requests : task[r] # t) => \A v \in Vars : context[t][v] = None

(* The layers between the one that raised and where the exception is have  *)
(* left their facts on it.                                                 *)
Came(r, layer) == Reached(r) < Depth(layer) /\ raisedIn[r] > Depth(layer)
LeftOn(r) ==
  /\ stash[r].id = IF Came(r, "request_id") THEN r ELSE None
  /\ IF Came(r, "profiler")
     THEN stash[r].queries # None /\ stash[r].queries \cap Requests \subseteq {r}
     ELSE stash[r].queries = None

Reports ==
  /\ queries \in [Requests -> SUBSET (Requests \cup Jobs)]
  /\ \A r \in Requests : queries[r] \cap Requests \subseteq {r}
  /\ stash \in [Requests -> Facts] /\ report \in [Requests -> Facts \cup {None}]
  /\ raisedIn \in [Requests -> 0 .. N + 1]
  /\ jobs \in Seq(Jobs) /\ pushed \in Nat
  /\ \A r \in Requests : IF Raising(r) THEN Reached(r) < raisedIn[r] /\ LeftOn(r)
                                       ELSE stash[r] = Nothing
  /\ \A r \in Requests : report[r] # None => stage[r] = "done"
  /\ ReportIsOwn

Statuses == {"ok", "error", "crash", "down", "redirect"}
CountOf(r) == <<IF told[r] = None THEN "crash" ELSE told[r]>>
InMetrics == {r \in Requests : Reached(r) >= Depth("metrics")}

Counts ==
  /\ gauge = Cardinality(InMetrics)
  /\ told \in [Requests -> Statuses \cup {None}]
  /\ counted \in [Requests -> Seq(Statuses)]
  /\ \A r \in Requests :
       /\ stage[r] \in {"new", "down"} => told[r] = None
       /\ stage[r] = "handler" => told[r] \in {None, "ok"}
       /\ stage[r] \in {"new", "down", "handler"} \/ r \in InMetrics => counted[r] = <<>>
       /\ counted[r] \in {<<>>, CountOf(r)}
       /\ told[r] \in {"ok", "error"} /\ r \notin InMetrics => counted[r] # <<>>

StackInv == Boots /\ Stages /\ Contexts /\ Reports /\ Counts

LEMMA DepthIs ==
  /\ N \in Nat
  /\ \A v \in Layers : Depth(v) \in 1 .. N
  /\ \A v, w \in Layers : Depth(v) = Depth(w) => v = w
  /\ \A i \in 1 .. N : Providers[i] \in Layers /\ Depth(Providers[i]) = N + 1 - i
<1>1. N \in Nat /\ DOMAIN Providers = 1 .. N /\ \A i \in 1 .. N : Providers[i] \in Layers
  BY LayersAssumption, LenProperties, ElementOfSeq DEF N
<1>2. \A v \in Layers : \E i \in DOMAIN Providers : Providers[i] = v
  BY DEF Layers, Range
<1>3. \A v \in Layers : (CHOOSE i \in DOMAIN Providers : Providers[i] = v) \in 1 .. N
  BY <1>1, <1>2
<1>4. \A i \in 1 .. N : (CHOOSE j \in DOMAIN Providers : Providers[j] = Providers[i]) = i
  <2> TAKE i \in 1 .. N
  <2>1. i \in DOMAIN Providers /\ \A j \in DOMAIN Providers : Providers[j] = Providers[i] => j = i
    BY <1>1, StackAssumption
  <2> QED BY <2>1
<1>5. \A v : Depth(v) = N + 1 - (CHOOSE i \in DOMAIN Providers : Providers[i] = v)
  BY DEF Depth, N
<1>6. \A v \in Layers : Depth(v) \in 1 .. N
  BY <1>1, <1>3, <1>5
<1>7. \A i \in 1 .. N : Depth(Providers[i]) = N + 1 - i
  BY <1>4, <1>5
<1>8. ASSUME NEW v \in Layers, NEW w \in Layers, Depth(v) = Depth(w)  PROVE v = w
  <2> DEFINE i == CHOOSE i \in DOMAIN Providers : Providers[i] = v
             j == CHOOSE j \in DOMAIN Providers : Providers[j] = w
  <2>1. Providers[i] = v /\ Providers[j] = w
    BY <1>2
  <2>2. i \in 1 .. N /\ j \in 1 .. N /\ N + 1 - i = N + 1 - j
    BY <1>3, <1>5, <1>8
  <2> HIDE DEF i, j
  <2>3. i = j
    BY <1>1, <2>2
  <2> QED BY <2>1, <2>3
<1> QED BY <1>1, <1>6, <1>7, <1>8

(* A request under way finds the layers in the providers' reverse order.   *)
LEMMA LayerIs ==
  ASSUME Boots, built
  PROVE  /\ Len(middleware) = N
         /\ \A i \in 1 .. N : middleware[i] \in Layers /\ Depth(middleware[i]) = i
<1>1. Len(middleware) = N /\ \A i \in 1 .. N : middleware[i] = Providers[N + 1 - i]
  BY DEF Boots
<1>2. \A i \in 1 .. N : N + 1 - i \in 1 .. N /\ N + 1 - (N + 1 - i) = i
  BY DepthIs
<1> QED BY <1>1, <1>2, DepthIs

LEMMA StackHolds ==
  ASSUME StackInv
  PROVE  BootedOnce /\ ContextIsOwn /\ ReportIsOwn /\ MetricsAgree
<1>1. BootedOnce
  <2>1. N \in Nat /\ booted \in 0 .. N /\ Len(middleware) = booted /\ DOMAIN middleware = 1 .. booted
        /\ \A i \in 1 .. booted : middleware[i] = Providers[booted + 1 - i]
    BY DepthIs, LenProperties DEF StackInv, Boots
  <2>2. Range(middleware) = Range(SubSeq(Providers, 1, booted))
    <3>1. DOMAIN SubSeq(Providers, 1, booted) = 1 .. booted
          /\ \A i \in 1 .. booted : SubSeq(Providers, 1, booted)[i] = Providers[i]
      BY <2>1, LayersAssumption, LenProperties DEF N
    <3>2. \A i \in 1 .. booted : booted + 1 - i \in 1 .. booted /\ booted + 1 - (booted + 1 - i) = i
      BY <2>1
    <3> DEFINE t == SubSeq(Providers, 1, booted)
    <3> HIDE DEF t
    <3>3. DOMAIN t = 1 .. booted /\ \A i \in 1 .. booted : t[i] = Providers[i]
      BY <3>1 DEF t
    <3>4. \A i \in 1 .. booted : middleware[i] = t[booted + 1 - i] /\ t[i] = middleware[booted + 1 - i]
      BY <2>1, <3>2, <3>3
    <3>5. Range(middleware) \subseteq Range(t)
      BY <2>1, <3>2, <3>3, <3>4 DEF Range
    <3>6. Range(t) \subseteq Range(middleware)
      BY <2>1, <3>2, <3>3, <3>4 DEF Range
    <3> QED BY <3>5, <3>6 DEF t
  <2>3. built => middleware = Reverse(Providers)
    <3> HAVE built
    <3>1. booted = N
      BY DEF StackInv, Boots
    <3>2. \A i \in 1 .. N : N + 1 - i = (N - i) + 1
      BY <2>1
    <3>3. middleware = [i \in 1 .. N |-> Providers[(N - i) + 1]]
      <4>1. middleware = [i \in 1 .. N |-> middleware[i]]
        BY <2>1, <3>1 DEF StackInv, Boots
      <4> QED BY <2>1, <3>1, <3>2, <4>1
    <3> QED BY <3>3 DEF Reverse, N
  <2> QED BY <2>1, <2>2, <2>3 DEF BootedOnce
<1>2. ContextIsOwn
  <2> SUFFICES ASSUME NEW t \in Tasks, NEW v \in Vars
               PROVE  /\ (\A r \in Requests : task[r] # t) => context[t][v] = None
                      /\ \A r \in {q \in Requests : task[q] = t /\ stage[q] = "handler"} :
                           context[t][v] = r \/ (v \in Unresolved /\ context[t][v] = None)
    BY DEF ContextIsOwn
  <2>1. ASSUME NEW r \in Requests, task[r] = t, stage[r] = "handler"
        PROVE  context[t][v] = r \/ (v \in Unresolved /\ context[t][v] = None)
    <3>1. task[r] # None /\ Own(r, v)
      BY <2>1, StackAssumption DEF StackInv, Contexts
    <3>2. ~ (Reached(r) < Depth(v))
      BY <2>1, DepthIs DEF Reached, StackInv, Stages, Vars
    <3> QED BY <2>1, <3>1, <3>2 DEF Own
  <2> QED BY <2>1 DEF StackInv, Contexts
<1>3. ReportIsOwn
  BY DEF StackInv, Reports
<1>4. MetricsAgree
  <2>1. \A r \in Requests : Inside(r, "metrics") <=> Reached(r) >= Depth("metrics")
    <3> TAKE r \in Requests
    <3>1. Depth("metrics") \in Nat /\ Depth("metrics") > 0 /\ at[r] \in Nat
      BY DepthIs, LayersAssumption DEF StackInv, Stages
    <3>2. stage[r] \in {"new", "down", "handler", "up", "raising", "cancelled", "done"}
      BY DEF StackInv, Stages
    <3>3. (task[r] = None) <=> (stage[r] \in {"new", "done"})
      BY DEF StackInv, Stages
    <3> QED BY <3>1, <3>2, <3>3 DEF Inside, Leaving, Reached
  <2>2. {r \in Requests : Inside(r, "metrics")} = InMetrics
    BY <2>1 DEF InMetrics
  <2>3. \A r \in Requests : Len(counted[r]) <= 1
    <3>1. Len(<<>>) = 0 /\ \A r \in Requests : Len(CountOf(r)) = 1
      BY DEF CountOf
    <3> QED BY <3>1, SMTT(30) DEF StackInv, Counts
  <2>4. \A r \in Requests : stage[r] = "done" => r \notin InMetrics
    BY DepthIs, LayersAssumption DEF InMetrics, Reached
  <2> QED BY <2>2, <2>3, <2>4 DEF MetricsAgree, StackInv, Counts, CountOf
<1> QED BY <1>1, <1>2, <1>3, <1>4

LEMMA StackInit ==
  ASSUME Init
  PROVE  StackInv
<1>1. N \in Nat /\ 0 \in 0 .. N /\ 0 \in 0 .. N + 1
  BY DepthIs
<1>2. /\ booted = 0 /\ middleware = <<>> /\ built = FALSE
      /\ stage = [r \in Requests |-> "new"] /\ at = [r \in Requests |-> 0]
      /\ task = [r \in Requests |-> None]
      /\ context = [t \in Tasks \cup {Worker} |-> Blank]
      /\ token = [r \in Requests |-> Blank] /\ queries = [r \in Requests |-> {}]
      /\ told = [r \in Requests |-> None] /\ stash = [r \in Requests |-> Nothing]
      /\ raisedIn = [r \in Requests |-> 0] /\ report = [r \in Requests |-> None]
      /\ gauge = 0 /\ counted = [r \in Requests |-> <<>>] /\ jobs = <<>> /\ pushed = 0
  BY DEF Init
<1>3. Boots
  BY <1>1, <1>2 DEF Boots
<1>4. Stages
  BY <1>1, <1>2 DEF Stages
<1>5. Contexts
  <2>1. context \in [Tasks \cup {Worker} -> [Vars -> Requests \cup {None}]]
    BY <1>2 DEF Blank
  <2>2. \A t \in Tasks : \A v \in Vars : context[t][v] = None
    BY <1>2 DEF Blank
  <2>3. \A r \in Requests : task[r] = None
    BY <1>2
  <2> QED BY <1>2, <2>1, <2>2, <2>3 DEF Contexts
<1>6. Reports
  <2>1. Nothing \in Facts
    <3>1. \A P, Q : None \in P /\ None \in Q => [id |-> None, queries |-> None] \in [id : P, queries : Q]
      OBVIOUS
    <3>2. \A S : None \in S \cup {None}
      OBVIOUS
    <3>3. \A P, Q : [id |-> None, queries |-> None] \in [id : P \cup {None}, queries : Q \cup {None}]
      BY <3>1, <3>2
    <3> QED BY <3>3, Zenon DEF Nothing, Facts
  <2>2. /\ queries \in [Requests -> SUBSET (Requests \cup Jobs)]
        /\ stash \in [Requests -> Facts] /\ report \in [Requests -> Facts \cup {None}]
        /\ raisedIn \in [Requests -> 0 .. N + 1] /\ jobs \in Seq(Jobs) /\ pushed \in Nat
    <3> HIDE DEF Facts, Nothing
    <3> QED BY <1>1, <1>2, <2>1
  <2>3. \A r \in Requests : queries[r] = {} /\ report[r] = None /\ stage[r] = "new" /\ stash[r] = Nothing
    BY <1>2
  <2> QED BY <2>2, <2>3 DEF Reports, Raising, ReportIsOwn
<1>7. Counts
  <2>1. \A r \in Requests : Reached(r) = 0
    BY <1>2 DEF Reached
  <2>2. InMetrics = {}
    <3>1. Depth("metrics") \in Nat /\ Depth("metrics") > 0
      BY DepthIs, LayersAssumption
    <3> QED BY <2>1, <3>1 DEF InMetrics
  <2>3. counted \in [Requests -> Seq(Statuses)]
    BY <1>2
  <2>4. \A r \in Requests : told[r] = None /\ counted[r] = <<>> /\ r \notin InMetrics
    BY <1>2, <2>2
  <2>5. gauge = Cardinality(InMetrics)
    BY <1>2, <2>2, FS_EmptySet
  <2>6. told \in [Requests -> Statuses \cup {None}]
    BY <1>2
  <2>7. None \notin {"ok", "error"}
    BY LayersAssumption
  <2> QED BY <2>3, <2>4, <2>5, <2>6, <2>7 DEF Counts
<1> QED BY <1>3, <1>4, <1>5, <1>6, <1>7 DEF StackInv

(* What a step leaves of the invariant's parts.                            *)
LEMMA SameBoots ==
  ASSUME Boots, UNCHANGED application
  PROVE  Boots'
BY DEF Boots, application

LEMMA SameStages ==
  ASSUME Stages, UNCHANGED <<built, stage, at, task>>
  PROVE  Stages' /\ \A r : Reached(r)' = Reached(r) /\ Raising(r)' = Raising(r)
BY DEF Stages, Reached, Raising

LEMMA SameContexts ==
  ASSUME Contexts, UNCHANGED <<context, token, task>>,
         \A r \in Requests : \A v \in Vars :
           (Reached(r) < Depth(v))' = (Reached(r) < Depth(v))
  PROVE  Contexts'
<1>1. \A r \in Requests : \A v \in Vars : Own(r, v)' = Own(r, v)
  BY DEF Own
<1> QED BY <1>1 DEF Contexts

LEMMA SameReports ==
  ASSUME Reports, UNCHANGED <<queries, stash, report, raisedIn, jobs, pushed>>,
         \A r \in Requests : /\ Raising(r)' = Raising(r)
                             /\ Raising(r) => Reached(r)' = Reached(r)
                             /\ stage[r] = "done" => stage'[r] = "done"
  PROVE  Reports'
<1>1. \A r \in Requests : Raising(r) => LeftOn(r)' = LeftOn(r)
  BY DEF LeftOn, Came, Depth
<1>2. ReportIsOwn'
  BY DEF Reports, ReportIsOwn, Depth
<1> QED BY <1>1, <1>2 DEF Reports

LEMMA SameCounts ==
  ASSUME Counts, UNCHANGED <<stage, gauge, told, counted>>,
         \A r \in Requests :
           (Reached(r) >= Depth("metrics"))' = (Reached(r) >= Depth("metrics"))
  PROVE  Counts'
<1>1. InMetrics' = InMetrics
  BY DEF InMetrics
<1> QED BY <1>1 DEF Counts, CountOf

(* One layer further in, ...                                               *)
LEMMA OneIn ==
  ASSUME Boots, Stages, NEW r \in Requests, OnTheWayDown(r), Inwards(r),
         UNCHANGED <<built, task>>
  PROVE  /\ Stages' /\ stage[r] = "down" /\ built /\ task[r] \in Tasks /\ ~ Raising(r)
         /\ Layer(r) \in Layers /\ Depth(Layer(r)) = Reached(r) + 1 /\ Reached(r) \in Nat
         /\ Reached(r)' = Reached(r) + 1
         /\ \A q \in Requests \ {r} : Reached(q)' = Reached(q)
         /\ \A q : Raising(q)' = Raising(q)
<1>1. /\ stage[r] = "down" /\ at[r] \in 1 .. N + 1 /\ built /\ stage' = stage
      /\ at' = [at EXCEPT ![r] = at[r] + 1] /\ N \in Nat /\ task[r] \in Tasks
  BY DepthIs DEF OnTheWayDown, Inwards, Stages
<1>2. at[r] \in 1 .. N /\ Layer(r) = middleware[at[r]]
  BY <1>1, LayerIs DEF OnTheWayDown, Layer
<1>3. Layer(r) \in Layers /\ Depth(Layer(r)) = at[r]
  BY <1>1, <1>2, LayerIs
<1>4. at[r] + 1 \in 1 .. N + 1 /\ at' \in [Requests -> 0 .. N + 1]
  BY <1>1, <1>2 DEF Stages
<1>5. Stages'
  BY <1>1, <1>4 DEF Stages
<1>6. \A q \in Requests : at'[q] = IF q = r THEN at[r] + 1 ELSE at[q]
  BY <1>1 DEF Stages
<1> QED BY <1>1, <1>2, <1>3, <1>5, <1>6 DEF Reached, Raising

(* ... one further out, ...                                                *)
LEMMA OneOut ==
  ASSUME Boots, Stages, NEW r \in Requests, Leaving(r), Outwards(r),
         UNCHANGED <<built, task>>,
         stage' = stage \/ stage' = [stage EXCEPT ![r] = "raising"]
  PROVE  /\ Stages' /\ built /\ task[r] \in Tasks
         /\ Layer(r) \in Layers /\ Depth(Layer(r)) = Reached(r) /\ Reached(r) \in Nat
         /\ Reached(r)' = Reached(r) - 1 /\ at[r] = Reached(r)
         /\ stage'[r] \in {"up", "raising", "cancelled"}
         /\ stage[r] \in {"up", "raising", "cancelled"}
         /\ \A q \in Requests \ {r} : /\ Reached(q)' = Reached(q) /\ Raising(q)' = Raising(q)
                                      /\ stage'[q] = stage[q]
<1>1. /\ stage[r] \in {"up", "raising", "cancelled"} /\ at[r] \in 1 .. N /\ built
      /\ at' = [at EXCEPT ![r] = at[r] - 1] /\ N \in Nat /\ task[r] \in Tasks
  BY DepthIs DEF Leaving, Outwards, Stages
<1>2. Layer(r) \in Layers /\ Depth(Layer(r)) = at[r]
  BY <1>1, LayerIs DEF Layer
<1>3. at[r] - 1 \in 0 .. N /\ at' \in [Requests -> 0 .. N + 1]
  BY <1>1 DEF Stages
<1>4. \A q \in Requests : at'[q] = IF q = r THEN at[r] - 1 ELSE at[q]
  BY <1>1 DEF Stages
<1>5. /\ stage' \in [Requests -> {"new", "down", "handler", "up", "raising", "cancelled", "done"}]
      /\ stage'[r] \in {"up", "raising", "cancelled"}
      /\ \A q \in Requests \ {r} : stage'[q] = stage[q]
  BY <1>1 DEF Stages
<1>6. Stages'
  BY <1>1, <1>3, <1>4, <1>5 DEF Stages
<1> QED BY <1>1, <1>2, <1>4, <1>5, <1>6 DEF Reached, Raising

(* ... and on the way back from as far as it came.                         *)
LEMMA TurnedBack ==
  ASSUME Boots, Stages, NEW r \in Requests, NEW s \in {"up", "raising", "cancelled"},
         OnTheWayDown(r) \/ stage[r] = "handler",
         stage' = [stage EXCEPT ![r] = s], at' = [at EXCEPT ![r] = @ - 1],
         UNCHANGED <<built, task>>
  PROVE  /\ Stages' /\ built /\ stage[r] \in {"down", "handler"} /\ stage'[r] = s
         /\ at[r] = Reached(r) + 1 /\ Reached(r) \in 0 .. N
         /\ stage[r] = "handler" => Reached(r) = N
         /\ \A q \in Requests : Reached(q)' = Reached(q)
         /\ \A q \in Requests \ {r} : Raising(q)' = Raising(q) /\ stage'[q] = stage[q]
<1>1. /\ stage[r] \in {"down", "handler"} /\ at[r] \in 1 .. N + 1 /\ built
      /\ at' = [at EXCEPT ![r] = at[r] - 1] /\ N \in Nat /\ task[r] \in Tasks
      /\ stage[r] = "handler" => at[r] = N + 1
  BY DepthIs, SMTT(30) DEF OnTheWayDown, Stages
<1>3. at[r] - 1 \in 0 .. N /\ at' \in [Requests -> 0 .. N + 1]
  BY <1>1 DEF Stages
<1>4. \A q \in Requests : at'[q] = IF q = r THEN at[r] - 1 ELSE at[q]
  BY <1>1 DEF Stages
<1>5. /\ stage' \in [Requests -> {"new", "down", "handler", "up", "raising", "cancelled", "done"}]
      /\ stage'[r] = s
      /\ \A q \in Requests \ {r} : stage'[q] = stage[q]
  BY <1>1 DEF Stages
<1>6. Stages'
  BY <1>1, <1>3, <1>4, <1>5 DEF Stages
<1> QED BY <1>1, <1>3, <1>4, <1>5, <1>6 DEF Reached, Raising

(* Past a layer, it is with the others as before.                          *)
LEMMA PastOne ==
  ASSUME NEW v \in Layers, NEW m \in Nat, NEW n \in Nat,
         (m + 1 = Depth(v) /\ n = m + 1) \/ (m = Depth(v) /\ n = m - 1)
  PROVE  \A w \in Layers \ {v} : (n < Depth(w)) = (m < Depth(w)) /\ (n >= Depth(w)) = (m >= Depth(w))
<1> TAKE w \in Layers \ {v}
<1>1. Depth(w) \in Nat /\ Depth(w) # Depth(v)
  BY DepthIs
<1> QED BY <1>1

LEMMA OtherLayers ==
  /\ "metrics" \in Layers /\ "metrics" \notin Vars /\ "maintenance" \notin Vars
  /\ Vars \subseteq Layers /\ {"request_id", "profiler"} \subseteq Vars
BY LayersAssumption, StackAssumption DEF Vars, ContextLayers

(* A layer binds its ContextVar, or unbinds it.                            *)
LEMMA ContextSet ==
  ASSUME Contexts, Stages, NEW r \in Requests, task[r] \in Tasks, NEW v \in Vars,
         NEW x \in {r, None}, context' = [context EXCEPT ![task[r]][v] = x],
         token' = token, task' = task, Own(r, v)',
         \A w \in Vars \ {v} : (Reached(r) < Depth(w))' = (Reached(r) < Depth(w)),
         \A q \in Requests \ {r} : Reached(q)' = Reached(q)
  PROVE  Contexts'
<1>1. context' \in [Tasks \cup {Worker} -> [Vars -> Requests \cup {None}]]
  BY DEF Contexts
<1>2. context'[task[r]] = [context[task[r]] EXCEPT ![v] = x]
      /\ \A t \in (Tasks \cup {Worker}) \ {task[r]} : context'[t] = context[t]
  BY DEF Contexts
<1>3. \A w \in Vars \ {v} : context'[task[r]][w] = context[task[r]][w]
  BY <1>2 DEF Contexts
<1>4. task[r] # None /\ \A q \in Requests \ {r} : task[q] # task[r]
  BY StackAssumption DEF Stages
<1>5. \A q \in Requests \ {r} : task[q] # None => task[q] \in (Tasks \cup {Worker}) \ {task[r]}
  BY <1>4 DEF Stages
<1>6. ASSUME NEW q \in Requests, task[q] # None, NEW w \in Vars  PROVE Own(q, w)'
  <2>1. Own(q, w)
    BY <1>6 DEF Contexts
  <2>2. CASE q # r
    BY <1>2, <1>5, <1>6, <2>1, <2>2 DEF Own, Depth
  <2>3. CASE q = r /\ w # v
    BY <1>3, <1>6, <2>1, <2>3 DEF Own
  <2> QED BY <2>2, <2>3
<1>7. ASSUME NEW t \in Tasks, \A q \in Requests : task[q] # t
      PROVE  \A w \in Vars : context'[t][w] = None
  <2>1. t # task[r]
    BY <1>7
  <2> QED BY <1>2, <1>7, <2>1 DEF Contexts
<1> QED BY <1>1, <1>6, <1>7 DEF Contexts

LEMMA StackEnterContext ==
  ASSUME StackInv, NEW r \in Requests, EnterContext(r)
  PROVE  StackInv'
<1>0. PICK v : v = Layer(r)
  OBVIOUS
<1>1. /\ OnTheWayDown(r) /\ Inwards(r) /\ v \in Vars
      /\ Bind(r, v, r) \/ (v \in Unresolved /\ Bind(r, v, None))
      /\ UNCHANGED <<booted, bootFailures, middleware, built, task, queries, told, stash,
                     raisedIn, report, gauge, counted, jobs, pushed>>
  BY <1>0 DEF EnterContext, application, exception, metrics, worker
<1>2. Boots /\ Stages /\ Contexts /\ Reports /\ Counts
  BY DEF StackInv
<1>3. /\ Stages' /\ stage[r] = "down" /\ task[r] \in Tasks /\ ~ Raising(r)
      /\ Depth(v) = Reached(r) + 1 /\ Reached(r) \in Nat /\ Reached(r)' = Reached(r) + 1
      /\ \A q \in Requests \ {r} : Reached(q)' = Reached(q)
      /\ \A q : Raising(q)' = Raising(q)
  BY <1>0, <1>1, <1>2, OneIn
<1>4. v \in Layers /\ \A w \in Layers \ {v} : /\ (Reached(r) < Depth(w))' = (Reached(r) < Depth(w))
                                   /\ (Reached(r) >= Depth(w))' = (Reached(r) >= Depth(w))
  <2>1. v \in Layers /\ Reached(r) + 1 \in Nat
    BY <1>1, <1>3, OtherLayers
  <2>2. \A w \in Layers \ {v} : /\ (Reached(r) + 1 < Depth(w)) = (Reached(r) < Depth(w))
                                /\ (Reached(r) + 1 >= Depth(w)) = (Reached(r) >= Depth(w))
    BY <1>3, <2>1, PastOne
  <2> QED BY <1>3, <2>1, <2>2 DEF Depth
<1>5. Contexts'
  <2>1. PICK x \in {r, None} : Bind(r, v, x) /\ (x = None => v \in Unresolved)
    BY <1>1, StackAssumption
  <2>2. context[task[r]][v] = None
    <3>1. Own(r, v) /\ task[r] # None
      BY <1>1, <1>2, <1>3, StackAssumption DEF Contexts
    <3> QED BY <1>3, <3>1 DEF Own
  <2>3. token' = token
    <3>1. token = [q \in Requests |-> Blank] /\ token' = [token EXCEPT ![r][v] = None]
      BY <1>2, <2>1, <2>2 DEF Contexts, Bind
    <3> QED BY <1>1, <3>1 DEF Blank
  <2>4. context' = [context EXCEPT ![task[r]][v] = x]
    BY <2>1 DEF Bind
  <2>5. Own(r, v)'
    <3>1. context'[task'[r]][v] = x
      BY <1>1, <1>2, <1>3, <2>4 DEF Contexts
    <3>2. ~ (Reached(r)' < Depth(v))
      BY <1>3
    <3> QED BY <2>1, <3>1, <3>2 DEF Own, Depth
  <2> QED BY <1>1, <1>2, <1>3, <1>4, <2>3, <2>4, <2>5, ContextSet, OtherLayers
<1>6. Reports'
  BY <1>1, <1>2, <1>3, SameReports DEF Inwards
<1>7. Counts'
  <2>1. v # "metrics" /\ "metrics" \in Layers
    BY <1>1, OtherLayers
  <2>2. \A q \in Requests : (Reached(q) >= Depth("metrics"))' = (Reached(q) >= Depth("metrics"))
    BY <1>3, <1>4, <2>1 DEF Depth
  <2> QED BY <1>1, <1>2, <2>2, SameCounts DEF Inwards
<1> QED BY <1>1, <1>2, <1>3, <1>5, <1>6, <1>7, SameBoots DEF StackInv, application

LEMMA StackLeaveContext ==
  ASSUME StackInv, NEW r \in Requests, LeaveContext(r)
  PROVE  StackInv'
<1>0. PICK v : v = Layer(r)
  OBVIOUS
<1>1. /\ Leaving(r) /\ v \in Vars /\ Unbind(r, v) /\ Stash(r) /\ Outwards(r)
      /\ \/ UNCHANGED <<stage, raisedIn>>
         \/ /\ v = "session" /\ stage[r] = "up" /\ told[r] = "ok"
            /\ stage' = [stage EXCEPT ![r] = "raising"]
            /\ raisedIn' = [raisedIn EXCEPT ![r] = at[r]]
      /\ UNCHANGED <<booted, bootFailures, middleware, built, task, queries, told,
                     report, gauge, counted, jobs, pushed>>
  BY <1>0 DEF LeaveContext, application, metrics, worker
<1>2. Boots /\ Stages /\ Contexts /\ Reports /\ Counts
  BY DEF StackInv
<1>3. /\ Stages' /\ task[r] \in Tasks /\ at[r] = Reached(r)
      /\ Depth(v) = Reached(r) /\ Reached(r) \in Nat /\ Reached(r)' = Reached(r) - 1
      /\ stage'[r] \in {"up", "raising", "cancelled"}
      /\ stage[r] \in {"up", "raising", "cancelled"}
      /\ \A q \in Requests \ {r} : /\ Reached(q)' = Reached(q) /\ Raising(q)' = Raising(q)
                                   /\ stage'[q] = stage[q]
  BY <1>0, <1>1, <1>2, OneOut
<1>4. v \in Layers /\ \A w \in Layers \ {v} : /\ (Reached(r) < Depth(w))' = (Reached(r) < Depth(w))
                                   /\ (Reached(r) >= Depth(w))' = (Reached(r) >= Depth(w))
  <2>1. v \in Layers /\ Reached(r) - 1 \in Nat
    BY <1>1, <1>3, OtherLayers, DepthIs
  <2>2. \A w \in Layers \ {v} : /\ (Reached(r) - 1 < Depth(w)) = (Reached(r) < Depth(w))
                                /\ (Reached(r) - 1 >= Depth(w)) = (Reached(r) >= Depth(w))
    BY <1>3, <2>1, PastOne
  <2> QED BY <1>3, <2>1, <2>2 DEF Depth
<1>5. Contexts'
  <2>1. token[r][v] = None /\ token[r] = Blank
    BY <1>1, <1>2 DEF Contexts, Blank
  <2>2. token' = token
    BY <1>1, <1>2, <2>1 DEF Contexts, Blank, Unbind
  <2>3. context' = [context EXCEPT ![task[r]][v] = None]
    BY <1>1, <2>1 DEF Unbind
  <2>4. Own(r, v)'
    <3>1. context'[task'[r]][v] = None
      BY <1>1, <1>2, <1>3, <2>3 DEF Contexts
    <3>2. Reached(r)' < Depth(v)
      BY <1>3
    <3> QED BY <3>1, <3>2 DEF Own, Depth
  <2> QED BY <1>1, <1>2, <1>3, <1>4, <2>2, <2>3, <2>4, ContextSet, OtherLayers
<1>6. Reports'
  <2> DEFINE id == "request_id"
             pr == "profiler"
  <2>1. /\ id \in Layers /\ pr \in Layers /\ Depth(id) \in Nat /\ Depth(pr) \in Nat
        /\ None \notin Requests /\ Depth(id)' = Depth(id) /\ Depth(pr)' = Depth(pr)
        /\ at[r] \in 0 .. N + 1
    <3>1. id \in Layers /\ pr \in Layers
      BY OtherLayers
    <3>2. Depth(id)' = Depth(id) /\ Depth(pr)' = Depth(pr)
      BY DEF Depth
    <3>3. None \notin Requests /\ at[r] \in 0 .. N + 1
      BY <1>2, StackAssumption DEF Stages
    <3> QED BY <3>1, <3>2, <3>3, DepthIs
  <2>2. stash[r] \in Facts /\ queries[r] \in SUBSET (Requests \cup Jobs) /\ queries[r] \cap Requests \subseteq {r}
        /\ queries[r] # None
    BY <1>2, LayersAssumption DEF Reports
  <2>3. PICK f : /\ stash' = [stash EXCEPT ![r] = f]
                 /\ f = IF ~ Raising(r) THEN stash[r]
                        ELSE IF v = id THEN [stash[r] EXCEPT !.id = r]
                        ELSE IF v = pr THEN [stash[r] EXCEPT !.queries = queries[r]]
                        ELSE stash[r]
    BY <1>0, <1>1 DEF Stash
  <2>4. f \in Facts
    BY <2>2, <2>3 DEF Facts
  <2>5. /\ ~ Raising(r) => f = stash[r]
        /\ Raising(r) => /\ f.id = IF v = id THEN r ELSE stash[r].id
                         /\ f.queries = IF v = pr THEN queries[r] ELSE stash[r].queries
    BY <2>2, <2>3 DEF Facts
  <2>6. raisedIn' \in [Requests -> 0 .. N + 1] /\ \A q \in Requests \ {r} : raisedIn'[q] = raisedIn[q]
    BY <1>1, <1>2, <2>1 DEF Reports
  <2>7. CASE Raising(r)
    <3>1. stage' = stage /\ raisedIn' = raisedIn /\ Raising(r)'
      BY <1>1, <2>7 DEF Raising
    <3>2. Reached(r) < raisedIn[r] /\ LeftOn(r) /\ raisedIn[r] \in Nat
      BY <1>2, <2>7, DepthIs DEF Reports
    <3>3. stash'[r] = f
      BY <1>2, <2>3 DEF Reports
    <3>4. /\ f.id = IF Reached(r) - 1 < Depth(id) /\ raisedIn[r] > Depth(id) THEN r ELSE None
          /\ IF Reached(r) - 1 < Depth(pr) /\ raisedIn[r] > Depth(pr)
             THEN f.queries # None /\ f.queries \cap Requests \subseteq {r} ELSE f.queries = None
      <4>1. v # id => Depth(v) # Depth(id)
        BY <1>4, <2>1, DepthIs
      <4>2. v # pr => Depth(v) # Depth(pr)
        BY <1>4, <2>1, DepthIs
      <4>3. f.id = IF Reached(r) - 1 < Depth(id) /\ raisedIn[r] > Depth(id) THEN r ELSE None
        <5>1. CASE v = id
          BY <1>3, <2>1, <2>5, <2>7, <3>2, <5>1
        <5>2. CASE v # id
          <6>1. (Reached(r) - 1 < Depth(id)) <=> (Reached(r) < Depth(id))
            BY <1>3, <2>1, <4>1, <5>2
          <6> QED BY <2>5, <2>7, <3>2, <5>2, <6>1 DEF LeftOn, Came
        <5> QED BY <5>1, <5>2
      <4>4. IF Reached(r) - 1 < Depth(pr) /\ raisedIn[r] > Depth(pr)
            THEN f.queries # None /\ f.queries \cap Requests \subseteq {r} ELSE f.queries = None
        <5>1. CASE v = pr
          BY <1>3, <2>1, <2>2, <2>5, <2>7, <3>2, <5>1
        <5>2. CASE v # pr
          <6>1. (Reached(r) - 1 < Depth(pr)) <=> (Reached(r) < Depth(pr))
            BY <1>3, <2>1, <4>2, <5>2
          <6> QED BY <2>5, <2>7, <3>2, <5>2, <6>1 DEF LeftOn, Came
        <5> QED BY <5>1, <5>2
      <4> QED BY <4>3, <4>4
    <3>5. (Reached(r) < raisedIn[r] /\ LeftOn(r))'
      <4>1. Reached(r)' < raisedIn'[r]
        BY <1>3, <3>1, <3>2
      <4>2. LeftOn(r)'
        BY <1>3, <2>1, <3>1, <3>3, <3>4 DEF LeftOn, Came
      <4> QED BY <4>1, <4>2
    <3>6. \A q \in Requests \ {r} : stash'[q] = stash[q] /\ LeftOn(q)' = LeftOn(q)
      <4>1. \A q \in Requests \ {r} : stash'[q] = stash[q]
        BY <1>2, <2>3 DEF Reports
      <4> QED BY <1>3, <3>1, <4>1 DEF LeftOn, Came, Depth
    <3>7. \A q \in Requests : IF Raising(q)' THEN (Reached(q) < raisedIn[q] /\ LeftOn(q))'
                                             ELSE stash'[q] = Nothing
      BY <1>2, <1>3, <3>1, <3>5, <3>6 DEF Reports
    <3>8. stash' \in [Requests -> Facts]
      BY <1>2, <2>3, <2>4 DEF Reports
    <3>9. ReportIsOwn'
      BY <1>1, <1>2, <3>1 DEF Reports, ReportIsOwn, Depth
    <3> QED BY <1>1, <1>2, <2>6, <3>1, <3>7, <3>8, <3>9 DEF Reports, Nothing
  <2>8. CASE ~ Raising(r)
    <3>1. stash' = stash /\ stash[r] = Nothing /\ stage[r] = "up"
      BY <1>2, <1>3, <2>3, <2>5, <2>8 DEF Reports, Raising
    <3>2. Raising(r)' => raisedIn'[r] = at[r] /\ Reached(r)' < at[r]
      BY <1>1, <1>2, <1>3, <2>1, <2>8 DEF Raising, Reports
    <3>3. ASSUME Raising(r)'  PROVE (Reached(r) < raisedIn[r] /\ LeftOn(r))'
      <4>1. raisedIn'[r] = Reached(r) /\ Reached(r)' = Reached(r) - 1
        BY <1>3, <3>2, <3>3
      <4>2. ~ (Reached(r)' < Depth(id) /\ raisedIn'[r] > Depth(id))
        BY <1>3, <2>1, <4>1
      <4>3. ~ (Reached(r)' < Depth(pr) /\ raisedIn'[r] > Depth(pr))
        BY <1>3, <2>1, <4>1
      <4>4. stash'[r].id = None /\ stash'[r].queries = None
        BY <3>1 DEF Nothing
      <4> QED BY <1>3, <2>1, <4>1, <4>2, <4>3, <4>4 DEF LeftOn, Came
    <3>4. \A q \in Requests \ {r} : LeftOn(q)' = LeftOn(q)
      BY <1>3, <2>6, <3>1 DEF LeftOn, Came, Depth
    <3>5. \A q \in Requests : IF Raising(q)' THEN (Reached(q) < raisedIn[q] /\ LeftOn(q))'
                                             ELSE stash'[q] = Nothing
      BY <1>2, <1>3, <2>6, <3>1, <3>3, <3>4 DEF Reports
    <3>6. \A q \in Requests : report[q] # None => q # r /\ stage'[q] = "done"
      BY <1>2, <1>3, <3>1 DEF Reports
    <3>7. ReportIsOwn'
      BY <1>1, <1>2, <2>6, <3>6 DEF Reports, ReportIsOwn, Depth
    <3> QED BY <1>1, <1>2, <2>6, <3>1, <3>5, <3>6, <3>7 DEF Reports, Nothing
  <2> QED BY <2>7, <2>8
<1>7. Counts'
  <2>1. v # "metrics" /\ "metrics" \in Layers
    BY <1>1, OtherLayers
  <2>2. \A q \in Requests : (Reached(q) >= Depth("metrics"))' = (Reached(q) >= Depth("metrics"))
    BY <1>3, <1>4, <2>1 DEF Depth
  <2>3. InMetrics' = InMetrics
    BY <2>2 DEF InMetrics
  <2>4. \A q \in Requests : q = r \/ stage'[q] = stage[q]
    BY <1>3
  <2> QED BY <1>1, <1>2, <1>3, <2>3, <2>4 DEF Counts, CountOf
<1> QED BY <1>1, <1>2, <1>3, <1>5, <1>6, <1>7, SameBoots DEF StackInv, application

LEMMA StackEnterMetrics ==
  ASSUME StackInv, NEW r \in Requests, EnterMetrics(r)
  PROVE  StackInv'
<1>0. PICK v : v = Layer(r)
  OBVIOUS
<1>1. /\ OnTheWayDown(r) /\ Inwards(r) /\ v = "metrics" /\ gauge' = gauge + 1
      /\ UNCHANGED <<booted, bootFailures, middleware, built, task, context, token, queries,
                     told, stash, raisedIn, report, counted, jobs, pushed>>
  BY <1>0 DEF EnterMetrics, application, exception, worker
<1>2. Boots /\ Stages /\ Contexts /\ Reports /\ Counts
  BY DEF StackInv
<1>3. /\ Stages' /\ stage[r] = "down" /\ task[r] \in Tasks /\ ~ Raising(r)
      /\ Depth(v) = Reached(r) + 1 /\ Reached(r) \in Nat /\ Reached(r)' = Reached(r) + 1
      /\ \A q \in Requests \ {r} : Reached(q)' = Reached(q)
      /\ \A q : Raising(q)' = Raising(q)
  BY <1>0, <1>1, <1>2, OneIn
<1>4. \A w \in Vars : (Reached(r) < Depth(w))' = (Reached(r) < Depth(w))
  <2>1. v \in Layers /\ Reached(r) + 1 \in Nat /\ Vars \subseteq Layers \ {v}
    BY <1>1, <1>3, OtherLayers
  <2>2. \A w \in Layers \ {v} : (Reached(r) + 1 < Depth(w)) = (Reached(r) < Depth(w))
    BY <1>3, <2>1, PastOne
  <2> QED BY <1>3, <2>1, <2>2 DEF Depth
<1>5. Contexts'
  <2>1. \A q \in Requests : \A w \in Vars : (Reached(q) < Depth(w))' = (Reached(q) < Depth(w))
    BY <1>3, <1>4 DEF Depth
  <2> QED BY <1>1, <1>2, <2>1, SameContexts
<1>6. Reports'
  BY <1>1, <1>2, <1>3, SameReports DEF Inwards
<1>7. Counts'
  <2>1. InMetrics' = InMetrics \cup {r} /\ r \notin InMetrics
    <3>1. Depth("metrics") = Reached(r) + 1 /\ Depth("metrics")' = Depth("metrics")
      BY <1>1, <1>3 DEF Depth
    <3> QED BY <1>3, <3>1 DEF InMetrics
  <2>2. IsFiniteSet(InMetrics)
    BY LayersAssumption, FS_Subset DEF InMetrics
  <2>3. gauge' = Cardinality(InMetrics')
    BY <1>1, <1>2, <2>1, <2>2, FS_AddElement DEF Counts
  <2>4. stage' = stage /\ counted[r] = <<>> /\ told[r] = None
    BY <1>1, <1>2, <1>3 DEF Counts, Inwards
  <2> QED BY <1>1, <1>2, <1>3, <2>1, <2>3, <2>4 DEF Counts, CountOf
<1> QED BY <1>1, <1>2, <1>3, <1>5, <1>6, <1>7, SameBoots DEF StackInv, application

LEMMA StackLeaveMetrics ==
  ASSUME StackInv, NEW r \in Requests, LeaveMetrics(r)
  PROVE  StackInv'
<1>0. PICK v : v = Layer(r)
  OBVIOUS
<1>1. /\ Leaving(r) /\ Outwards(r) /\ v = "metrics" /\ gauge' = gauge - 1
      /\ counted' = [counted EXCEPT
           ![r] = Append(counted[r], IF told[r] = None THEN "crash" ELSE told[r])]
      /\ UNCHANGED <<booted, bootFailures, middleware, built, stage, task, context, token,
                     queries, told, stash, raisedIn, report, jobs, pushed>>
  BY <1>0 DEF LeaveMetrics, application, exception, worker
<1>2. Boots /\ Stages /\ Contexts /\ Reports /\ Counts
  BY DEF StackInv
<1>3. /\ Stages' /\ Depth(v) = Reached(r) /\ Reached(r) \in Nat /\ Reached(r)' = Reached(r) - 1
      /\ stage[r] \in {"up", "raising", "cancelled"}
      /\ \A q \in Requests \ {r} : Reached(q)' = Reached(q)
  BY <1>0, <1>1, <1>2, OneOut
<1>4. \A w \in Layers \ {v} : (Reached(r) < Depth(w))' = (Reached(r) < Depth(w))
  <2>1. v \in Layers /\ Reached(r) - 1 \in Nat
    BY <1>1, <1>3, OtherLayers, DepthIs
  <2>2. \A w \in Layers \ {v} : (Reached(r) - 1 < Depth(w)) = (Reached(r) < Depth(w))
    BY <1>3, <2>1, PastOne
  <2> QED BY <1>3, <2>2 DEF Depth
<1>5. Contexts'
  <2>1. Vars \subseteq Layers \ {v}
    BY <1>1, OtherLayers
  <2>2. \A q \in Requests : \A w \in Vars : (Reached(q) < Depth(w))' = (Reached(q) < Depth(w))
    BY <1>3, <1>4, <2>1 DEF Depth
  <2> QED BY <1>1, <1>2, <2>2, SameContexts
<1>6. Reports'
  <2>1. \A q \in Requests : Raising(q)' = Raising(q)
    BY <1>1 DEF Raising
  <2>2. \A w \in {"request_id", "profiler"} :
          (Reached(r) < Depth(w))' = (Reached(r) < Depth(w))
    BY <1>1, <1>4, OtherLayers
  <2>3. \A q \in Requests : LeftOn(q)' = LeftOn(q)
    <3> TAKE q \in Requests
    <3>1. CASE q = r
      <4>1. \A w \in {"request_id", "profiler"} : Came(r, w)' = Came(r, w)
        BY <1>1, <2>2 DEF Came, Depth
      <4> QED BY <1>1, <3>1, <4>1 DEF LeftOn
    <3>2. CASE q # r
      BY <1>1, <1>3, <3>2 DEF LeftOn, Came, Depth
    <3> QED BY <3>1, <3>2
  <2>4. \A q \in Requests : IF Raising(q)' THEN (Reached(q) < raisedIn[q] /\ LeftOn(q))'
                                           ELSE stash'[q] = Nothing
    <3> TAKE q \in Requests
    <3>1. raisedIn[q] \in Nat /\ raisedIn'[q] = raisedIn[q]
      BY <1>1, <1>2, DepthIs DEF Reports
    <3>2. Reached(q) < raisedIn[q] => Reached(q)' < raisedIn'[q]
      BY <1>3, <3>1
    <3> QED BY <1>1, <1>2, <2>1, <2>3, <3>2 DEF Reports
  <2>5. ReportIsOwn'
    BY <1>1, <1>2 DEF Reports, ReportIsOwn, Depth
  <2> QED BY <1>1, <1>2, <2>1, <2>4, <2>5 DEF Reports, Nothing
<1>7. Counts'
  <2>1. InMetrics' = InMetrics \ {r} /\ r \in InMetrics
    <3>1. Depth("metrics") = Reached(r) /\ Depth("metrics")' = Depth("metrics")
      BY <1>1, <1>3 DEF Depth
    <3> QED BY <1>3, <3>1 DEF InMetrics
  <2>2. IsFiniteSet(InMetrics)
    BY LayersAssumption, FS_Subset DEF InMetrics
  <2>3. gauge' = Cardinality(InMetrics')
    BY <1>1, <1>2, <2>1, <2>2, FS_RemoveElement DEF Counts
  <2>4. counted[r] = <<>>
    BY <1>2, <2>1 DEF Counts
  <2>5. (IF told[r] = None THEN "crash" ELSE told[r]) \in Statuses
    BY <1>2 DEF Counts, Statuses
  <2>6. counted'[r] = CountOf(r) /\ \A q \in Requests \ {r} : counted'[q] = counted[q]
    <3>1. Append(counted[r], IF told[r] = None THEN "crash" ELSE told[r]) = CountOf(r)
      BY <2>4 DEF CountOf
    <3> QED BY <1>1, <1>2, <3>1 DEF Counts
  <2>7. CountOf(r) \in Seq(Statuses) /\ CountOf(r) # <<>>
    BY <2>5 DEF CountOf
  <2>8. counted' \in [Requests -> Seq(Statuses)]
    BY <1>1, <1>2, <2>6, <2>7 DEF Counts
  <2>9. \A q \in Requests : CountOf(q)' = CountOf(q)
    BY <1>1 DEF CountOf
  <2> QED BY <1>1, <1>2, <1>3, <2>1, <2>3, <2>6, <2>7, <2>8, <2>9 DEF Counts
<1> QED BY <1>1, <1>2, <1>3, <1>5, <1>6, <1>7, SameBoots DEF StackInv, application

LEMMA StackLeaveMaintenance ==
  ASSUME StackInv, NEW r \in Requests, LeaveMaintenance(r)
  PROVE  StackInv'
<1>0. PICK v : v = Layer(r)
  OBVIOUS
<1>1. /\ Leaving(r) /\ Outwards(r) /\ v = "maintenance"
      /\ UNCHANGED <<booted, bootFailures, middleware, built, stage, task, context, token,
                     queries, told, stash, raisedIn, report, jobs, pushed, gauge, counted>>
  BY <1>0 DEF LeaveMaintenance, application, exception, worker, metrics
<1>2. Boots /\ Stages /\ Contexts /\ Reports /\ Counts
  BY DEF StackInv
<1>3. /\ Stages' /\ Depth(v) = Reached(r) /\ Reached(r) \in Nat /\ Reached(r)' = Reached(r) - 1
      /\ stage[r] \in {"up", "raising", "cancelled"} /\ v \in Layers
      /\ \A q \in Requests \ {r} : Reached(q)' = Reached(q)
  BY <1>0, <1>1, <1>2, OneOut
<1>4. \A w \in Layers \ {v} : /\ (Reached(r) < Depth(w))' = (Reached(r) < Depth(w))
                              /\ (Reached(r) >= Depth(w))' = (Reached(r) >= Depth(w))
  <2>1. v \in Layers /\ Reached(r) - 1 \in Nat
    BY <1>1, <1>3, OtherLayers, DepthIs
  <2>2. \A w \in Layers \ {v} : /\ (Reached(r) - 1 < Depth(w)) = (Reached(r) < Depth(w))
                                /\ (Reached(r) - 1 >= Depth(w)) = (Reached(r) >= Depth(w))
    BY <1>3, <2>1, PastOne
  <2> QED BY <1>3, <2>2 DEF Depth
<1>5. Contexts'
  <2>1. Vars \subseteq Layers \ {v}
    BY <1>1, OtherLayers
  <2>2. \A q \in Requests : \A w \in Vars : (Reached(q) < Depth(w))' = (Reached(q) < Depth(w))
    BY <1>3, <1>4, <2>1 DEF Depth
  <2> QED BY <1>1, <1>2, <2>2, SameContexts
<1>6. Reports'
  <2>1. \A q \in Requests : Raising(q)' = Raising(q)
    BY <1>1 DEF Raising
  <2>2. \A w \in {"request_id", "profiler"} :
          (Reached(r) < Depth(w))' = (Reached(r) < Depth(w))
    BY <1>1, <1>4, OtherLayers
  <2>3. \A q \in Requests : LeftOn(q)' = LeftOn(q)
    <3> TAKE q \in Requests
    <3>1. CASE q = r
      <4>1. \A w \in {"request_id", "profiler"} : Came(r, w)' = Came(r, w)
        BY <1>1, <2>2 DEF Came, Depth
      <4> QED BY <1>1, <3>1, <4>1 DEF LeftOn
    <3>2. CASE q # r
      BY <1>1, <1>3, <3>2 DEF LeftOn, Came, Depth
    <3> QED BY <3>1, <3>2
  <2>4. \A q \in Requests : IF Raising(q)' THEN (Reached(q) < raisedIn[q] /\ LeftOn(q))'
                                           ELSE stash'[q] = Nothing
    <3> TAKE q \in Requests
    <3>1. raisedIn[q] \in Nat /\ raisedIn'[q] = raisedIn[q]
      BY <1>1, <1>2, DepthIs DEF Reports
    <3>2. Reached(q) < raisedIn[q] => Reached(q)' < raisedIn'[q]
      BY <1>3, <3>1
    <3> QED BY <1>1, <1>2, <2>1, <2>3, <3>2 DEF Reports
  <2>5. ReportIsOwn'
    BY <1>1, <1>2 DEF Reports, ReportIsOwn, Depth
  <2> QED BY <1>1, <1>2, <2>1, <2>4, <2>5 DEF Reports, Nothing
<1>7. Counts'
  <2>1. \A q \in Requests : (Reached(q) >= Depth("metrics"))' = (Reached(q) >= Depth("metrics"))
    BY <1>1, <1>3, <1>4, OtherLayers DEF Depth
  <2> QED BY <1>1, <1>2, <2>1, SameCounts
<1> QED BY <1>1, <1>2, <1>3, <1>5, <1>6, <1>7, SameBoots DEF StackInv, application

LEMMA TurnedReports ==
  ASSUME Reports, Stages, NEW r \in Requests, NEW s \in {"up", "raising", "cancelled"},
         stage[r] \in {"down", "handler"}, stage'[r] = s,
         at[r] = Reached(r) + 1, Reached(r) \in 0 .. N,
         \A q \in Requests : Reached(q)' = Reached(q),
         \A q \in Requests \ {r} : Raising(q)' = Raising(q) /\ stage'[q] = stage[q],
         UNCHANGED <<queries, stash, report, jobs, pushed>>,
         raisedIn' = IF s = "up" THEN raisedIn ELSE [raisedIn EXCEPT ![r] = at[r]]
  PROVE  Reports'
<1>1. /\ \A q \in Requests \ {r} : raisedIn'[q] = raisedIn[q]
      /\ raisedIn' \in [Requests -> 0 .. N + 1]
  BY DEF Reports, Stages
<1>2. \A q \in Requests \ {r} : LeftOn(q)' = LeftOn(q)
  BY <1>1 DEF LeftOn, Came, Depth
<1>3. stash'[r] = Nothing /\ ~ Raising(r)
  BY DEF Reports, Raising
<1>4. ASSUME Raising(r)'  PROVE (Reached(r) < raisedIn[r] /\ LeftOn(r))'
  <2>1. raisedIn'[r] = Reached(r) + 1 /\ Reached(r) \in Nat /\ Reached(r)' = Reached(r)
    BY <1>4, DepthIs DEF Raising, Reports
  <2>2. \A v : Depth(v)' = Depth(v)
    BY DEF Depth
  <2>3. \A v \in {"request_id", "profiler"} : ~ (Came(r, v)')
    <3>1. \A v \in {"request_id", "profiler"} : Depth(v) \in Nat
      BY OtherLayers, DepthIs
    <3> QED BY <2>1, <2>2, <3>1 DEF Came
  <2> QED BY <1>3, <2>1, <2>3 DEF LeftOn, Nothing
<1>5. \A q \in Requests : report[q] # None => q # r /\ stage'[q] = "done"
  BY DEF Reports
<1>6. ReportIsOwn'
  BY <1>1, <1>5 DEF Reports, ReportIsOwn, Depth
<1>7. \A q \in Requests : IF Raising(q)' THEN (Reached(q) < raisedIn[q] /\ LeftOn(q))'
                                         ELSE stash'[q] = Nothing
  BY <1>1, <1>2, <1>3, <1>4 DEF Reports
<1> QED BY <1>1, <1>5, <1>6, <1>7 DEF Reports, Nothing

LEMMA TurnedCounts ==
  ASSUME Counts, NEW r \in Requests, NEW x \in Statuses \cup {None},
         stage[r] \in {"down", "handler"}, stage'[r] \in {"up", "raising", "cancelled"},
         \A q \in Requests : Reached(q)' = Reached(q),
         \A q \in Requests \ {r} : stage'[q] = stage[q],
         UNCHANGED <<gauge, counted>>, told' = [told EXCEPT ![r] = x],
         x \in {"ok", "error"} => r \in InMetrics
  PROVE  Counts'
<1>1. InMetrics' = InMetrics
  BY DEF InMetrics, Depth
<1>2. counted[r] = <<>>
  BY DEF Counts
<1>3. told'[r] = x /\ \A q \in Requests \ {r} : told'[q] = told[q] /\ CountOf(q)' = CountOf(q)
  BY DEF Counts, CountOf
<1>4. told' \in [Requests -> Statuses \cup {None}]
  BY DEF Counts
<1> QED BY <1>1, <1>2, <1>3, <1>4 DEF Counts

(* Steps that turn a request back.                                         *)
LEMMA StackTurns ==
  ASSUME StackInv, NEW r \in Requests,
         ResolverRaises(r) \/ Return(r) \/ FinishResponse(r) \/ Raise(r)
  PROVE  StackInv'
<1>1. Boots /\ Stages /\ Contexts /\ Reports /\ Counts
  BY DEF StackInv
<1>2. /\ UNCHANGED <<booted, bootFailures, middleware, built, task, context, token,
                     queries, stash, report, jobs, pushed, gauge, counted>>
      /\ at' = [at EXCEPT ![r] = @ - 1]
  BY DEF ResolverRaises, Return, FinishResponse, Raise, Answer, application, exception, worker, metrics
<1>3. PICK s \in {"up", "raising", "cancelled"} :
        /\ stage' = [stage EXCEPT ![r] = s]
        /\ raisedIn' = IF s = "up" THEN raisedIn ELSE [raisedIn EXCEPT ![r] = at[r]]
  BY DEF ResolverRaises, Return, FinishResponse, Raise, Answer, exception
<1>4. OnTheWayDown(r) \/ stage[r] = "handler"
  BY DEF ResolverRaises, Return, FinishResponse, Raise
<1>5. /\ Stages' /\ stage[r] \in {"down", "handler"} /\ stage'[r] = s
      /\ at[r] = Reached(r) + 1 /\ Reached(r) \in 0 .. N
      /\ stage[r] = "handler" => Reached(r) = N
      /\ \A q \in Requests : Reached(q)' = Reached(q)
      /\ \A q \in Requests \ {r} : Raising(q)' = Raising(q) /\ stage'[q] = stage[q]
  BY <1>1, <1>2, <1>3, <1>4, TurnedBack
<1>6. PICK x \in Statuses \cup {None} :
        /\ told' = [told EXCEPT ![r] = x]
        /\ stage[r] = "handler" \/ x = None
  <2>1. CASE ResolverRaises(r)
    <3>1. told[r] = None /\ told' = [told EXCEPT ![r] = told[r]]
      BY <1>1, <2>1 DEF ResolverRaises, OnTheWayDown, Counts
    <3> QED BY <3>1
  <2>2. CASE Return(r)
    BY <2>2 DEF Return, Answer, Respond, Statuses
  <2>3. CASE FinishResponse(r) \/ Raise(r)
    <3>1. stage[r] = "handler" /\ told' = told
      BY <2>3 DEF FinishResponse, Raise
    <3>2. told[r] \in Statuses \cup {None} /\ told' = [told EXCEPT ![r] = told[r]]
      BY <1>1, <3>1 DEF Counts
    <3> QED BY <3>1, <3>2
  <2> QED BY <2>1, <2>2, <2>3
<1>7. Contexts'
  BY <1>1, <1>2, <1>5, SameContexts DEF Depth
<1>8. Reports'
  BY <1>1, <1>2, <1>3, <1>5, TurnedReports
<1>9. Counts'
  <2>1. x \in {"ok", "error"} => r \in InMetrics
    BY <1>5, <1>6, DepthIs, LayersAssumption DEF InMetrics
  <2> QED BY <1>1, <1>2, <1>5, <1>6, <2>1, TurnedCounts
<1> QED BY <1>1, <1>2, <1>5, <1>7, <1>8, <1>9, SameBoots DEF StackInv, application

LEMMA StackEnterMaintenance ==
  ASSUME StackInv, NEW r \in Requests, EnterMaintenance(r)
  PROVE  StackInv'
<1>0. PICK v : v = Layer(r)
  OBVIOUS
<1>1. Boots /\ Stages /\ Contexts /\ Reports /\ Counts
  BY DEF StackInv
<1>2. /\ UNCHANGED <<booted, bootFailures, middleware, built, task, context, token,
                     queries, stash, raisedIn, report, jobs, pushed, gauge, counted>>
      /\ OnTheWayDown(r) /\ v = "maintenance"
  BY <1>0 DEF EnterMaintenance, application, exception, worker, metrics
<1>3. CASE Inwards(r) /\ told' = told
  <2>1. /\ Stages' /\ stage[r] = "down" /\ ~ Raising(r) /\ v \in Layers
        /\ Depth(v) = Reached(r) + 1 /\ Reached(r) \in Nat /\ Reached(r)' = Reached(r) + 1
        /\ \A q \in Requests \ {r} : Reached(q)' = Reached(q)
        /\ \A q : Raising(q)' = Raising(q)
    BY <1>0, <1>1, <1>2, <1>3, OneIn
  <2>2. \A w \in Layers \ {v} : /\ (Reached(r) < Depth(w))' = (Reached(r) < Depth(w))
                                /\ (Reached(r) >= Depth(w))' = (Reached(r) >= Depth(w))
    <3>1. Reached(r) + 1 \in Nat
      BY <2>1
    <3>2. \A w \in Layers \ {v} : /\ (Reached(r) + 1 < Depth(w)) = (Reached(r) < Depth(w))
                                  /\ (Reached(r) + 1 >= Depth(w)) = (Reached(r) >= Depth(w))
      BY <2>1, <3>1, PastOne
    <3> QED BY <2>1, <3>2 DEF Depth
  <2>3. Vars \subseteq Layers \ {v} /\ "metrics" \in Layers \ {v}
    BY <1>2, OtherLayers
  <2>4. \A q \in Requests : \A w \in Layers \ {v} :
          /\ (Reached(q) < Depth(w))' = (Reached(q) < Depth(w))
          /\ (Reached(q) >= Depth(w))' = (Reached(q) >= Depth(w))
    BY <2>1, <2>2 DEF Depth
  <2>5. Contexts'
    BY <1>1, <1>2, <2>3, <2>4, SameContexts
  <2>6. Reports'
    BY <1>1, <1>2, <1>3, <2>1, SameReports DEF Inwards
  <2>7. Counts'
    BY <1>1, <1>2, <1>3, <2>3, <2>4, SameCounts DEF Inwards
  <2> QED BY <1>1, <1>2, <2>1, <2>5, <2>6, <2>7, SameBoots DEF StackInv, application
<1>4. CASE Answer(r, "down") \/ Answer(r, "redirect")
  <2>1. PICK x \in {"down", "redirect"} :
          /\ told' = [told EXCEPT ![r] = x] /\ stage' = [stage EXCEPT ![r] = "up"]
          /\ at' = [at EXCEPT ![r] = @ - 1]
    BY <1>4 DEF Answer, Respond
  <2>2. /\ Stages' /\ stage[r] \in {"down", "handler"} /\ stage'[r] = "up"
        /\ at[r] = Reached(r) + 1 /\ Reached(r) \in 0 .. N
        /\ \A q \in Requests : Reached(q)' = Reached(q)
        /\ \A q \in Requests \ {r} : Raising(q)' = Raising(q) /\ stage'[q] = stage[q]
    BY <1>1, <1>2, <2>1, TurnedBack
  <2>3. Contexts'
    BY <1>1, <1>2, <2>2, SameContexts DEF Depth
  <2>4. Reports'
    BY <1>1, <1>2, <2>2, TurnedReports
  <2>5. Counts'
    BY <1>1, <1>2, <2>1, <2>2, TurnedCounts DEF Statuses
  <2> QED BY <1>1, <1>2, <2>2, <2>3, <2>4, <2>5, SameBoots DEF StackInv, application
<1> QED BY <1>3, <1>4 DEF EnterMaintenance

LEMMA Booting ==
  ASSUME Boots, NEW k \in booted .. N, Boot(k)
  PROVE  Boots'
<1>1. /\ booted \in 0 .. N /\ N \in Nat /\ middleware \in Seq(Layers) /\ Len(middleware) = booted
      /\ \A i \in 1 .. booted : middleware[i] = Providers[booted + 1 - i]
      /\ booted' = k /\ built' = (k = N) /\ k \in 0 .. N
  <2>1. N \in Nat /\ booted \in 0 .. N
    BY DepthIs DEF Boots
  <2>2. booted' = k /\ built' = (k = N)
    BY DEF Boot, N
  <2>3. k \in 0 .. N
    BY <2>1
  <2> QED BY <2>1, <2>2, <2>3 DEF Boots
<1> DEFINE s == SubSeq(Providers, booted + 1, k)
           n == k - booted
           t == [i \in 1 .. n |-> s[n - i + 1]]
<1>2. /\ n \in Nat /\ s \in Seq(Layers) /\ Len(s) = n
      /\ \A i \in 1 .. n : s[i] = Providers[booted + i]
  <2>1. PICK m \in Int : m = booted + 1
    BY <1>1
  <2>2. s \in Seq(Layers) /\ Len(s) = (IF booted + 1 <= k THEN k - (booted + 1) + 1 ELSE 0)
        /\ \A i \in 1 .. k - (booted + 1) + 1 : s[i] = Providers[booted + 1 + i - 1]
    <3>1. k \in Int /\ \A i \in m .. k : Providers[i] \in Layers
      <4>1. \A i \in 1 .. N : Providers[i] \in Layers
        BY DepthIs
      <4> QED BY <1>1, <2>1, <4>1
    <3>2. PICK q : q = SubSeq(Providers, m, k)
      OBVIOUS
    <3>3. /\ q \in Seq(Layers) /\ Len(q) = IF m <= k THEN k - m + 1 ELSE 0
          /\ \A i \in 1 .. k - m + 1 : q[i] = Providers[m + i - 1]
      BY <3>1, <3>2, SubSeqProperties
    <3>4. s = q
      BY <2>1, <3>2
    <3> QED BY <2>1, <3>3, <3>4
  <2> HIDE DEF s
  <2>3. n \in Nat /\ Len(s) = n
    BY <1>1, <2>2
  <2>4. \A i \in 1 .. n : booted + 1 + i - 1 = booted + i /\ i \in 1 .. k - (booted + 1) + 1
    BY <1>1
  <2>5. \A i \in 1 .. n : s[i] = Providers[booted + i]
    BY <2>2, <2>4
  <2> QED BY <2>2, <2>3, <2>5
<1>3. middleware' = t \o middleware
  <2>1. Reverse(s) = [i \in 1 .. Len(s) |-> s[(Len(s) - i) + 1]]
    BY DEF Reverse
  <2>2. Reverse(s) = t
    BY <1>2, <2>1
  <2> QED BY <2>2 DEF Boot, WithLayersOf
<1> HIDE DEF s
<1>4. /\ t \in Seq(Layers) /\ Len(t) = n
      /\ \A i \in 1 .. n : t[i] = Providers[k + 1 - i]
  <2>1. \A i \in 1 .. n : n - i + 1 \in 1 .. n /\ booted + (n - i + 1) = k + 1 - i
    BY <1>1
  <2>2. \A i \in 1 .. n : s[n - i + 1] \in Layers
    BY <1>2, <2>1, LenProperties
  <2>3. t \in Seq(Layers)
    BY <1>2, <2>2, IsASeq
  <2>4. \A i \in 1 .. n : t[i] = Providers[k + 1 - i]
    BY <1>2, <2>1
  <2>5. DOMAIN t = 1 .. n
    OBVIOUS
  <2> HIDE DEF t
  <2> QED BY <1>2, <2>3, <2>4, <2>5, LenProperties
<1> HIDE DEF t
<1>5. n + booted = k /\ n \in Nat
  BY <1>1
<1> HIDE DEF n
<1>6. /\ middleware' \in Seq(Layers) /\ Len(middleware') = n + booted
      /\ \A i \in 1 .. n + booted : middleware'[i] = IF i <= n THEN t[i] ELSE middleware[i - n]
  <2>1. /\ t \o middleware \in Seq(Layers)
        /\ Len(t \o middleware) = Len(t) + Len(middleware)
        /\ \A i \in 1 .. Len(t) + Len(middleware) :
             (t \o middleware)[i] = IF i <= Len(t) THEN t[i] ELSE middleware[i - Len(t)]
    BY <1>1, <1>4, ConcatProperties
  <2> QED BY <1>1, <1>3, <1>4, <2>1
<1>7. ASSUME NEW i \in 1 .. k  PROVE middleware'[i] = Providers[k + 1 - i]
  <2>1. CASE i <= n
    BY <1>4, <1>5, <1>6, <2>1
  <2>2. CASE ~ (i <= n)
    <3>1. i - n \in 1 .. booted /\ booted + 1 - (i - n) = k + 1 - i
      BY <1>1, <1>5, <2>2
    <3> QED BY <1>1, <1>5, <1>6, <2>2, <3>1
  <2> QED BY <2>1, <2>2
<1> QED BY <1>1, <1>5, <1>6, <1>7 DEF Boots

(* A request that is new is within no layer and has left nothing.          *)
LEMMA StackCall ==
  ASSUME StackInv, NEW r \in Requests, NEW t \in Tasks, Call(r, t)
  PROVE  StackInv'
<1>1. Boots /\ Stages /\ Contexts /\ Reports /\ Counts /\ N \in Nat
  BY DepthIs DEF StackInv
<1>2. /\ stage[r] = "new" /\ \A q \in Requests : task[q] # t
      /\ UNCHANGED <<context, token, queries, stash, raisedIn, report, gauge, counted, jobs, pushed>>
  BY DEF Call, exception, metrics, worker
<1>3. Boots' /\ (built => built')
  <2>1. CASE UNCHANGED application
    BY <1>1, <2>1, SameBoots DEF application
  <2>2. CASE ~ built /\ \E k \in booted .. N : Boot(k)
    BY <1>1, <2>2, Booting
  <2>3. N \in booted .. N /\ booted .. N - 1 \subseteq booted .. N
    BY <1>1 DEF Boots
  <2> QED BY <2>1, <2>2, <2>3 DEF Call, N
<1>4. \/ /\ built' /\ stage' = [stage EXCEPT ![r] = "down"]
         /\ task' = [task EXCEPT ![r] = t] /\ at' = [at EXCEPT ![r] = 1] /\ told' = told
      \/ /\ stage' = [stage EXCEPT ![r] = "done"] /\ told' = [told EXCEPT ![r] = "crash"]
         /\ at' = at /\ task' = task
  <2>1. Boot(N) => built'
    BY DEF Boot, N
  <2>2. built /\ UNCHANGED application => built'
    BY DEF application
  <2>3. \/ /\ built \/ Boot(N)
           /\ stage' = [stage EXCEPT ![r] = "down"]
           /\ task' = [task EXCEPT ![r] = t] /\ at' = [at EXCEPT ![r] = 1] /\ told' = told
           /\ built => UNCHANGED application
        \/ /\ stage' = [stage EXCEPT ![r] = "done"] /\ told' = [told EXCEPT ![r] = "crash"]
           /\ at' = at /\ task' = task
    BY DEF Call, N
  <2> QED BY <2>1, <2>2, <2>3
<1>5. PICK s \in {"down", "done"}, a \in 0 .. N + 1, u \in Tasks \cup {None}, x \in Statuses \cup {None} :
        /\ stage' = [stage EXCEPT ![r] = s] /\ at' = [at EXCEPT ![r] = a]
        /\ task' = [task EXCEPT ![r] = u] /\ told' = [told EXCEPT ![r] = x]
        /\ s = "down" => a = 1 /\ u = t /\ built' /\ x = None
        /\ s = "done" => u = None /\ x = "crash"
  <2>1. CASE built' /\ stage' = [stage EXCEPT ![r] = "down"]
             /\ task' = [task EXCEPT ![r] = t] /\ at' = [at EXCEPT ![r] = 1] /\ told' = told
    <3>1. told[r] = None /\ told' = [told EXCEPT ![r] = None]
      BY <1>1, <1>2, <2>1 DEF Counts
    <3>2. 1 \in 0 .. N + 1 /\ t \in Tasks \cup {None} /\ None \in Statuses \cup {None}
      BY <1>1
    <3> QED BY <2>1, <3>1, <3>2
  <2>2. CASE stage' = [stage EXCEPT ![r] = "done"] /\ told' = [told EXCEPT ![r] = "crash"]
             /\ at' = at /\ task' = task
    <3>1. task[r] = None /\ task' = [task EXCEPT ![r] = None] /\ at' = [at EXCEPT ![r] = at[r]]
          /\ at[r] \in 0 .. N + 1
      BY <1>1, <1>2, <2>2 DEF Stages
    <3> QED BY <2>2, <3>1 DEF Statuses
  <2> QED BY <1>4, <2>1, <2>2
<1>6. /\ stage'[r] = s /\ at'[r] = a /\ task'[r] = u /\ told'[r] = x
      /\ \A q \in Requests \ {r} : /\ stage'[q] = stage[q] /\ at'[q] = at[q]
                                   /\ task'[q] = task[q] /\ told'[q] = told[q]
      /\ stage' \in [Requests -> {"new", "down", "handler", "up", "raising", "cancelled", "done"}]
      /\ at' \in [Requests -> 0 .. N + 1] /\ task' \in [Requests -> Tasks \cup {None}]
      /\ told' \in [Requests -> Statuses \cup {None}]
  BY <1>1, <1>5 DEF Stages, Counts
<1>7. /\ Reached(r) = 0 /\ Reached(r)' = 0 /\ ~ Raising(r) /\ ~ Raising(r)'
      /\ \A q \in Requests \ {r} : Reached(q)' = Reached(q) /\ Raising(q)' = Raising(q)
  BY <1>2, <1>5, <1>6 DEF Reached, Raising
<1>8. Stages'
  <2>1. t # None /\ 1 \in 1 .. N + 1
    BY <1>1, StackAssumption
  <2>2. ASSUME NEW q \in Requests
        PROVE  /\ (task'[q] = None) = (stage'[q] \in {"new", "done"})
               /\ stage'[q] \notin {"new", "done"} => built'
               /\ stage'[q] = "down" => at'[q] \in 1 .. N + 1
               /\ stage'[q] = "handler" => at'[q] = N + 1
               /\ stage'[q] \in {"up", "raising", "cancelled"} => at'[q] \in 0 .. N
    <3>1. CASE q = r
      BY <1>5, <1>6, <2>1, <3>1
    <3>2. CASE q # r
      BY <1>1, <1>3, <1>6, <3>2 DEF Stages
    <3> QED BY <3>1, <3>2
  <2>3. ASSUME NEW q \in Requests, NEW p \in Requests, task'[q] # None, task'[q] = task'[p]
        PROVE  q = p
    <3>1. CASE q = r
      BY <1>2, <1>5, <1>6, <2>3, <3>1
    <3>2. CASE p = r
      BY <1>2, <1>5, <1>6, <2>3, <3>2
    <3>3. CASE q # r /\ p # r
      BY <1>1, <1>6, <2>3, <3>3 DEF Stages
    <3> QED BY <3>1, <3>2, <3>3
  <2> QED BY <1>6, <2>2, <2>3 DEF Stages, N
<1>9. Contexts'
  <2>1. \A v \in Vars : context[t][v] = None /\ Depth(v) \in Nat /\ Depth(v) > 0 /\ Depth(v)' = Depth(v)
    <3>1. \A v \in Vars : Depth(v) \in Nat /\ Depth(v) > 0
      BY OtherLayers, DepthIs
    <3>2. \A v \in Vars : context[t][v] = None
      BY <1>1, <1>2 DEF Contexts
    <3>3. \A v \in Vars : Depth(v)' = Depth(v)
      BY DEF Depth
    <3> QED BY <3>1, <3>2, <3>3
  <2>2. ASSUME NEW q \in Requests, task'[q] # None, NEW v \in Vars  PROVE Own(q, v)'
    <3>1. CASE q = r
      <4>1. task'[q] = t /\ Reached(q)' < Depth(v)'
        BY <1>5, <1>6, <1>7, <2>1, <2>2, <3>1
      <4> QED BY <1>2, <2>1, <4>1 DEF Own
    <3>2. CASE q # r
      <4>1. task'[q] = task[q] /\ task[q] # None
        BY <1>6, <2>2, <3>2
      <4>2. Own(q, v)
        BY <1>1, <4>1 DEF Contexts
      <4> QED BY <1>2, <1>7, <3>2, <4>1, <4>2 DEF Own, Depth
    <3> QED BY <3>1, <3>2
  <2>3. ASSUME NEW p \in Tasks, \A q \in Requests : task'[q] # p  PROVE \A v \in Vars : context[p][v] = None
    <3>1. \A q \in Requests : task[q] # p
      <4>1. task[r] = None /\ p # None
        BY <1>1, <1>2, StackAssumption DEF Stages
      <4> QED BY <1>6, <2>3, <4>1
    <3> QED BY <1>1, <3>1 DEF Contexts
  <2> QED BY <1>1, <1>2, <2>2, <2>3 DEF Contexts
<1>10. Reports'
  <2>1. \A q \in Requests : /\ Raising(q)' = Raising(q)
                            /\ Raising(q) => Reached(q)' = Reached(q)
                            /\ stage[q] = "done" => stage'[q] = "done"
    <3> TAKE q \in Requests
    <3>1. CASE q = r
      BY <1>2, <1>6, <3>1, <1>5 DEF Raising
    <3>2. CASE q # r
      BY <1>6, <1>7, <3>2
    <3> QED BY <3>1, <3>2
  <2> QED BY <1>1, <1>2, <2>1, SameReports
<1>11. Counts'
  <2>1. InMetrics' = InMetrics /\ r \notin InMetrics
    <3>1. Depth("metrics") \in Nat /\ Depth("metrics") > 0 /\ Depth("metrics")' = Depth("metrics")
      BY DepthIs, OtherLayers, SMTT(30) DEF Depth
    <3>2. \A q \in Requests : Reached(q)' = Reached(q)
      BY <1>7
    <3> QED BY <1>7, <3>1, <3>2 DEF InMetrics
  <2>2. counted[r] = <<>> /\ \A q \in Requests \ {r} : CountOf(q)' = CountOf(q)
    BY <1>1, <1>2, <1>6 DEF Counts, CountOf
  <2>3. x \notin {"ok", "error"}
    BY <1>5, LayersAssumption
  <2> QED BY <1>1, <1>2, <1>5, <1>6, <2>1, <2>2, <2>3 DEF Counts
<1> QED BY <1>3, <1>8, <1>9, <1>10, <1>11 DEF StackInv

(* A step of zeython down and up, or a request that reaches its handler.   *)
LEMMA StackDispatch ==
  ASSUME StackInv, NEW r \in Requests, Dispatch(r)
  PROVE  StackInv'
<1>1. Boots /\ Stages /\ Contexts /\ Reports /\ Counts /\ N \in Nat
  BY DepthIs DEF StackInv
<1>2. /\ stage[r] = "down" /\ at[r] = Len(middleware) + 1 /\ stage' = [stage EXCEPT ![r] = "handler"]
      /\ UNCHANGED <<booted, bootFailures, middleware, built, at, task, context, token, queries, told,
                     stash, raisedIn, report, gauge, counted, jobs, pushed>>
  BY DEF Dispatch, application, exception, metrics, worker
<1>3. at[r] = N + 1
  <2>1. built
    BY <1>1, <1>2 DEF Stages
  <2> QED BY <1>1, <1>2, <2>1, LayerIs
<1>4. /\ stage' \in [Requests -> {"new", "down", "handler", "up", "raising", "cancelled", "done"}]
      /\ stage'[r] = "handler" /\ \A q \in Requests \ {r} : stage'[q] = stage[q]
  BY <1>1, <1>2 DEF Stages
<1>5. /\ \A q \in Requests : Reached(q)' = Reached(q)
      /\ \A q \in Requests : Raising(q)' = Raising(q) /\ (stage[q] = "done" => stage'[q] = "done")
  <2>1. ASSUME NEW q \in Requests
        PROVE  /\ Reached(q)' = Reached(q) /\ Raising(q)' = Raising(q)
               /\ stage[q] = "done" => stage'[q] = "done"
    <3>1. CASE q = r
      BY <1>2, <1>4, <3>1 DEF Reached, Raising
    <3>2. CASE q # r
      BY <1>2, <1>4, <3>2 DEF Reached, Raising
    <3> QED BY <3>1, <3>2
  <2> QED BY <2>1
<1>6. Stages'
  BY <1>1, <1>2, <1>3, <1>4 DEF Stages, N
<1>7. Contexts'
  BY <1>1, <1>2, <1>5, SameContexts DEF Depth
<1>8. Reports'
  BY <1>1, <1>2, <1>5, SameReports
<1>9. Counts'
  <2>1. InMetrics' = InMetrics
    BY <1>5 DEF InMetrics, Depth
  <2>2. told[r] = None
    BY <1>1, <1>2 DEF Counts
  <2> QED BY <1>1, <1>2, <1>4, <2>1, <2>2 DEF Counts, CountOf
<1> QED BY <1>1, <1>2, <1>6, <1>7, <1>8, <1>9, SameBoots DEF StackInv, application

(* Only a request's own code, and jobs, add to its list of queries.        *)
LEMMA Profiled ==
  ASSUME Contexts, Reports, Stages, UNCHANGED <<stash, report, raisedIn, stage, at>>,
         NEW c \in Tasks \cup {Worker}, NEW who \in Requests \cup Jobs,
         who \in Jobs \/ context[c]["profiler"] \in {who, None},
         Profile(context[c], who), jobs' \in Seq(Jobs), pushed' = pushed
  PROVE  Reports'
<1>1. context[c]["profiler"] \in Requests \cup {None}
  BY OtherLayers DEF Contexts
<1>2. CASE context[c]["profiler"] = None
  <2>1. queries' = queries
    BY <1>2 DEF Profile
  <2>2. \A q \in Requests : /\ Raising(q)' = Raising(q) /\ Reached(q)' = Reached(q)
    BY DEF Raising, Reached
  <2>3. \A q \in Requests : LeftOn(q)' = LeftOn(q)
    BY <2>2 DEF LeftOn, Came, Depth
  <2>4. ReportIsOwn'
    BY DEF Reports, ReportIsOwn, Depth
  <2> QED BY <2>1, <2>2, <2>3, <2>4 DEF Reports
<1>3. CASE context[c]["profiler"] # None
  <2>1. PICK p \in Requests : p = context[c]["profiler"]
    BY <1>1, <1>3
  <2>2. queries' = [queries EXCEPT ![p] = @ \cup {who}]
    BY <1>3, <2>1 DEF Profile
  <2>3. who \in Jobs \/ who = p
    BY <2>1, <1>3
  <2>4. queries[p] \in SUBSET (Requests \cup Jobs) /\ queries[p] \cap Requests \subseteq {p}
    BY DEF Reports
  <2>5. (queries[p] \cup {who}) \cap Requests \subseteq {p}
    BY <2>3, <2>4, LayersAssumption
  <2>6. /\ queries' \in [Requests -> SUBSET (Requests \cup Jobs)]
        /\ \A q \in Requests : queries'[q] \cap Requests \subseteq {q}
    BY <2>2, <2>4, <2>5 DEF Reports
  <2>7. \A q \in Requests : /\ Raising(q)' = Raising(q) /\ Reached(q)' = Reached(q)
    BY DEF Raising, Reached
  <2>8. \A q \in Requests : LeftOn(q)' = LeftOn(q)
    BY <2>7 DEF LeftOn, Came, Depth
  <2>9. ReportIsOwn'
    BY DEF Reports, ReportIsOwn, Depth
  <2> QED BY <2>6, <2>7, <2>8, <2>9 DEF Reports
<1> QED BY <1>2, <1>3

LEMMA StackQuery ==
  ASSUME StackInv, NEW r \in Requests, Query(r)
  PROVE  StackInv'
<1>1. Boots /\ Stages /\ Contexts /\ Reports /\ Counts
  BY DEF StackInv
<1>2. /\ stage[r] = "handler" /\ Profile(context[task[r]], r)
      /\ UNCHANGED <<booted, bootFailures, middleware, built, stage, at, task, context, token, told,
                     stash, raisedIn, report, gauge, counted, jobs, pushed>>
  BY DEF Query, application, exception, metrics, worker
<1>3. task[r] # None /\ task[r] \in Tasks
  BY <1>1, <1>2 DEF Stages
<1>4. context[task[r]]["profiler"] \in {r, None}
  BY <1>1, <1>3, OtherLayers DEF Contexts, Own
<1>5. jobs' \in Seq(Jobs)
  BY <1>1, <1>2 DEF Reports
<1>6. Reports'
  BY <1>1, <1>2, <1>3, <1>4, <1>5, Profiled
<1>7. \A q : Reached(q)' = Reached(q)
  BY <1>2 DEF Reached
<1>8. Contexts' /\ Counts'
  BY <1>1, <1>2, <1>7, SameContexts, SameCounts DEF Depth
<1> QED BY <1>1, <1>2, <1>6, <1>8, SameBoots, SameStages DEF StackInv, application

LEMMA StackRunJob ==
  ASSUME StackInv, RunJob
  PROVE  StackInv'
<1>1. Boots /\ Stages /\ Contexts /\ Reports /\ Counts
  BY DEF StackInv
<1>2. /\ jobs # <<>> /\ jobs' = Tail(jobs) /\ Profile(context[Worker], Head(jobs))
      /\ UNCHANGED <<booted, bootFailures, middleware, built, stage, at, task, context, token, told,
                     stash, raisedIn, report, gauge, counted, pushed>>
  BY DEF RunJob, application, exception, metrics
<1>3. Head(jobs) \in Jobs /\ jobs' \in Seq(Jobs)
  BY <1>1, <1>2, HeadTailProperties DEF Reports
<1>4. Reports'
  BY <1>1, <1>2, <1>3, Profiled
<1>5. \A q : Reached(q)' = Reached(q)
  BY <1>2 DEF Reached
<1>6. Contexts' /\ Counts'
  BY <1>1, <1>2, <1>5, SameContexts, SameCounts DEF Depth
<1> QED BY <1>1, <1>2, <1>4, <1>6, SameBoots, SameStages DEF StackInv, application

(* The worker's task is no request's.                                      *)
LEMMA StackPush ==
  ASSUME StackInv, NEW r \in Requests, Push(r)
  PROVE  StackInv'
<1>1. Boots /\ Stages /\ Contexts /\ Reports /\ Counts
  BY DEF StackInv
<1>2. /\ stage[r] = "handler" /\ pushed < MaxJobs /\ pushed' = pushed + 1 /\ jobs' = Append(jobs, pushed + 1)
      /\ context' = context \/ context' = [context EXCEPT ![Worker] = context[task[r]]]
      /\ UNCHANGED <<booted, bootFailures, middleware, built, stage, at, task, token, queries, told,
                     stash, raisedIn, report, gauge, counted>>
  BY DEF Push, application, exception, metrics
<1>3. task[r] \in Tasks
  BY <1>1, <1>2 DEF Stages
<1>4. pushed' \in Nat /\ jobs' \in Seq(Jobs)
  <2>1. pushed + 1 \in Jobs
    BY <1>1, <1>2, LayersAssumption DEF Reports, Jobs
  <2> QED BY <1>1, <1>2, <2>1 DEF Reports
<1>5. \A q : Reached(q)' = Reached(q) /\ Raising(q)' = Raising(q)
  BY <1>2 DEF Reached, Raising
<1>6. Reports'
  <2>1. \A q : LeftOn(q)' = LeftOn(q)
    BY <1>2, <1>5 DEF LeftOn, Came, Depth
  <2>2. ReportIsOwn'
    BY <1>1, <1>2 DEF Reports, ReportIsOwn, Depth
  <2> QED BY <1>1, <1>2, <1>4, <1>5, <2>1, <2>2 DEF Reports
<1>7. Contexts'
  <2>1. context' \in [Tasks \cup {Worker} -> [Vars -> Requests \cup {None}]]
        /\ \A t \in Tasks : context'[t] = context[t]
    BY <1>1, <1>2, <1>3, StackAssumption DEF Contexts
  <2>2. \A q \in Requests : task[q] # None => \A v \in Vars : Own(q, v)'
    <3> TAKE q \in Requests
    <3> HAVE task[q] # None
    <3>1. task[q] \in Tasks
      BY <1>1 DEF Stages
    <3> QED BY <1>1, <1>2, <1>5, <2>1, <3>1, SMTT(30) DEF Own, Contexts, Depth
  <2> QED BY <1>1, <1>2, <2>1, <2>2 DEF Contexts
<1>8. Counts'
  BY <1>1, <1>2, <1>5, SameCounts DEF Depth
<1> QED BY <1>1, <1>2, <1>6, <1>7, <1>8, SameBoots, SameStages DEF StackInv, application

LEMMA StackStartResponse ==
  ASSUME StackInv, NEW r \in Requests, StartResponse(r)
  PROVE  StackInv'
<1>1. Boots /\ Stages /\ Contexts /\ Reports /\ Counts
  BY DEF StackInv
<1>2. /\ stage[r] = "handler" /\ told' = [told EXCEPT ![r] = "ok"]
      /\ UNCHANGED <<booted, bootFailures, middleware, built, stage, at, task, context, token, queries,
                     stash, raisedIn, report, gauge, counted, jobs, pushed>>
  BY DEF StartResponse, Respond, application, exception, metrics, worker
<1>3. \A q : Reached(q)' = Reached(q) /\ Raising(q)' = Raising(q)
  BY <1>2 DEF Reached, Raising
<1>4. Contexts' /\ Reports'
  BY <1>1, <1>2, <1>3, SameContexts, SameReports DEF Depth
<1>5. Counts'
  <2>1. InMetrics' = InMetrics
    BY <1>3 DEF InMetrics, Depth
  <2>2. told' \in [Requests -> Statuses \cup {None}] /\ told'[r] = "ok"
        /\ \A q \in Requests \ {r} : told'[q] = told[q] /\ CountOf(q)' = CountOf(q)
    BY <1>1, <1>2 DEF Counts, Statuses, CountOf
  <2>3. r \in InMetrics
    <3>1. at[r] = N + 1 /\ N \in Nat /\ Depth("metrics") \in 1 .. N
      BY <1>1, <1>2, DepthIs, OtherLayers DEF Stages
    <3> QED BY <1>2, <3>1 DEF InMetrics, Reached
  <2>4. counted[r] = <<>>
    BY <1>1, <1>2 DEF Counts
  <2> QED BY <1>1, <1>2, <2>1, <2>2, <2>3, <2>4 DEF Counts
<1> QED BY <1>1, <1>2, <1>4, <1>5, SameBoots, SameStages DEF StackInv, application

(* Out of every layer, the report reads what they left on the exception:   *)
(* their ContextVars are unbound.                                          *)
LEMMA StackFinish ==
  ASSUME StackInv, NEW r \in Requests, Finish(r)
  PROVE  StackInv'
<1>1. Boots /\ Stages /\ Contexts /\ Reports /\ Counts /\ N \in Nat
  BY DepthIs DEF StackInv
<1>2. /\ at[r] = 0 /\ stage[r] \in {"up", "raising", "cancelled"}
      /\ stage' = [stage EXCEPT ![r] = "done"] /\ task' = [task EXCEPT ![r] = None]
      /\ queries' = [queries EXCEPT ![r] = {}] /\ stash' = [stash EXCEPT ![r] = Nothing]
      /\ UNCHANGED <<booted, bootFailures, middleware, built, at, context, token, gauge, counted,
                     jobs, pushed>>
  BY DEF Finish, application, metrics, worker
<1>3. /\ stage' \in [Requests -> {"new", "down", "handler", "up", "raising", "cancelled", "done"}]
      /\ stage'[r] = "done" /\ task' \in [Requests -> Tasks \cup {None}] /\ task'[r] = None
      /\ \A q \in Requests \ {r} : stage'[q] = stage[q] /\ task'[q] = task[q]
  BY <1>1, <1>2 DEF Stages
<1>4. Stages'
  BY <1>1, <1>2, <1>3 DEF Stages, N
<1>5. /\ Reached(r) = 0 /\ ~ Raising(r)' /\ Reached(r)' = 0
      /\ \A q \in Requests \ {r} : Reached(q)' = Reached(q) /\ Raising(q)' = Raising(q)
  BY <1>2, <1>3 DEF Reached, Raising
<1>6. /\ task[r] \in Tasks /\ \A v \in Vars : context[task[r]][v] = None
  <2>1. task[r] # None /\ task[r] \in Tasks
    BY <1>1, <1>2 DEF Stages
  <2>2. \A v \in Vars : Reached(r) < Depth(v) /\ Own(r, v)
    BY <1>1, <1>5, <2>1, OtherLayers, DepthIs DEF Contexts
  <2> QED BY <2>1, <2>2 DEF Own
<1>7. Contexts'
  <2>1. ASSUME NEW q \in Requests, task'[q] # None, NEW v \in Vars  PROVE Own(q, v)'
    <3>1. q # r /\ task'[q] = task[q] /\ Own(q, v)
      BY <1>1, <1>3, <2>1 DEF Contexts
    <3> QED BY <1>2, <1>5, <3>1 DEF Own, Depth
  <2>2. ASSUME NEW t \in Tasks, \A q \in Requests : task'[q] # t  PROVE \A v \in Vars : context[t][v] = None
    <3>1. CASE t = task[r]
      BY <1>6, <3>1
    <3>2. CASE t # task[r]
      BY <1>1, <1>3, <2>2, <3>2 DEF Contexts
    <3> QED BY <3>1, <3>2
  <2> QED BY <1>1, <1>2, <2>1, <2>2 DEF Contexts
<1>8. Reports'
  <2>1. /\ raisedIn' = [raisedIn EXCEPT ![r] = IF stage[r] = "raising" THEN @ ELSE 0]
        /\ IF stage[r] = "raising" THEN ReportCrash(r) ELSE report' = report
    BY DEF Finish
  <2>2. /\ queries' \in [Requests -> SUBSET (Requests \cup Jobs)]
        /\ \A q \in Requests : queries'[q] \cap Requests \subseteq {q}
    BY <1>1, <1>2 DEF Reports
  <2>3. Nothing \in Facts
    <3>1. \A P, Q : None \in P /\ None \in Q => [id |-> None, queries |-> None] \in [id : P, queries : Q]
      OBVIOUS
    <3>2. \A S : None \in S \cup {None}
      OBVIOUS
    <3>3. \A P, Q : [id |-> None, queries |-> None] \in [id : P \cup {None}, queries : Q \cup {None}]
      BY <3>1, <3>2
    <3> QED BY <3>3, Zenon DEF Nothing, Facts
  <2>4. stash' \in [Requests -> Facts]
    <3> HIDE DEF Facts, Nothing
    <3>1. stash \in [Requests -> Facts]
      BY <1>1 DEF Reports
    <3> QED BY <1>2, <2>3, <3>1
  <2>5. raisedIn' \in [Requests -> 0 .. N + 1] /\ \A q \in Requests \ {r} : raisedIn'[q] = raisedIn[q]
    BY <1>1, <2>1 DEF Reports
  <2>6. ASSUME NEW q \in Requests
        PROVE  IF Raising(q)' THEN (Reached(q) < raisedIn[q] /\ LeftOn(q))' ELSE stash'[q] = Nothing
    <3>1. CASE q = r
      BY <1>1, <1>2, <1>5, <3>1 DEF Reports
    <3>2. CASE q # r
      <4>1. stash'[q] = stash[q] /\ raisedIn'[q] = raisedIn[q]
        BY <1>1, <1>2, <2>5, <3>2 DEF Reports
      <4>2. LeftOn(q)' = LeftOn(q)
        BY <1>5, <3>2, <4>1 DEF LeftOn, Came, Depth
      <4> QED BY <1>1, <1>5, <3>2, <4>1, <4>2 DEF Reports
    <3> QED BY <3>1, <3>2
  <2>7. /\ report' \in [Requests -> Facts \cup {None}]
        /\ \A q \in Requests \ {r} : report'[q] = report[q]
        /\ report'[r] # None =>
             /\ stage[r] = "raising" /\ raisedIn'[r] = raisedIn[r]
             /\ report'[r].id = stash[r].id /\ report'[r].queries = stash[r].queries
    <3>1. CASE stage[r] = "raising"
      <4>1. context[task[r]]["request_id"] = None /\ context[task[r]]["profiler"] = None
        BY <1>6, OtherLayers
      <4> DEFINE f == [id |-> IF stash[r].id # None THEN stash[r].id ELSE None,
                       queries |-> stash[r].queries]
      <4>2. report' = [report EXCEPT ![r] = f]
        BY <2>1, <3>1, <4>1 DEF ReportCrash
      <4>3. stash[r] \in Facts /\ report \in [Requests -> Facts \cup {None}]
        BY <1>1 DEF Reports
      <4>4. f \in Facts /\ f.id = stash[r].id /\ f.queries = stash[r].queries
        <5>1. f.id = stash[r].id /\ f.queries = stash[r].queries
          OBVIOUS
        <5>2. \A P, Q : stash[r] \in [id : P, queries : Q] => f \in [id : P, queries : Q]
          <6> TAKE P, Q
          <6> HAVE stash[r] \in [id : P, queries : Q]
          <6>1. stash[r].id \in P /\ stash[r].queries \in Q
            OBVIOUS
          <6>2. (IF stash[r].id # None THEN stash[r].id ELSE None) = stash[r].id
            OBVIOUS
          <6> QED BY <6>1, <6>2
        <5>3. f \in Facts
          <6> HIDE DEF f
          <6> QED BY <4>3, <5>2 DEF Facts
        <5> QED BY <5>1, <5>3
      <4> HIDE DEF f, Facts
      <4>5. report'[r] = f /\ report' \in [Requests -> Facts \cup {None}]
            /\ \A q \in Requests \ {r} : report'[q] = report[q]
        BY <4>2, <4>3, <4>4
      <4>6. raisedIn'[r] = raisedIn[r]
        BY <1>1, <2>1, <3>1 DEF Reports
      <4> QED BY <3>1, <4>4, <4>5, <4>6
    <3>2. CASE stage[r] # "raising"
      <4>1. report' = report /\ report[r] = None
        BY <1>1, <1>2, <2>1, <3>2 DEF Reports
      <4> QED BY <1>1, <4>1 DEF Reports
    <3> QED BY <3>1, <3>2
  <2>8. \A q \in Requests : report'[q] # None => stage'[q] = "done"
    BY <1>1, <1>3, <2>7 DEF Reports
  <2>9. ReportIsOwn'
    <3> SUFFICES ASSUME NEW q \in Requests, report'[q] # None
                 PROVE  /\ report'[q].id = IF raisedIn'[q] > Depth("request_id")' THEN q ELSE None
                        /\ IF raisedIn'[q] > Depth("profiler")'
                           THEN report'[q].queries # None /\ report'[q].queries \cap Requests \subseteq {q}
                           ELSE report'[q].queries = None
      BY DEF ReportIsOwn
    <3>1. \A v : Depth(v)' = Depth(v)
      BY DEF Depth
    <3>2. CASE q = r
      <4>1. /\ stage[r] = "raising" /\ raisedIn'[r] = raisedIn[r]
            /\ report'[r].id = stash[r].id /\ report'[r].queries = stash[r].queries
        BY <2>7, <3>2
      <4>2. LeftOn(r)
        BY <1>1, <4>1 DEF Reports, Raising
      <4>3. \A v \in {"request_id", "profiler"} : Came(r, v) = (raisedIn[r] > Depth(v))
        <5>1. \A v \in {"request_id", "profiler"} : Reached(r) < Depth(v)
          BY <1>5, OtherLayers, DepthIs
        <5> QED BY <5>1 DEF Came
      <4> QED BY <3>1, <3>2, <4>1, <4>2, <4>3 DEF LeftOn
    <3>3. CASE q # r
      BY <1>1, <2>5, <2>7, <3>1, <3>3 DEF Reports, ReportIsOwn
    <3> QED BY <3>2, <3>3
  <2>10. jobs' \in Seq(Jobs) /\ pushed' \in Nat
    BY <1>1, <1>2 DEF Reports
  <2> QED BY <2>2, <2>4, <2>5, <2>6, <2>7, <2>8, <2>9, <2>10 DEF Reports, N
<1>9. Counts'
  <2>1. InMetrics' = InMetrics /\ r \notin InMetrics
    <3>1. Depth("metrics") \in Nat /\ Depth("metrics") > 0
      BY DepthIs, OtherLayers
    <3>2. Depth("metrics")' = Depth("metrics")
      BY DEF Depth
    <3> QED BY <1>5, <3>1, <3>2 DEF InMetrics
  <2>2. told' = told \/ (told[r] = None /\ told' = [told EXCEPT ![r] = "crash"])
    BY DEF Finish, Respond
  <2>3. /\ told' \in [Requests -> Statuses \cup {None}]
        /\ \A q \in Requests \ {r} : told'[q] = told[q]
        /\ told'[r] = told[r] \/ (told[r] = None /\ told'[r] = "crash")
    BY <1>1, <2>2 DEF Counts, Statuses
  <2>4. \A q \in Requests : CountOf(q)' = CountOf(q)
    <3>1. CountOf(r)' = CountOf(r)
      BY <2>3, LayersAssumption DEF CountOf
    <3> QED BY <2>3, <3>1 DEF CountOf
  <2>5. told'[r] \in {"ok", "error"} => told[r] = told'[r]
    BY <2>3
  <2> QED BY <1>1, <1>2, <1>3, <2>1, <2>3, <2>4, <2>5 DEF Counts
<1> QED BY <1>1, <1>2, <1>4, <1>7, <1>8, <1>9, SameBoots DEF StackInv, application

LEMMA StackConsole ==
  ASSUME StackInv, StartDown \/ FinishDown \/ Up \/ UNCHANGED vars
  PROVE  StackInv'
<1>1. Boots /\ Stages /\ Contexts /\ Reports /\ Counts
  BY DEF StackInv
<1>2. UNCHANGED <<booted, bootFailures, middleware, built, stage, at, task, context, token, queries,
                  told, stash, raisedIn, report, gauge, counted, jobs, pushed>>
  BY DEF StartDown, FinishDown, Up, vars, application, exception, metrics, worker
<1>3. \A q : Reached(q)' = Reached(q) /\ Raising(q)' = Raising(q)
  BY <1>2 DEF Reached, Raising
<1>4. Contexts' /\ Reports' /\ Counts'
  BY <1>1, <1>2, <1>3, SameContexts, SameReports, SameCounts DEF Depth
<1> QED BY <1>1, <1>2, <1>4, SameBoots, SameStages DEF StackInv, application

LEMMA StackNext ==
  ASSUME StackInv, [Next]_vars
  PROVE  StackInv'
<1>1. CASE StartDown \/ FinishDown \/ Up \/ UNCHANGED vars
  BY <1>1, StackConsole
<1>2. CASE RunJob
  BY <1>2, StackRunJob
<1>3. ASSUME NEW r \in Requests, \E t \in Tasks : Call(r, t)  PROVE StackInv'
  BY <1>3, StackCall
<1>4. ASSUME NEW r \in Requests,
             \/ EnterContext(r) \/ ResolverRaises(r) \/ EnterMetrics(r) \/ EnterMaintenance(r)
             \/ Dispatch(r) \/ Query(r) \/ Push(r)
      PROVE  StackInv'
  BY <1>4, StackEnterContext, StackTurns, StackEnterMetrics, StackEnterMaintenance, StackDispatch,
     StackQuery, StackPush
<1>5. ASSUME NEW r \in Requests,
             \/ Return(r) \/ StartResponse(r) \/ FinishResponse(r) \/ Raise(r)
             \/ LeaveContext(r) \/ LeaveMetrics(r) \/ LeaveMaintenance(r) \/ Finish(r)
      PROVE  StackInv'
  BY <1>5, StackTurns, StackStartResponse, StackLeaveContext, StackLeaveMetrics,
     StackLeaveMaintenance, StackFinish
<1> QED BY <1>1, <1>2, <1>3, <1>4, <1>5 DEF Next

(* Only the layer of maintenance mode answers so, and it is the outermost. *)
LEMMA OnlyMaintenanceRefuses ==
  ASSUME StackInv, [Next]_vars, NEW r \in Requests, told'[r] \in {"down", "redirect"}, told[r] = None
  PROVE  at[r] = 1
<1>1. told \in [Requests -> Statuses \cup {None}] /\ None \notin Statuses
  BY LayersAssumption DEF StackInv, Counts, Statuses
<1>2. told'[r] \notin {"ok", "error", "crash", told[r]}
  BY <1>1 DEF Statuses
<1>3. ASSUME NEW q \in Requests, NEW x \in {"ok", "error", "crash"}
      PROVE  told' # [told EXCEPT ![q] = x]
  BY <1>1, <1>2
<1>4. told' # told
  BY <1>2
<1>5. ~ (StartDown \/ FinishDown \/ Up \/ RunJob \/ UNCHANGED vars)
  BY <1>4 DEF StartDown, FinishDown, Up, RunJob, vars
<1>6. ASSUME NEW q \in Requests
      PROVE  /\ \A t \in Tasks : ~ Call(q, t)
             /\ ~ (EnterContext(q) \/ ResolverRaises(q) \/ EnterMetrics(q) \/ Dispatch(q) \/ Query(q) \/ Push(q))
             /\ ~ (Return(q) \/ StartResponse(q) \/ FinishResponse(q) \/ Raise(q))
             /\ ~ (LeaveContext(q) \/ LeaveMetrics(q) \/ LeaveMaintenance(q) \/ Finish(q))
  <2>1. \A t \in Tasks : ~ Call(q, t)
    BY <1>3, <1>4 DEF Call
  <2>2. ~ (EnterContext(q) \/ ResolverRaises(q) \/ EnterMetrics(q) \/ Dispatch(q) \/ Query(q) \/ Push(q))
    BY <1>4 DEF EnterContext, ResolverRaises, EnterMetrics, Dispatch, Query, Push
  <2>3. ~ (Return(q) \/ StartResponse(q) \/ FinishResponse(q) \/ Raise(q))
    BY <1>3, <1>4 DEF Return, StartResponse, FinishResponse, Raise, Answer, Respond
  <2>4. ~ (LeaveContext(q) \/ LeaveMetrics(q) \/ LeaveMaintenance(q) \/ Finish(q))
    BY <1>3, <1>4 DEF LeaveContext, LeaveMetrics, LeaveMaintenance, Finish, Respond
  <2> QED BY <2>1, <2>2, <2>3, <2>4
<1>7. PICK q \in Requests : EnterMaintenance(q)
  BY <1>5, <1>6 DEF Next
<1>8. q = r
  <2>1. told' = told \/ \E x \in {"down", "redirect"} : told' = [told EXCEPT ![q] = x]
    BY <1>7 DEF EnterMaintenance, Answer, Respond
  <2> QED BY <1>1, <1>2, <1>4, <2>1
<1>9. stage[r] = "down" /\ Layer(r) = "maintenance" /\ at[r] <= Len(middleware)
  BY <1>7, <1>8 DEF EnterMaintenance, OnTheWayDown
<1>10. Boots /\ built /\ at[r] \in 1 .. N + 1 /\ N \in Nat
  BY <1>9, DepthIs DEF StackInv, Stages
<1>11. at[r] \in 1 .. N /\ "maintenance" \in Layers /\ Depth("maintenance") = at[r]
  BY <1>9, <1>10, LayerIs DEF Layer
<1>12. PICK i \in 1 .. N : Providers[i] = "maintenance"
  <2>1. DOMAIN Providers = 1 .. N
    BY LayersAssumption, LenProperties DEF N
  <2> QED BY <1>11, <2>1 DEF Layers, Range
<1>13. i = N
  BY <1>12, LayersAssumption, LenProperties DEF N
<1> QED BY <1>10, <1>11, <1>12, <1>13, DepthIs

LEMMA StackSteps ==
  ASSUME view = "layers", [RequestNext]_requestVars
  PROVE  view' = "layers" /\ [Next]_vars
BY DEF RequestNext, requestVars

(***************************************************************************)
(* Access                                                                  *)
(***************************************************************************)

Settled(r) == asking[r] = "over"
Right(r, then, before) == Gate!Entitled(claims[r].user, then.has, before.author)

(* A request under way has noted how things are now, and how they were     *)
(* when its handler read the record.                                       *)
NotesTaken ==
  \A r \in Askers : asking[r] = "begun" =>
    /\ Gate!View(claims[r]) \in times[r]
    /\ \E before \in times[r] : before.author = post[r]

Decided(r) ==
  \E then, before \in times[r] :
    \/ outcome[r] = "allowed" /\ then.known /\ Right(r, then, before)
    \/ outcome[r] = "unknown" /\ ~ then.known
    \/ outcome[r] \in {"forbidden", "KeyError"} /\ then.known /\ ~ Right(r, then, before)

GateTypes ==
  /\ gate \in Gates
  /\ roles \in [People -> SUBSET Gate!Roles] /\ author \in People /\ users \subseteq People
  /\ age \in 0 .. MaxAge /\ changes \in 0 .. MaxChanges
  /\ asking \in [Askers -> {"new", "begun", "over"}]
  /\ claims \in [Askers -> Gate!Claims] /\ post \in [Askers -> People]
  /\ DOMAIN outcome = Askers /\ DOMAIN times = Askers
  /\ \A r \in Askers :
       (asking[r] = "over") =
         (outcome[r] \in {"allowed", "forbidden", "unknown", "KeyError"})

GateInv ==
  /\ GateTypes /\ NotesTaken
  /\ \A r \in Askers : Settled(r) => Decided(r)

(* The first opinion of a hook is what FirstSays() means.                  *)
LEMMA FirstOpinions ==
  ASSUME gate \in Gates, NEW has
  PROVE  /\ Gate!FirstSays(has, "yes") <=>
              Gate!Speakers(has) # {} /\ Gate!FirstOpinion(has) = "yes"
         /\ Gate!FirstSays(has, "no") <=>
              Gate!Speakers(has) # {} /\ Gate!FirstOpinion(has) # "yes"
<1> DEFINE S == Gate!Speakers(has)
           O(i) == Gate!Opinion(gate.before[i], has)
<1>1. \A i : O(i) \in {"yes", "no", "none"}
  BY DEF Gate!Opinion
<1>2. DOMAIN gate.before \subseteq Nat \ {0} /\ S \subseteq DOMAIN gate.before
      /\ \A i \in DOMAIN gate.before : 1 .. i \subseteq DOMAIN gate.before
  <2>1. gate.before \in Seq(Gate!Hooks)
    BY GateAssumption DEF Gate!GateType
  <2> QED BY <2>1 DEF Gate!Speakers
<1>3. \A said \in {"yes", "no"} :
        Gate!FirstSays(has, said) <=>
          \E i \in S : O(i) = said /\ \A k \in S : i <= k
  BY <1>1, <1>2 DEF Gate!FirstSays, Gate!Speakers
<1>4. CASE S = {}
  BY <1>3, <1>4
<1>5. CASE S # {}
  <2>1. \E i \in S : \A k \in S : i <= k
    BY <1>2, <1>5, Least
  <2>2. Gate!Min(S) \in S /\ \A k \in S : Gate!Min(S) <= k
    BY <2>1, Zenon DEF Gate!Min
  <2>3. \A i \in S : (\A k \in S : i <= k) => i = Gate!Min(S)
    BY <1>2, <2>2
  <2>4. \A said \in {"yes", "no"} : Gate!FirstSays(has, said) <=> O(Gate!Min(S)) = said
    BY <1>3, <2>2, <2>3
  <2>5. O(Gate!Min(S)) \in {"yes", "no"}
    BY <1>1, <2>2 DEF Gate!Speakers
  <2> HIDE DEF S, O
  <2>6. Gate!FirstOpinion(has) = O(Gate!Min(S)) /\ Gate!Speakers(has) = S
    BY DEF Gate!FirstOpinion, S, O
  <2> QED BY <1>5, <2>4, <2>5, <2>6
<1> QED BY <1>4, <1>5

(* allows() says what the rules say, where an ability is registered.       *)
LEMMA AllowsEntitled ==
  ASSUME gate \in Gates, NEW u, NEW has, NEW who,
         Gate!Speakers(has) # {} \/ Gate!Source # "none"
  PROVE  Gate!Allows(u, has, who) <=> Gate!Entitled(u, has, who)
BY FirstOpinions DEF Gate!Allows, Gate!Entitled, Gate!Source, Gate!PolicyCheck, Gate!Opinion

LEMMA NothingEntitles ==
  ASSUME gate \in Gates, NEW u, NEW has, NEW who,
         Gate!Speakers(has) = {}, Gate!Source = "none"
  PROVE  ~ Gate!Entitled(u, has, who)
BY FirstOpinions DEF Gate!Entitled, Gate!Source

LEMMA IdentifiedKnown ==
  ASSUME GateTypes, NEW r \in Askers
  PROVE  Gate!Identified(claims[r]) <=> Gate!View(claims[r]).known
<1>1. claims[r].by \in {"nobody", "session", "token"} /\ claims[r].issued \in Int /\ age \in Int
  BY GateAssumption DEF GateTypes, Gate!Claims
<1> QED BY <1>1, GateAssumption
        DEF Gate!Identified, Gate!View, Gate!Known, Gate!Valid

LEMMA GateInit ==
  ASSUME Gate!Init
  PROVE  GateInv
<1>1. claims \in [Askers -> Gate!Claims] /\ \A r \in Askers : asking[r] = "new"
  BY DEF Gate!Init
<1>2. GateTypes
  <2>1. 0 \in 0 .. MaxAge
    BY GateAssumption
  <2>2. 0 \in 0 .. MaxChanges
    BY GateAssumption
  <2> QED BY <1>1, <2>1, <2>2 DEF Gate!Init, GateTypes, Gate!Roles
<1> QED BY <1>1, <1>2 DEF GateInv, NotesTaken, Settled

LEMMA BeginDecides ==
  ASSUME GateInv, NEW r \in Askers, Gate!Begin(r)
  PROVE  GateInv'
<1>1. GateTypes'
  BY DEF GateInv, GateTypes, Gate!Begin
<1>2. \A c : Gate!View(c)' = Gate!View(c)
  BY DEF Gate!Begin, Gate!View, Gate!Known
<1>3. NotesTaken'
  <2>1. Gate!View(claims[r]).author = author
    BY DEF Gate!View
  <2> QED BY <1>2, <2>1 DEF GateInv, GateTypes, NotesTaken, Gate!Begin
<1>4. \A q \in Askers : Settled(q)' => q # r /\ Settled(q)
  BY DEF GateInv, GateTypes, Settled, Gate!Begin
<1>5. \A q \in Askers \ {r} : Decided(q) => Decided(q)'
  BY DEF GateInv, GateTypes, Decided, Right, Gate!Begin, Gate!Entitled, Gate!FirstSays
<1> QED BY <1>1, <1>3, <1>4, <1>5 DEF GateInv

LEMMA AuthorizeDecides ==
  ASSUME GateInv, NEW r \in Askers, Gate!Authorize(r)
  PROVE  GateInv'
<1> DEFINE then == Gate!View(claims[r])
           u == claims[r].user
           has == roles[u]
<1>1. GateTypes'
  BY DEF GateInv, GateTypes, Gate!Authorize, Gate!Decision
<1>2. \A c : Gate!View(c)' = Gate!View(c)
  BY DEF Gate!Authorize, Gate!View, Gate!Known
<1>3. NotesTaken'
  BY <1>2 DEF GateInv, GateTypes, NotesTaken, Gate!Authorize
<1>4. PICK before \in times[r] : before.author = post[r]
  BY DEF GateInv, NotesTaken, Gate!Authorize
<1>5. then \in times[r] /\ then.has = has /\ Gate!Has(claims[r]) = has
  BY DEF GateInv, NotesTaken, Gate!Authorize, Gate!View, Gate!Has
<1>6. gate \in Gates /\ (then.known <=> Gate!Identified(claims[r]))
  BY IdentifiedKnown DEF GateInv, GateTypes
<1>7. LET said == Gate!Decision(claims[r], post[r]) IN
        \/ said = "allowed" /\ then.known /\ Right(r, then, before)
        \/ said = "unknown" /\ ~ then.known
        \/ said \in {"forbidden", "KeyError"} /\ then.known /\ ~ Right(r, then, before)
  <2>1. CASE ~ Gate!Identified(claims[r])
    BY <1>6, <2>1 DEF Gate!Decision
  <2>2. CASE Gate!Identified(claims[r]) /\ Gate!Speakers(has) = {} /\ Gate!Source = "none"
    BY <1>4, <1>5, <1>6, <2>2, NothingEntitles DEF Gate!Decision, Right
  <2>3. CASE Gate!Identified(claims[r]) /\ (Gate!Speakers(has) # {} \/ Gate!Source # "none")
    <3>1. Gate!Allows(u, has, post[r]) <=> Gate!Entitled(u, has, post[r])
      BY <1>6, <2>3, AllowsEntitled
    <3> QED BY <1>4, <1>5, <1>6, <2>3, <3>1 DEF Gate!Decision, Right
  <2> QED BY <2>1, <2>2, <2>3
<1>8. outcome'[r] = Gate!Decision(claims[r], post[r])
  BY DEF GateInv, GateTypes, Gate!Authorize
<1>9. UNCHANGED <<gate, claims, times>>
  BY DEF Gate!Authorize
<1>10. \A p, q : Right(r, p, q)' = Right(r, p, q)
  BY <1>9 DEF Right, Gate!Entitled, Gate!FirstSays
<1> HIDE DEF then
<1>11. Decided(r)'
  BY <1>4, <1>5, <1>7, <1>8, <1>9, <1>10 DEF Decided
<1>12. \A q \in Askers : q # r => Settled(q)' = Settled(q) /\ Decided(q)' = Decided(q)
  BY DEF GateInv, GateTypes, Settled, Decided, Right, Gate!Authorize, Gate!Entitled, Gate!FirstSays
<1> QED BY <1>1, <1>3, <1>11, <1>12 DEF GateInv

(* What others commit, or the clock: each request under way notes it.      *)
LEMMA OthersDecide ==
  ASSUME GateInv, Gate!Change \/ Gate!Tick
  PROVE  GateInv'
<1>1. /\ UNCHANGED <<gate, asking, claims, post, outcome>>
      /\ times' = [r \in Askers |->
           times[r] \cup IF asking[r] = "begun" THEN {Gate!View(claims[r])'} ELSE {}]
  BY DEF Gate!Change, Gate!Tick, Gate!Remember
<1>2. GateTypes'
  <2>1. roles' \in [People -> SUBSET Gate!Roles] /\ author' \in People /\ users' \subseteq People
    <3>1. \/ UNCHANGED <<roles, author, users>>
          \/ \E u \in users, new \in SUBSET Gate!Roles :
               roles' = [roles EXCEPT ![u] = new] /\ UNCHANGED <<author, users>>
          \/ author' \in users /\ UNCHANGED <<roles, users>>
          \/ \E u \in users : users' = users \ {u} /\ UNCHANGED <<roles, author>>
      BY DEF Gate!Change, Gate!Tick
    <3> HIDE DEF Gate!Roles
    <3> QED BY <3>1 DEF GateInv, GateTypes
  <2>2. age' \in 0 .. MaxAge /\ changes' \in 0 .. MaxChanges
    BY GateAssumption DEF GateInv, GateTypes, Gate!Change, Gate!Tick
  <2> QED BY <1>1, <2>1, <2>2 DEF GateInv, GateTypes
<1>3. \A r \in Askers : times[r] \subseteq times'[r]
  BY <1>1
<1>4. \A r \in Askers : asking[r] = "begun" => Gate!View(claims[r])' \in times'[r]
  BY <1>1
<1>5. NotesTaken'
  BY <1>1, <1>3, <1>4 DEF GateInv, NotesTaken
<1>6. \A r \in Askers : \A then, before : Right(r, then, before)' = Right(r, then, before)
  BY <1>1 DEF Right, Gate!Entitled, Gate!FirstSays
<1>7. \A r \in Askers : Settled(r)' => Decided(r)'
  <2> SUFFICES ASSUME NEW r \in Askers, Settled(r)'  PROVE Decided(r)'
    OBVIOUS
  <2>1. Decided(r)
    BY <1>1 DEF GateInv, Settled
  <2> QED BY <1>1, <1>3, <1>6, <2>1 DEF Decided
<1> QED BY <1>2, <1>5, <1>7 DEF GateInv

LEMMA GateNext ==
  ASSUME GateInv, [Gate!Next]_(Gate!vars)
  PROVE  GateInv'
<1>1. CASE UNCHANGED Gate!vars
  BY <1>1 DEF Gate!vars, GateInv, GateTypes, NotesTaken, Settled, Decided, Right,
              Gate!View, Gate!Known, Gate!Entitled, Gate!FirstSays
<1>2. CASE Gate!Next
  BY <1>2, BeginDecides, AuthorizeDecides, OthersDecide DEF Gate!Next
<1> QED BY <1>1, <1>2

LEMMA GateDecides ==
  ASSUME GateInv
  PROVE  Gate!DecidedOnThen
<1> SUFFICES ASSUME NEW r \in Askers, Settled(r)
             PROVE  \E then, before \in times[r] :
                      LET right == Gate!Entitled(claims[r].user, then.has, before.author)
                      IN  CASE outcome[r] = "allowed" -> then.known /\ right
                            [] outcome[r] = "unknown" -> ~ then.known
                            [] OTHER -> then.known /\ ~ right
  BY DEF Gate!DecidedOnThen, Settled
<1>1. PICK then \in times[r], before \in times[r] :
        \/ outcome[r] = "allowed" /\ then.known /\ Right(r, then, before)
        \/ outcome[r] = "unknown" /\ ~ then.known
        \/ outcome[r] \in {"forbidden", "KeyError"} /\ then.known /\ ~ Right(r, then, before)
  BY DEF GateInv, Decided
<1> QED BY <1>1 DEF Right

LEMMA AccessSteps ==
  ASSUME view = "access", [RequestNext]_requestVars
  PROVE  view' = "access" /\ [Gate!Next]_(Gate!vars)
BY DEF RequestNext, requestVars, gateVars, Gate!vars

(***************************************************************************)
(* SessionLogin                                                            *)
(***************************************************************************)

Held(s) == Browser!Held(s)
UnderWay(t) == response[t] # Browser!NoResponse
Carried(t) == Held(response[t].carried)
Left(t) == Held(response[t].session)
Fresh(t) == Left(t) \ Carried(t)

(* A number stands for one thing.                                          *)
Distinct(s) ==
  /\ s.user # 0 => s.user # s.pending /\ s.user # s.state
  /\ s.pending # 0 => s.pending # s.state

Numbered(s) == s \in Browser!Sessions /\ Distinct(s) /\ Held(s) \subseteq 1 .. issued

CookieTypes ==
  /\ issued \in 0 .. MaxIssued /\ tokens \in 0 .. MaxTokens /\ csrf \in 0 .. MaxTokens
  /\ response \in [Tabs -> Browser!Responses \cup {Browser!NoResponse}]
  /\ form \in [Tabs -> 0 .. MaxTokens] /\ callback \in [Tabs -> 0 .. issued]
  /\ over \in SUBSET (1 .. issued) /\ shared \in SUBSET (1 .. issued) /\ split \in BOOLEAN
  /\ Numbered(session)
  /\ \A t \in Tabs : UnderWay(t) => Numbered(response[t].carried) /\ Numbered(response[t].session)

(* A response brings back what its request carried and what is new, and    *)
(* ends what it does not bring back.                                       *)
ResponsesEnd ==
  \A t \in Tabs : UnderWay(t) =>
    /\ response[t].over \subseteq Carried(t) \ Left(t)
    /\ Fresh(t) \cap (over \cup Held(session)) = {}
    /\ over \cap Carried(t) \subseteq shared

Overlap ==
  \A t, q \in Tabs : UnderWay(t) /\ UnderWay(q) /\ t # q =>
    /\ Fresh(t) \cap (Carried(q) \cup Left(q)) = {}
    /\ Carried(t) \cap Carried(q) \subseteq shared

(* The browser gets its first token from one response, or two overlapped.  *)
TokensAgree ==
  \/ split
  \/ /\ csrf = 0 /\ \A t \in Tabs : form[t] = 0
     /\ \A t, q \in Tabs : UnderWay(t) /\ UnderWay(q) => t = q
     /\ \A t \in Tabs : UnderWay(t) => response[t].setsToken
  \/ /\ csrf # 0 /\ \A t \in Tabs : form[t] \in {0, csrf}
     /\ \A t \in Tabs : UnderWay(t) => response[t].token = csrf

CookieInv ==
  CookieTypes /\ ResponsesEnd /\ Overlap /\ TokensAgree /\ Browser!OverIsOver

LEMMA CookieInit ==
  ASSUME Browser!Init
  PROVE  CookieInv
<1>1. /\ issued = 0 /\ tokens = 0 /\ csrf = 0 /\ session = Browser!Empty
      /\ over = {} /\ shared = {} /\ split = FALSE
      /\ \A t \in Tabs : ~ UnderWay(t)
      /\ response = [t \in Tabs |-> Browser!NoResponse]
      /\ form = [t \in Tabs |-> 0] /\ callback = [t \in Tabs |-> 0]
  BY DEF Browser!Init, UnderWay
<1>2. Held(session) = {}
  BY <1>1 DEF Held, Browser!Held, Browser!Empty
<1>3. Numbered(session)
  BY <1>1, <1>2, BrowserAssumption DEF Numbered, Distinct, Browser!Sessions, Browser!Empty
<1>4. CookieTypes
  <2>1. 0 \in 0 .. MaxIssued /\ 0 \in 0 .. MaxTokens /\ 0 \in 0 .. 0
    BY BrowserAssumption
  <2>2. /\ form \in [Tabs -> 0 .. MaxTokens] /\ callback \in [Tabs -> 0 .. issued]
        /\ response \in [Tabs -> Browser!Responses \cup {Browser!NoResponse}]
    <3> HIDE DEF Browser!Responses
    <3> QED BY <1>1, <2>1
  <2> QED BY <1>1, <1>3, <2>1, <2>2 DEF CookieTypes
<1> QED BY <1>1, <1>2, <1>4 DEF CookieInv, ResponsesEnd, Overlap, TokensAgree, Browser!OverIsOver,
                                Held

(* A request is handled: what its handler may leave in the session.        *)
LEMMA Responded ==
  ASSUME CookieInv, NEW t \in Tabs, NEW kind \in {"page", "redirect", "other"},
         NEW s \in Browser!Sessions, NEW done, Browser!Respond(t, kind, s, done),
         Distinct(s), issued' \in issued .. MaxIssued,
         Held(s) \ Held(session) \subseteq issued + 1 .. issued',
         done \ {0} \subseteq Held(session) \ Held(s)
  PROVE  CookieInv'
<1> DEFINE r == [kind |-> kind, carried |-> session, session |-> s,
                 token |-> Browser!TokenOfRequest,
                 setsToken |-> Browser!TokenOfRequest # csrf, over |-> done \ {0}]
<1>1. /\ ~ UnderWay(t) /\ response' = [response EXCEPT ![t] = r]
      /\ UNCHANGED <<session, csrf, form, callback, over>>
      /\ shared' = shared \cup (Held(session) \cap UNION {Held(response[q].carried) : q \in Browser!Busy})
      /\ split' = (split \/ (csrf = 0 /\ Browser!Busy # {}))
  BY DEF Browser!Respond, Browser!browserVars, UnderWay, Held
<1>2. /\ tokens' \in 0 .. MaxTokens /\ Browser!TokenOfRequest \in 1 .. MaxTokens
      /\ (csrf # 0 => Browser!TokenOfRequest = csrf)
      /\ (csrf = 0 => Browser!TokenOfRequest # csrf)
  BY BrowserAssumption DEF Browser!Respond, Browser!TokenOfRequest, CookieInv, CookieTypes
<1>3. issued \in Nat /\ issued' \in Nat /\ issued <= issued'
  BY <1>2, BrowserAssumption DEF CookieInv, CookieTypes
<1>4. Numbered(session)' /\ Numbered(s)'
  <2>1. Held(session) \subseteq 1 .. issued
    BY DEF CookieInv, CookieTypes, Numbered
  <2>2. Held(session) \subseteq 1 .. issued' /\ Held(s) \subseteq 1 .. issued'
    BY <1>3, <2>1
  <2> QED BY <1>1, <2>2 DEF CookieInv, CookieTypes, Numbered, Held, Browser!Held, Distinct
<1>5. r \in Browser!Responses /\ r # Browser!NoResponse
  <2>1. done \ {0} \in SUBSET (1 .. MaxIssued)
    BY BrowserAssumption DEF CookieInv, CookieTypes, Numbered
  <2>2. Browser!TokenOfRequest \in 1 .. MaxTokens /\ session \in Browser!Sessions
    BY <1>2, BrowserAssumption DEF CookieInv, CookieTypes, Numbered
  <2> QED BY <2>1, <2>2 DEF Browser!Responses, Browser!NoResponse
<1> HIDE DEF r
<1>6. /\ response'[t] = r /\ UnderWay(t)'
      /\ \A q \in Tabs \ {t} : response'[q] = response[q] /\ UnderWay(q)' = UnderWay(q)
  BY <1>1, <1>5 DEF CookieInv, CookieTypes, UnderWay
<1>7. /\ Carried(t)' = Held(session) /\ Left(t)' = Held(s)
      /\ \A q \in Tabs \ {t} : Carried(q)' = Carried(q) /\ Left(q)' = Left(q) /\ Fresh(q)' = Fresh(q)
      /\ Fresh(t)' \subseteq issued + 1 .. issued'
  BY <1>6 DEF Carried, Left, Fresh, Held, Browser!Held, r
<1>8. \A q \in Tabs : UnderWay(q) => Carried(q) \cup Left(q) \subseteq 1 .. issued
  BY DEF CookieInv, CookieTypes, Numbered, Carried, Left
<1>9. \A q \in Tabs : UnderWay(q) => Held(session) \cap Carried(q) \subseteq shared'
  BY <1>1 DEF Browser!Busy, Carried, UnderWay
<1>10. shared \subseteq shared' /\ shared' \in SUBSET (1 .. issued')
  <2>1. Held(session) \subseteq 1 .. issued' /\ shared \subseteq 1 .. issued'
    BY <1>3 DEF CookieInv, CookieTypes, Numbered
  <2> QED BY <1>1, <2>1
<1>11. CookieTypes'
  <2>1. /\ issued' \in 0 .. MaxIssued /\ tokens' \in 0 .. MaxTokens /\ csrf' \in 0 .. MaxTokens
        /\ form' \in [Tabs -> 0 .. MaxTokens] /\ callback' \in [Tabs -> 0 .. issued']
        /\ over' \in SUBSET (1 .. issued') /\ split' \in BOOLEAN
    BY <1>1, <1>2, <1>3, BrowserAssumption DEF CookieInv, CookieTypes
  <2>2. response' \in [Tabs -> Browser!Responses \cup {Browser!NoResponse}]
    BY <1>1, <1>5 DEF CookieInv, CookieTypes
  <2>3. \A q \in Tabs \ {t} : UnderWay(q)' =>
          Numbered(response[q].carried)' /\ Numbered(response[q].session)'
    <3>1. \A x : Held(x)' = Held(x) /\ Distinct(x)' = Distinct(x)
      BY DEF Held, Browser!Held, Distinct
    <3>2. \A x : Numbered(x) => Numbered(x)'
      BY <1>3, <3>1 DEF Numbered
    <3>3. \A q \in Tabs \ {t} : UnderWay(q)' =>
            Numbered(response[q].carried) /\ Numbered(response[q].session)
      BY <1>6 DEF CookieInv, CookieTypes
    <3> QED BY <1>6, <3>2, <3>3
  <2>4. Numbered(response[t].carried)' /\ Numbered(response[t].session)'
    BY <1>1, <1>4, <1>6 DEF r, Numbered, Held, Browser!Held, Distinct
  <2> QED BY <1>4, <1>10, <2>1, <2>2, <2>3, <2>4 DEF CookieTypes
<1>12. ResponsesEnd'
  <2>1. response'[t].over = done \ {0} /\ Held(session)' = Held(session)
    BY <1>1, <1>6 DEF r, Held, Browser!Held
  <2>2. over \subseteq 1 .. issued /\ Held(session) \subseteq 1 .. issued
    BY DEF CookieInv, CookieTypes, Numbered
  <2>3. /\ response'[t].over \subseteq Carried(t)' \ Left(t)'
        /\ Fresh(t)' \cap (over' \cup Held(session)') = {}
        /\ over' \cap Carried(t)' \subseteq shared'
    <3>1. (issued + 1 .. issued') \cap (1 .. issued) = {}
      BY <1>3
    <3>2. over \cap Held(session) \subseteq shared
      BY DEF CookieInv, Browser!OverIsOver, Held
    <3> QED BY <1>1, <1>7, <1>10, <2>1, <2>2, <3>1, <3>2
  <2> QED BY <1>1, <1>6, <1>7, <1>10, <2>1, <2>3 DEF CookieInv, ResponsesEnd
<1>13. Overlap'
  <2>1. (issued + 1 .. issued') \cap (1 .. issued) = {}
    BY <1>3
  <2>2. \A q \in Tabs \ {t} : UnderWay(q) =>
          /\ Fresh(t)' \cap (Carried(q) \cup Left(q)) = {}
          /\ Fresh(q) \cap (Held(session) \cup Held(s)) = {}
          /\ Held(session) \cap Carried(q) \subseteq shared'
    <3> SUFFICES ASSUME NEW q \in Tabs \ {t}, UnderWay(q)
                 PROVE  /\ Fresh(t)' \cap (Carried(q) \cup Left(q)) = {}
                        /\ Fresh(q) \cap (Held(session) \cup Held(s)) = {}
                        /\ Held(session) \cap Carried(q) \subseteq shared'
      OBVIOUS
    <3>1. Fresh(q) \cap Held(session) = {} /\ Fresh(q) \subseteq 1 .. issued
      BY <1>8 DEF CookieInv, ResponsesEnd, Fresh
    <3> QED BY <1>7, <1>8, <1>9, <2>1, <3>1
  <2>3. \A p, q \in Tabs : p # t /\ q # t /\ UnderWay(p) /\ UnderWay(q) /\ p # q =>
          /\ Fresh(p) \cap (Carried(q) \cup Left(q)) = {}
          /\ Carried(p) \cap Carried(q) \subseteq shared'
    BY <1>10 DEF CookieInv, Overlap
  <2>4. ASSUME NEW p \in Tabs, NEW q \in Tabs, UnderWay(p)', UnderWay(q)', p # q
        PROVE  /\ Fresh(p)' \cap (Carried(q)' \cup Left(q)') = {}
               /\ Carried(p)' \cap Carried(q)' \subseteq shared'
    <3>1. CASE p = t
      BY <1>6, <1>7, <2>2, <2>4, <3>1
    <3>2. CASE q = t
      BY <1>6, <1>7, <2>2, <2>4, <3>2
    <3>3. CASE p # t /\ q # t
      BY <1>6, <1>7, <2>3, <2>4, <3>3
    <3> QED BY <3>1, <3>2, <3>3
  <2> QED BY <2>4 DEF Overlap
<1>14. TokensAgree'
  <2>1. /\ response'[t].token = Browser!TokenOfRequest
        /\ response'[t].setsToken = (Browser!TokenOfRequest # csrf)
    BY <1>6 DEF r
  <2>2. csrf = 0 /\ ~ split' => \A q \in Tabs : ~ UnderWay(q)
    BY <1>1 DEF Browser!Busy, UnderWay
  <2>3. csrf' = csrf /\ form' = form /\ (split => split')
    BY <1>1
  <2> QED BY <1>2, <1>6, <2>1, <2>2, <2>3 DEF CookieInv, TokensAgree
<1>15. Browser!OverIsOver'
  BY <1>1, <1>10 DEF CookieInv, Browser!OverIsOver, Browser!Held
<1> QED BY <1>11, <1>12, <1>13, <1>14, <1>15 DEF CookieInv

LEMMA Handled ==
  ASSUME CookieInv, NEW t \in Tabs,
         \/ Browser!Page(t) \/ Browser!CompleteChallenge(t) \/ Browser!Logout(t)
         \/ Browser!RedirectUrl(t)
         \/ \E u \in Users : Browser!Login(t, u)
         \/ \E consented \in BOOLEAN : Browser!HandleCallback(t, consented)
  PROVE  CookieInv'
<1> DEFINE Good(s, done) ==
      /\ s \in Browser!Sessions /\ Distinct(s)
      /\ Held(s) \ Held(session) \subseteq issued + 1 .. issued'
      /\ done \ {0} \subseteq Held(session) \ Held(s)
<1>1. /\ session \in Browser!Sessions /\ Distinct(session) /\ Held(session) \subseteq 1 .. issued
      /\ issued \in Nat /\ issued <= MaxIssued /\ MaxIssued \in Nat
  BY BrowserAssumption DEF CookieInv, CookieTypes, Numbered
<1>2. \A x \in {session.user, session.pending, session.state} : x \in 0 .. issued
  BY <1>1 DEF Held, Browser!Held, Browser!Sessions
<1> USE DEF Browser!Sessions, Distinct, Held, Browser!Held
<1>3. ASSUME Browser!Page(t)  PROVE CookieInv'
  <2>1. Good(session, {}) /\ issued' \in issued .. MaxIssued
    BY <1>1, <1>3 DEF Browser!Page
  <2> QED BY <1>3, <2>1, Responded DEF Browser!Page
<1>4. ASSUME Browser!CompleteChallenge(t)  PROVE CookieInv'
  <2> DEFINE s == [session EXCEPT !.pending = 0, !.user = issued + 1]
  <2>1. Browser!Respond(t, "other", s, {session.pending, session.user}) /\ issued' = issued + 1
        /\ issued < MaxIssued
    BY <1>4 DEF Browser!CompleteChallenge, Browser!Issue
  <2>2. s.user = issued + 1 /\ s.pending = 0 /\ s.state = session.state
    BY <1>1
  <2>3. Good(s, {session.pending, session.user}) /\ issued' \in issued .. MaxIssued
    <3>1. s \in Browser!Sessions /\ Distinct(s)
      <4>1. issued + 1 \in 0 .. MaxIssued /\ 0 \in 0 .. MaxIssued
        BY <1>1, <2>1
      <4>2. s \in Browser!Sessions
        BY <1>1, <4>1
      <4> HIDE DEF s
      <4>3. Distinct(s)
        BY <1>1, <1>2, <2>2
      <4> QED BY <4>2, <4>3
    <3>2. Held(s) = {issued + 1, session.state} \ {0}
      BY <2>2
    <3>3. Held(session) = {session.user, session.pending, session.state} \ {0}
      OBVIOUS
    <3> HIDE DEF s, Held
    <3>4. Held(s) \ Held(session) \subseteq issued + 1 .. issued'
      BY <1>1, <2>1, <3>2, <3>3
    <3>5. {session.pending, session.user} \ {0} \subseteq Held(session) \ Held(s)
      BY <1>1, <1>2, <3>2, <3>3
    <3> QED BY <1>1, <2>1, <3>1, <3>4, <3>5
  <2> HIDE DEF Distinct, Held
  <2> QED BY <2>1, <2>3, Responded
<1>5. ASSUME Browser!Logout(t)  PROVE CookieInv'
  <2> DEFINE s == [session EXCEPT !.user = 0]
  <2>1. Good(s, {session.user}) /\ issued' \in issued .. MaxIssued
    BY <1>1, <1>2, <1>5 DEF Browser!Logout
  <2> QED BY <1>5, <2>1, Responded DEF Browser!Logout
<1>6. ASSUME Browser!RedirectUrl(t)  PROVE CookieInv'
  <2> DEFINE s == [session EXCEPT !.state = issued + 1]
  <2>1. Browser!Respond(t, "redirect", s, {session.state}) /\ issued' = issued + 1
        /\ issued < MaxIssued
    BY <1>6 DEF Browser!RedirectUrl, Browser!Issue
  <2>2. Good(s, {session.state}) /\ issued' \in issued .. MaxIssued
    BY <1>1, <1>2, <2>1
  <2> QED BY <2>1, <2>2, Responded
<1>7. ASSUME NEW u \in Users, Browser!Login(t, u)  PROVE CookieInv'
  <2>1. CASE u \in WithSecondFactor
    <3> DEFINE s == [session EXCEPT !.pending = issued + 1]
    <3>1. Browser!Respond(t, "other", s, {session.pending}) /\ issued' = issued + 1
          /\ issued < MaxIssued
      BY <1>7, <2>1 DEF Browser!Login, Browser!Issue
    <3>2. Good(s, {session.pending}) /\ issued' \in issued .. MaxIssued
      BY <1>1, <1>2, <3>1
    <3> QED BY <3>1, <3>2, Responded
  <2>2. CASE u \notin WithSecondFactor
    <3> DEFINE s == [session EXCEPT !.user = issued + 1]
    <3>1. Browser!Respond(t, "other", s, {session.user}) /\ issued' = issued + 1
          /\ issued < MaxIssued
      BY <1>7, <2>2 DEF Browser!Login, Browser!Issue
    <3>2. Good(s, {session.user}) /\ issued' \in issued .. MaxIssued
      BY <1>1, <1>2, <3>1
    <3> QED BY <3>1, <3>2, Responded
  <2> QED BY <2>1, <2>2
<1>8. ASSUME NEW consented \in BOOLEAN, Browser!HandleCallback(t, consented)  PROVE CookieInv'
  <2> DEFINE popped == [session EXCEPT !.state = 0]
             s == [popped EXCEPT !.user = issued + 1]
  <2>1. CASE /\ issued < MaxIssued /\ issued' = issued + 1
             /\ Browser!Respond(t, "other", s, {session.state, session.user})
    <3>1. s.user = issued + 1 /\ s.pending = session.pending /\ s.state = 0
      BY <1>1
    <3>2. Good(s, {session.state, session.user}) /\ issued' \in issued .. MaxIssued
      <4>1. s \in Browser!Sessions /\ Distinct(s)
        <5>1. issued + 1 \in 0 .. MaxIssued /\ 0 \in 0 .. MaxIssued
          BY <1>1, <2>1
        <5>2. s \in Browser!Sessions
          BY <1>1, <5>1
        <5> HIDE DEF s
        <5>3. Distinct(s)
          BY <1>1, <1>2, <3>1
        <5> QED BY <5>2, <5>3
      <4>2. Held(s) = {issued + 1, session.pending} \ {0}
        BY <3>1
      <4>3. Held(session) = {session.user, session.pending, session.state} \ {0}
        OBVIOUS
      <4> HIDE DEF s, Held
      <4>4. Held(s) \ Held(session) \subseteq issued + 1 .. issued'
        BY <1>1, <2>1, <4>2, <4>3
      <4>5. {session.state, session.user} \ {0} \subseteq Held(session) \ Held(s)
        BY <1>1, <1>2, <4>2, <4>3
      <4> QED BY <1>1, <2>1, <4>1, <4>4, <4>5
    <3> HIDE DEF Distinct, Held
    <3> QED BY <2>1, <3>2, Responded
  <2>2. CASE Browser!Respond(t, "other", popped, {session.state}) /\ issued' = issued
    <3>1. Good(popped, {session.state}) /\ issued' \in issued .. MaxIssued
      BY <1>1, <1>2, <2>2
    <3> QED BY <2>2, <3>1, Responded
  <2> QED BY <1>8, <2>1, <2>2 DEF Browser!HandleCallback, Browser!Issue
<1> QED BY <1>3, <1>4, <1>5, <1>6, <1>7, <1>8

(* The answer of a tab is there, or lost.                                  *)
LEMMA Received ==
  ASSUME CookieInv, NEW t \in Tabs, Browser!Receive(t)
  PROVE  CookieInv'
<1> DEFINE r == response[t]
<1>1. /\ UnderWay(t) /\ response' = [response EXCEPT ![t] = Browser!NoResponse]
      /\ over' = over \cup r.over /\ UNCHANGED <<issued, tokens, shared, split>>
      /\ csrf' = IF r.setsToken THEN r.token ELSE csrf
      /\ form' = IF r.kind = "page" THEN [form EXCEPT ![t] = r.token] ELSE form
      /\ callback' = IF r.kind = "redirect" THEN [callback EXCEPT ![t] = r.session.state]
                                            ELSE callback
  BY DEF Browser!Receive, UnderWay
<1>2. r \in Browser!Responses /\ Numbered(r.session) /\ Numbered(r.carried)
  BY <1>1 DEF CookieInv, CookieTypes, UnderWay
<1>3. \/ session' = r.session
      \/ session' = session /\ Carried(t) = {} /\ Left(t) = {}
  BY DEF Browser!Receive, Browser!Empty, Carried, Left, Held, Browser!Held
<1>4. /\ ~ UnderWay(t)'
      /\ \A q \in Tabs : UnderWay(q)' => q # t /\ UnderWay(q) /\ response'[q] = response[q]
      /\ \A q \in Tabs \ {t} : Carried(q)' = Carried(q) /\ Left(q)' = Left(q) /\ Fresh(q)' = Fresh(q)
  BY <1>1 DEF CookieInv, CookieTypes, UnderWay, Carried, Left, Fresh, Held, Browser!Held
<1>5. \A q \in Tabs \ {t} : UnderWay(q) =>
        /\ Fresh(q) \cap (Carried(t) \cup Left(t)) = {}
        /\ Carried(t) \cap Carried(q) \subseteq shared
  BY <1>1 DEF CookieInv, Overlap
<1>6. /\ r.over \subseteq Carried(t) \ Left(t) /\ over \cap Carried(t) \subseteq shared
      /\ Fresh(t) \cap (over \cup Held(session)) = {}
  BY <1>1 DEF CookieInv, ResponsesEnd
<1>7. Held(session)' \subseteq Left(t) \/ (Held(session)' = Held(session) /\ r.over = {})
  BY <1>3, <1>6 DEF Held, Browser!Held, Left
<1>8. CookieTypes'
  <2>1. Numbered(session)'
    <3>1. Numbered(session)
      BY DEF CookieInv, CookieTypes
    <3> QED BY <1>1, <1>2, <1>3, <3>1 DEF Numbered, Held, Browser!Held, Distinct
  <2>2. over' \in SUBSET (1 .. issued')
    BY <1>1, <1>2, <1>6 DEF CookieInv, CookieTypes, Numbered, Carried
  <2>3. r.session.state \in 0 .. issued
    BY <1>2, BrowserAssumption DEF CookieInv, CookieTypes, Numbered, Held, Browser!Held, Browser!Sessions
  <2>4. callback' \in [Tabs -> 0 .. issued']
    BY <1>1, <2>3 DEF CookieInv, CookieTypes
  <2>5. response' \in [Tabs -> Browser!Responses \cup {Browser!NoResponse}]
    BY <1>1 DEF CookieInv, CookieTypes
  <2>6. \A q \in Tabs : UnderWay(q)' =>
          Numbered(response[q].carried)' /\ Numbered(response[q].session)'
    BY <1>1, <1>4 DEF CookieInv, CookieTypes, Numbered, Held, Browser!Held, Distinct
  <2>7. csrf' \in 0 .. MaxTokens /\ form' \in [Tabs -> 0 .. MaxTokens]
    <3>1. r.token \in 0 .. MaxTokens
      BY <1>2, BrowserAssumption DEF Browser!Responses
    <3> QED BY <1>1, <3>1 DEF CookieInv, CookieTypes
  <2> QED BY <1>1, <2>1, <2>2, <2>4, <2>5, <2>6, <2>7 DEF CookieInv, CookieTypes
<1>9. ResponsesEnd'
  <2> SUFFICES ASSUME NEW q \in Tabs, UnderWay(q)'
               PROVE  /\ response'[q].over \subseteq Carried(q)' \ Left(q)'
                      /\ Fresh(q)' \cap (over' \cup Held(session)') = {}
                      /\ over' \cap Carried(q)' \subseteq shared'
    BY DEF ResponsesEnd
  <2>1. q # t /\ UnderWay(q) /\ response'[q] = response[q]
    BY <1>4
  <2>2. /\ response[q].over \subseteq Carried(q) \ Left(q)
        /\ Fresh(q) \cap (over \cup Held(session)) = {}
        /\ over \cap Carried(q) \subseteq shared
    BY <2>1 DEF CookieInv, ResponsesEnd
  <2> QED BY <1>1, <1>4, <1>5, <1>6, <1>7, <2>1, <2>2
<1>10. Overlap'
  BY <1>1, <1>4 DEF CookieInv, Overlap
<1>11. TokensAgree'
  <2>1. csrf' = csrf \/ csrf = 0 \/ split \/ csrf' = r.token
    BY <1>1
  <2>2. r.token # 0
    BY <1>2, BrowserAssumption DEF Browser!Responses
  <2> QED BY <1>1, <1>4, <2>2 DEF CookieInv, CookieTypes, TokensAgree
<1>12. Browser!OverIsOver'
  <2>1. Left(t) \subseteq Carried(t) \cup Fresh(t) /\ Held(session) \cap over \subseteq shared
    BY DEF CookieInv, Browser!OverIsOver, Held, Fresh
  <2>2. Held(session)' \cap over' \subseteq shared'
    BY <1>1, <1>6, <1>7, <2>1
  <2> QED BY <2>2 DEF Browser!OverIsOver, Held
<1> QED BY <1>8, <1>9, <1>10, <1>11, <1>12 DEF CookieInv

LEMMA NothingReceived ==
  ASSUME CookieInv, NEW t \in Tabs, Browser!NoCookie(t)
  PROVE  CookieInv'
<1>1. /\ response' = [response EXCEPT ![t] = Browser!NoResponse]
      /\ UNCHANGED <<session, csrf, form, callback, over, shared, split, issued, tokens>>
  BY DEF Browser!NoCookie, Browser!browserVars, Browser!ghostVars
<1>2. /\ \A q \in Tabs : UnderWay(q)' => UnderWay(q) /\ response'[q] = response[q]
      /\ \A q \in Tabs : UnderWay(q)' => Carried(q)' = Carried(q) /\ Left(q)' = Left(q) /\ Fresh(q)' = Fresh(q)
  BY <1>1 DEF CookieInv, CookieTypes, UnderWay, Carried, Left, Fresh, Held, Browser!Held
<1>3. Held(session)' = Held(session) /\ \A s : Numbered(s)' = Numbered(s)
  BY <1>1 DEF Held, Browser!Held, Numbered, Distinct
<1>4. CookieTypes'
  <2>1. response' \in [Tabs -> Browser!Responses \cup {Browser!NoResponse}]
    BY <1>1 DEF CookieInv, CookieTypes
  <2> QED BY <1>1, <1>2, <1>3, <2>1 DEF CookieInv, CookieTypes
<1> QED BY <1>1, <1>2, <1>3, <1>4
        DEF CookieInv, ResponsesEnd, Overlap, TokensAgree, Browser!OverIsOver, Held

LEMMA CookieNext ==
  ASSUME CookieInv, [Browser!Next]_(Browser!vars)
  PROVE  CookieInv'
<1>1. CASE UNCHANGED Browser!vars
  <2>1. UNCHANGED <<session, csrf, form, callback, over, shared, split, response, issued, tokens>>
    BY <1>1 DEF Browser!vars, Browser!browserVars, Browser!ghostVars
  <2>2. \A x : Held(x)' = Held(x) /\ Distinct(x)' = Distinct(x) /\ Numbered(x)' = Numbered(x)
    BY <2>1 DEF Held, Browser!Held, Distinct, Numbered
  <2>3. \A t : Carried(t)' = Carried(t) /\ Left(t)' = Left(t) /\ Fresh(t)' = Fresh(t)
    BY <2>1 DEF Carried, Left, Fresh, Held, Browser!Held
  <2> QED BY <2>1, <2>2, <2>3 DEF CookieInv, CookieTypes, ResponsesEnd, Overlap, TokensAgree,
                                  Browser!OverIsOver, Held, UnderWay
<1>2. CASE Browser!Next
  BY <1>2, Handled, Received, NothingReceived DEF Browser!Next
<1> QED BY <1>1, <1>2

LEMMA CookieHolds ==
  ASSUME CookieInv
  PROVE  Browser!OverIsOver /\ Browser!FormsPass
BY DEF CookieInv, TokensAgree, Browser!FormsPass

LEMMA CookieSteps ==
  ASSUME view = "cookies", [RequestNext]_requestVars
  PROVE  view' = "cookies" /\ [Browser!Next]_(Browser!vars)
BY DEF RequestNext, requestVars, browserVars, Browser!vars, Browser!browserVars, Browser!ghostVars

(***************************************************************************)
(* SamlReplay                                                              *)
(***************************************************************************)

SamlTypes ==
  /\ locks \in Nat /\ faults \in Nat /\ presented \in BOOLEAN
  /\ replayLock \in [Processes -> 0 .. locks]
  /\ lockFound \in [Callbacks -> 0 .. locks]
  /\ step \in [Callbacks -> Saml!Steps]

LockKnown ==
  \A c \in Callbacks : step[c] \in Saml!Inside \cup {"waiting"} => lockFound[c] # 0

(* A lock lets one callback in.                                            *)
OneInside ==
  \A c, d \in Callbacks :
    step[c] \in Saml!Inside /\ step[d] \in Saml!Inside /\ lockFound[c] = lockFound[d] => c = d

AcceptedHere == {c \in Callbacks : step[c] = "accepted"}

(* Those that are accepted, or have found no record of the assertion.      *)
Passing == {c \in Callbacks : step[c] \in {"put", "accepted"}}

(* A callback that comes to one of these makes a lock.                     *)
Lockless == {p \in Processes : replayLock[p] = 0}

MayPass == Cardinality(Processes) + faults

(* Before the first is remembered only a fault makes another lock          *)
(* possible, and later nobody starts to pass.                              *)
FewPass ==
  IF presented THEN Cardinality(Passing) <= MayPass
          ELSE AcceptedHere = {} /\ locks + Cardinality(Lockless) <= MayPass

SamlInv == SamlTypes /\ LockKnown /\ OneInside /\ FewPass

(* Two that pass without any accepted one have different locks.            *)
LEMMA PassingHaveLocks ==
  ASSUME SamlTypes, LockKnown, OneInside, AcceptedHere = {}
  PROVE  Cardinality(Passing) <= locks
<1> DEFINE lock == [c \in Passing |-> lockFound[c]]
<1>1. \A c \in Passing : step[c] \in Saml!Inside /\ c \in Callbacks
  BY DEF Passing, AcceptedHere, Saml!Inside
<1>2. lock \in [Passing -> 1 .. locks]
  BY <1>1 DEF SamlTypes, LockKnown
<1>3. \A c, d \in Passing : lock[c] = lock[d] => c = d
  BY <1>1 DEF OneInside
<1>4. lock \in Injection(Passing, 1 .. locks)
  BY <1>2, <1>3 DEF Injection, IsInjective
<1>5. IsFiniteSet(1 .. locks) /\ Cardinality(1 .. locks) = locks
  BY FS_Interval DEF SamlTypes
<1> HIDE DEF lock
<1> QED BY <1>4, <1>5, FS_Injection

LEMMA SamlCounts ==
  /\ \A S \in SUBSET Callbacks : IsFiniteSet(S) /\ Cardinality(S) \in Nat
  /\ \A S \in SUBSET Processes : IsFiniteSet(S) /\ Cardinality(S) \in Nat
  /\ \A S \in SUBSET Callbacks : \A T \in SUBSET S : Cardinality(T) <= Cardinality(S)
BY FS_Subset, FS_CardinalityType, SamlAssumption

LEMMA SamlInit ==
  ASSUME Saml!Init
  PROVE  SamlInv
<1>1. SamlTypes /\ LockKnown /\ OneInside
  <2>1. \A c \in Callbacks : step[c] = "valid" /\ step[c] \notin Saml!Inside \cup {"waiting"}
    BY DEF Saml!Init, Saml!Inside
  <2>2. SamlTypes
    <3>1. 0 \in 0 .. locks /\ locks \in Nat
      BY DEF Saml!Init
    <3> QED BY <3>1 DEF Saml!Init, SamlTypes, Saml!Steps
  <2> QED BY <2>1, <2>2 DEF LockKnown, OneInside
<1>2. AcceptedHere = {} /\ Lockless = Processes /\ ~presented
  BY SamlAssumption DEF Saml!Init, AcceptedHere, Lockless
<1>3. locks + Cardinality(Lockless) <= MayPass
  BY <1>2, SamlCounts DEF Saml!Init, MayPass
<1> QED BY <1>1, <1>2, <1>3 DEF SamlInv, FewPass

(* A callback makes a lock where there is none, or waits for the one there.*)
LEMMA SamlArrives ==
  ASSUME SamlInv, NEW c \in Callbacks, Saml!Arrive(c)
  PROVE  SamlInv'
<1> DEFINE p == ProcessOf[c]
<1>1. p \in Processes /\ replayLock[p] \in 0 .. locks
  BY SamlAssumption DEF SamlInv, SamlTypes
<1>2. locks' \in Nat /\ locks <= locks' /\ lockFound'[c] \in 1 .. locks'
  BY <1>1 DEF Saml!Arrive, SamlInv, SamlTypes
<1>3. /\ lockFound' = [lockFound EXCEPT ![c] = lockFound'[c]]
      /\ replayLock' = [replayLock EXCEPT ![p] = lockFound'[c]]
      /\ step' = [step EXCEPT ![c] = "waiting"]
      /\ UNCHANGED <<presented, faults>>
  BY DEF Saml!Arrive, Saml!Become, SamlInv, SamlTypes
<1>4. SamlTypes'
  BY <1>1, <1>2, <1>3 DEF SamlInv, SamlTypes, Saml!Steps
<1>5. LockKnown' /\ OneInside'
  BY <1>2, <1>3 DEF SamlInv, SamlTypes, LockKnown, OneInside, Saml!Inside
<1>6. AcceptedHere' = AcceptedHere /\ Passing' = Passing
  BY <1>3 DEF Saml!Arrive, SamlInv, SamlTypes, AcceptedHere, Passing
<1>7. Lockless' = Lockless \ {p}
  BY <1>1, <1>2, <1>3 DEF SamlInv, SamlTypes, Lockless
<1>8. locks' + Cardinality(Lockless') = locks + Cardinality(Lockless)
  <2>1. IsFiniteSet(Lockless) /\ Cardinality(Lockless) \in Nat
    BY SamlCounts DEF Lockless
  <2>2. Cardinality(Lockless \ {p}) =
          IF p \in Lockless THEN Cardinality(Lockless) - 1 ELSE Cardinality(Lockless)
    BY <2>1, FS_RemoveElement
  <2>3. locks' = IF p \in Lockless THEN locks + 1 ELSE locks
    BY <1>1 DEF Saml!Arrive, Lockless
  <2> QED BY <1>7, <2>1, <2>2, <2>3 DEF SamlInv, SamlTypes
<1>9. FewPass'
  BY <1>3, <1>6, <1>8 DEF SamlInv, FewPass, MayPass
<1> QED BY <1>4, <1>5, <1>9 DEF SamlInv

LEMMA SamlAcquires ==
  ASSUME SamlInv, NEW c \in Callbacks, Saml!Acquire(c)
  PROVE  SamlInv'
<1>1. SamlTypes' /\ LockKnown'
  BY DEF Saml!Acquire, Saml!Become, SamlInv, SamlTypes, LockKnown, Saml!Steps, Saml!Inside
<1>2. OneInside'
  BY DEF Saml!Acquire, Saml!Become, Saml!Free, SamlInv, SamlTypes, OneInside
<1>3. AcceptedHere' = AcceptedHere /\ Passing' = Passing /\ Lockless' = Lockless
  BY DEF Saml!Acquire, Saml!Become, SamlInv, SamlTypes, AcceptedHere, Passing, Lockless
<1> QED BY <1>1, <1>2, <1>3 DEF Saml!Acquire, SamlInv, FewPass, MayPass

(* Whoever leaves makes room for one lock more.                            *)
LEMMA LeaveFrees ==
  ASSUME SamlInv, NEW c \in Callbacks,
         NEW s \in {"accepted", "refused", "failed"}, Saml!Leave(c, s),
         presented' \in BOOLEAN, faults' \in Nat
  PROVE  /\ SamlTypes' /\ LockKnown' /\ OneInside'
         /\ Cardinality(Lockless') <= Cardinality(Lockless) + 1
<1>1. SamlTypes' /\ LockKnown' /\ OneInside'
  <2>1. /\ step' = [step EXCEPT ![c] = s] /\ UNCHANGED <<lockFound, locks>>
        /\ replayLock' = [replayLock EXCEPT ![ProcessOf[c]] = 0]
    BY DEF Saml!Leave, Saml!Become
  <2>2. SamlTypes'
    <3>1. s \in Saml!Steps /\ 0 \in 0 .. locks
      BY DEF SamlInv, SamlTypes, Saml!Steps
    <3>2. step' \in [Callbacks -> Saml!Steps] /\ replayLock' \in [Processes -> 0 .. locks']
      BY <2>1, <3>1 DEF SamlInv, SamlTypes
    <3> QED BY <2>1, <3>2 DEF SamlInv, SamlTypes
  <2>3. LockKnown' /\ OneInside'
    BY <2>1 DEF SamlInv, SamlTypes, LockKnown, OneInside, Saml!Inside
  <2> QED BY <2>2, <2>3
<1>2. Lockless' = Lockless \cup {ProcessOf[c]}
  BY SamlAssumption DEF Saml!Leave, SamlInv, SamlTypes, Lockless
<1>3. IsFiniteSet(Lockless) /\ Cardinality(Lockless) \in Nat
  BY SamlCounts DEF Lockless
<1>4. Cardinality(Lockless \cup {ProcessOf[c]}) <= Cardinality(Lockless) + 1
  BY <1>3, FS_AddElement, SMTT(30)
<1> QED BY <1>1, <1>2, <1>4

LEMMA SamlAsks ==
  ASSUME SamlInv, NEW c \in Callbacks, Saml!Has(c)
  PROVE  SamlInv'
<1>1. CASE presented
  <2>1. Saml!Leave(c, "refused") /\ UNCHANGED <<presented, faults>>
    BY <1>1 DEF Saml!Has
  <2>2. SamlTypes' /\ LockKnown' /\ OneInside'
    BY <2>1, LeaveFrees DEF SamlInv, SamlTypes
  <2>3. Passing' = Passing
    BY <2>1 DEF Saml!Has, Saml!Leave, Saml!Become, SamlInv, SamlTypes, Passing
  <2> QED BY <1>1, <2>1, <2>2, <2>3 DEF SamlInv, FewPass, MayPass
<1>2. CASE ~presented
  <2>1. Saml!Become(c, "put") /\ UNCHANGED <<replayLock, lockFound, presented, locks, faults>>
    BY <1>2 DEF Saml!Has
  <2>2. SamlTypes' /\ LockKnown' /\ OneInside'
    BY <2>1 DEF Saml!Has, Saml!Become, SamlInv, SamlTypes, LockKnown, OneInside, Saml!Steps, Saml!Inside
  <2>3. AcceptedHere' = AcceptedHere /\ Lockless' = Lockless
    BY <2>1 DEF Saml!Has, Saml!Become, SamlInv, SamlTypes, AcceptedHere, Lockless
  <2> QED BY <1>2, <2>1, <2>2, <2>3 DEF SamlInv, FewPass, MayPass
<1> QED BY <1>1, <1>2

(* When the first is remembered, all that pass have a lock of their own,   *)
(* and there are not more locks than processes and faults.                 *)
LEMMA FewHavePassed ==
  ASSUME SamlInv
  PROVE  Cardinality(Passing) <= MayPass
<1>1. CASE presented
  BY <1>1 DEF SamlInv, FewPass
<1>2. CASE ~presented
  <2>1. Cardinality(Passing) <= locks
    BY <1>2, PassingHaveLocks DEF SamlInv, FewPass
  <2>2. Cardinality(Lockless) \in Nat /\ Cardinality(Passing) \in Nat
    BY SamlCounts DEF Lockless, Passing
  <2>3. MayPass \in Nat
    BY SamlCounts DEF SamlInv, SamlTypes, MayPass
  <2> QED BY <1>2, <2>1, <2>2, <2>3 DEF SamlInv, FewPass, SamlTypes
<1> QED BY <1>1, <1>2

LEMMA SamlPuts ==
  ASSUME SamlInv, NEW c \in Callbacks, Saml!Put(c)
  PROVE  SamlInv'
<1>1. Saml!Leave(c, "accepted") /\ presented' = TRUE /\ faults' = faults
  BY DEF Saml!Put
<1>2. SamlTypes' /\ LockKnown' /\ OneInside'
  BY <1>1, LeaveFrees DEF SamlInv, SamlTypes
<1>3. Passing' = Passing
  BY <1>1 DEF Saml!Put, Saml!Leave, Saml!Become, SamlInv, SamlTypes, Passing
<1> QED BY <1>1, <1>2, <1>3, FewHavePassed DEF SamlInv, FewPass, MayPass

LEMMA SamlFails ==
  ASSUME SamlInv, NEW c \in Callbacks, Saml!Fail(c)
  PROVE  SamlInv'
<1>1. /\ Saml!Leave(c, "failed") /\ faults' = faults + 1 /\ locks' = locks
      /\ presented' \in BOOLEAN /\ (presented => presented')
  BY DEF Saml!Fail, Saml!Leave, SamlInv, SamlTypes
<1>2. /\ SamlTypes' /\ LockKnown' /\ OneInside'
      /\ Cardinality(Lockless') <= Cardinality(Lockless) + 1
  BY <1>1, LeaveFrees DEF SamlInv, SamlTypes
<1>3. MayPass' = MayPass + 1 /\ MayPass \in Nat
  BY <1>1, SamlCounts DEF MayPass, SamlInv, SamlTypes
<1>4. CASE presented'
  <2>1. Passing' \in SUBSET Passing
    BY <1>1 DEF Saml!Leave, Saml!Become, SamlInv, SamlTypes, Passing
  <2>2. /\ Cardinality(Passing') <= Cardinality(Passing)
        /\ Cardinality(Passing) \in Nat /\ Cardinality(Passing') \in Nat
    <3>1. Passing \in SUBSET Callbacks /\ Passing' \in SUBSET Callbacks
      BY DEF Passing
    <3> QED BY <2>1, <3>1, SamlCounts
  <2>3. Cardinality(Passing') <= MayPass'
    BY <1>3, <2>2, FewHavePassed
  <2> QED BY <1>2, <1>4, <2>3 DEF SamlInv, FewPass
<1>5. CASE ~presented'
  <2>1. AcceptedHere' = {}
    BY <1>1, <1>5 DEF Saml!Leave, Saml!Become, SamlInv, SamlTypes, FewPass, AcceptedHere
  <2>2. Cardinality(Lockless) \in Nat /\ Cardinality(Lockless') \in Nat
    BY SamlCounts DEF Lockless
  <2>3. locks + Cardinality(Lockless) <= MayPass
    BY <1>1, <1>5 DEF SamlInv, FewPass
  <2> QED BY <1>1, <1>2, <1>3, <1>5, <2>1, <2>2, <2>3 DEF SamlInv, FewPass, SamlTypes
<1> QED BY <1>4, <1>5

LEMMA SamlNext ==
  ASSUME SamlInv, [Saml!Next]_(Saml!vars)
  PROVE  SamlInv'
<1>1. CASE UNCHANGED Saml!vars
  BY <1>1 DEF Saml!vars, SamlInv, SamlTypes, LockKnown, OneInside, FewPass, AcceptedHere, Passing,
              Lockless, MayPass
<1>2. CASE Saml!Next
  BY <1>2, SamlArrives, SamlAcquires, SamlAsks, SamlPuts, SamlFails
     DEF Saml!Next
<1> QED BY <1>1, <1>2

LEMMA SamlCardinality == \A S : Saml!Cardinality(S) = Cardinality(S)
BY DEF Cardinality, Saml!Cardinality

LEMMA SamlHolds ==
  ASSUME SamlInv
  PROVE  Saml!AcceptedOnce
<1>1. Passing \in SUBSET Callbacks /\ AcceptedHere \in SUBSET Passing
  BY DEF Passing, AcceptedHere
<1>2. Cardinality(AcceptedHere) <= Cardinality(Passing)
  BY <1>1, SamlCounts
<1>3. /\ Cardinality(Passing) \in Nat /\ Cardinality(AcceptedHere) \in Nat
      /\ MayPass \in Nat
  BY <1>1, SamlCounts DEF SamlInv, SamlTypes, MayPass
<1>4. Cardinality(AcceptedHere) <= MayPass
  BY <1>2, <1>3, FewHavePassed
<1> QED BY <1>4, SamlCardinality DEF Saml!AcceptedOnce, AcceptedHere, MayPass

LEMMA SamlSteps ==
  ASSUME view = "saml", [RequestNext]_requestVars
  PROVE  view' = "saml" /\ [Saml!Next]_(Saml!vars)
BY DEF RequestNext, requestVars, samlVars, Saml!vars

(***************************************************************************)
(* Storage                                                                 *)
(***************************************************************************)

FileTypes ==
  /\ backend \in {"local", "s3"} /\ DOMAIN file = Uploads /\ DOMAIN pc = Uploads
  /\ key \in [Uploads -> Uploads] /\ DOMAIN read = Uploads
  /\ thread \in [Uploads -> {"none", "open", "write", "write to nothing", "unlink"}]
  /\ given \subseteq Uploads /\ replaced \subseteq given /\ deleted \subseteq given
  /\ \A l \in links : l.key \in given

(* A task works on the key of its own upload, or on one that was returned. *)
KeysGiven ==
  \A t \in Uploads :
    /\ key[t] # t => key[t] \in given
    /\ pc[t] = "new" => key[t] = t /\ thread[t] = "none" /\ read[t] = Files!Absent
    /\ t \in given => pc[t] \notin {"new", "uploading"} /\ thread[t] = "none"
    /\ pc[t] \in {"uploading"} => key[t] = t
    /\ pc[t] \in {"deleting", "verified", "exists"} => key[t] # t

(* Who writes to a key that was returned was asked to replace its file.    *)
WritersKnown ==
  \A t \in Uploads :
    /\ thread[t] \in {"open", "write"} /\ key[t] # t => key[t] \in replaced
    /\ thread[t] = "unlink" => key[t] # t

UploadsUnderWay ==
  \A t \in Uploads : pc[t] = "uploading" =>
    /\ thread[t] \in {"open", "write", "none"}
    /\ thread[t] = "write" /\ backend = "local" => file[t] = Files!Empty
    /\ thread[t] = "none" => file[t] = t

DeletesUnderWay ==
  \A t \in Uploads : pc[t] = "deleting" =>
    /\ thread[t] \in {"unlink", "none"}
    /\ thread[t] = "none" /\ key[t] \notin replaced => file[key[t]] = Files!Absent

FilesInv ==
  /\ FileTypes /\ KeysGiven /\ WritersKnown /\ UploadsUnderWay /\ DeletesUnderWay
  /\ Files!UploadsAreWhole

LEMMA FilesInit ==
  ASSUME Files!Init
  PROVE  FilesInv
BY DEF Files!Init, Files!Keys, FilesInv, FileTypes, KeysGiven, WritersKnown, UploadsUnderWay,
       DeletesUnderWay, Files!UploadsAreWhole

(* A task starts with one of the keys that it may know.                    *)
LEMMA TaskStarts ==
  ASSUME FilesInv, NEW t \in Uploads, NEW place, NEW k \in Uploads, NEW work,
         Files!Start(t, place, k, work), UNCHANGED <<given, links, deleted>>,
         \/ k = t /\ place = "422" /\ work = "none" /\ replaced' = replaced
         \/ k = t /\ place = "uploading" /\ work \in {"open", "write"} /\ replaced' = replaced
            /\ work = Files!FirstWrite
         \/ k \in given /\ place = "putting" /\ work \in {"open", "write"}
            /\ replaced' = replaced \cup {k}
         \/ k \in given /\ place = "deleting" /\ work = "unlink" /\ replaced' = replaced
         \/ k \in given /\ place \in {"404", "verified"} /\ work = "none" /\ replaced' = replaced
  PROVE  FilesInv'
<1>1. /\ pc[t] = "new" /\ pc' = [pc EXCEPT ![t] = place] /\ key' = [key EXCEPT ![t] = k]
      /\ thread' = [thread EXCEPT ![t] = work] /\ UNCHANGED <<backend, file, read>>
  BY DEF Files!Start, Files!Goto
<1>2. t \notin given /\ key[t] = t /\ read[t] = Files!Absent
  BY <1>1 DEF FilesInv, KeysGiven
<1>3. FileTypes'
  BY <1>1 DEF FilesInv, FileTypes
<1>8. /\ pc'[t] = place /\ key'[t] = k /\ thread'[t] = work
      /\ \A u \in Uploads : u # t => pc'[u] = pc[u] /\ key'[u] = key[u] /\ thread'[u] = thread[u]
  BY <1>1 DEF FilesInv, FileTypes
<1>4. KeysGiven' /\ WritersKnown'
  <2>1. /\ key'[t] # t => key'[t] \in given /\ pc'[t] # "uploading"
        /\ pc'[t] # "new" /\ (pc'[t] \in {"deleting", "verified", "exists"} => key'[t] # t)
        /\ thread'[t] \in {"open", "write"} /\ key'[t] # t => key'[t] \in replaced'
        /\ thread'[t] = "unlink" => key'[t] # t
        /\ replaced \subseteq replaced' /\ given' = given
    BY <1>2, <1>8
  <2>2. KeysGiven'
    BY <1>1, <1>2, <1>8, <2>1 DEF FilesInv, KeysGiven
  <2>3. WritersKnown'
    BY <1>8, <2>1 DEF FilesInv, WritersKnown
  <2> QED BY <2>2, <2>3
<1>5. UploadsUnderWay'
  BY <1>1, <1>2 DEF FilesInv, FileTypes, UploadsUnderWay, Files!FirstWrite
<1>6. DeletesUnderWay'
  BY <1>1, <1>2 DEF FilesInv, FileTypes, DeletesUnderWay
<1>7. Files!UploadsAreWhole'
  BY <1>1, <1>2 DEF FilesInv, FileTypes, Files!UploadsAreWhole
<1> QED BY <1>3, <1>4, <1>5, <1>6, <1>7 DEF FilesInv

LEMMA FilesStart ==
  ASSUME FilesInv, NEW t \in Uploads,
         \/ Files!Refuse(t) \/ Files!Upload(t) \/ Files!Replace(t) \/ Files!Delete(t)
         \/ Files!Verify(t)
  PROVE  FilesInv'
<1> USE DEF Files!noteVars
<1>1. given \subseteq Uploads /\ Files!FirstWrite \in {"open", "write"} /\ \A l \in links : l.key \in given
  BY DEF FilesInv, FileTypes, Files!FirstWrite
<1>2. CASE Files!Refuse(t)
  BY <1>2, TaskStarts DEF Files!Refuse
<1>3. CASE Files!Upload(t)
  BY <1>1, <1>3, TaskStarts DEF Files!Upload
<1>4. CASE Files!Replace(t)
  BY <1>1, <1>4, TaskStarts DEF Files!Replace
<1>5. CASE Files!Delete(t)
  BY <1>1, <1>5, TaskStarts DEF Files!Delete
<1>6. CASE Files!Verify(t)
  BY <1>1, <1>6, TaskStarts DEF Files!Verify
<1> QED BY <1>2, <1>3, <1>4, <1>5, <1>6

(* A thread's step changes the file of its key, and nobody else's.         *)
LEMMA ThreadsStep ==
  ASSUME FilesInv, NEW t \in Uploads, Files!ThreadStep(t)
  PROVE  FilesInv'
<1> DEFINE k == key[t]
<1>1. UNCHANGED <<backend, pc, key, read, given, links, replaced, deleted>> /\ k \in Uploads
  BY DEF Files!ThreadStep, Files!noteVars, FilesInv, FileTypes
<1>2. ASSUME thread[t] \in {"open", "write"}, NEW bytes, file' = [file EXCEPT ![k] = bytes],
             \/ thread[t] = "open" /\ thread' = [thread EXCEPT ![t] = "write"]
                /\ bytes = Files!Empty
             \/ thread[t] = "write" /\ thread' = [thread EXCEPT ![t] = "none"]
                /\ (bytes = t \/ (backend = "local" /\ file[k] # Files!Empty))
      PROVE  FilesInv'
  <2>1. k = t \/ k \in replaced
    BY <1>2 DEF FilesInv, WritersKnown
  <2>2. t \notin given
    BY <1>2 DEF FilesInv, KeysGiven
  <2>3. FileTypes' /\ KeysGiven' /\ WritersKnown'
    <3>1. FileTypes'
      BY <1>1, <1>2 DEF FilesInv, FileTypes
    <3>2. KeysGiven'
      <4>1. \A u \in Uploads : thread'[u] # "none" => thread[u] # "none"
        BY <1>2 DEF FilesInv, FileTypes
      <4>2. pc[t] # "new"
        BY <1>2 DEF FilesInv, KeysGiven
      <4>3. \A u \in Uploads : u # t => thread'[u] = thread[u]
        BY <1>2 DEF FilesInv, FileTypes
      <4> QED BY <1>1, <2>2, <4>1, <4>2, <4>3 DEF FilesInv, KeysGiven
    <3>3. WritersKnown'
      BY <1>1, <1>2 DEF FilesInv, FileTypes, WritersKnown
    <3> QED BY <3>1, <3>2, <3>3
  <2>4. UploadsUnderWay'
    <3> SUFFICES ASSUME NEW u \in Uploads, pc[u] = "uploading"
                 PROVE  /\ thread'[u] \in {"open", "write", "none"}
                        /\ thread'[u] = "write" /\ backend = "local" => file'[u] = Files!Empty
                        /\ thread'[u] = "none" => file'[u] = u
      BY <1>1 DEF UploadsUnderWay
    <3>1. u \notin given /\ key[u] = u
      BY DEF FilesInv, KeysGiven
    <3>2. CASE u = t
      BY <1>2, <3>1, <3>2 DEF FilesInv, FileTypes, UploadsUnderWay
    <3>3. CASE u # t
      <4>1. u # k
        BY <2>1, <3>1, <3>3 DEF FilesInv, FileTypes
      <4> QED BY <1>2, <3>3, <4>1 DEF FilesInv, FileTypes, UploadsUnderWay
    <3> QED BY <3>2, <3>3
  <2>5. DeletesUnderWay'
    <3>1. \A u \in Uploads : pc[u] = "deleting" => u # t /\ (key[u] \notin replaced => key[u] # k)
      <4> SUFFICES ASSUME NEW u \in Uploads, pc[u] = "deleting"
                   PROVE  u # t /\ (key[u] \notin replaced => key[u] # k)
        OBVIOUS
      <4>1. key[u] \in given /\ thread[u] \in {"unlink", "none"}
        BY DEF FilesInv, KeysGiven, DeletesUnderWay
      <4> QED BY <1>2, <2>1, <2>2, <4>1
    <3> QED BY <1>1, <1>2, <3>1 DEF FilesInv, FileTypes, DeletesUnderWay
  <2>6. Files!UploadsAreWhole'
    <3>1. k \notin given \ replaced
      BY <2>1, <2>2
    <3> QED BY <1>1, <1>2, <3>1 DEF FilesInv, FileTypes, Files!UploadsAreWhole
  <2> QED BY <2>3, <2>4, <2>5, <2>6 DEF FilesInv
<1>3. CASE thread[t] = "write to nothing" /\ UNCHANGED file /\ thread' = [thread EXCEPT ![t] = "none"]
  <2>1. pc[t] \notin {"uploading", "deleting"}
    BY <1>3 DEF FilesInv, UploadsUnderWay, DeletesUnderWay
  <2> QED BY <1>1, <1>3, <2>1 DEF FilesInv, FileTypes, KeysGiven, WritersKnown, UploadsUnderWay,
                                  DeletesUnderWay, Files!UploadsAreWhole
<1>4. CASE thread[t] = "unlink" /\ file' = [file EXCEPT ![k] = Files!Absent]
           /\ thread' = Files!Unlinked(t)
  <2>1. k \in given /\ k # t
    BY <1>4 DEF FilesInv, KeysGiven, WritersKnown
  <2>2. \A u \in Uploads :
          \/ thread'[u] = thread[u] /\ u # t
          \/ u = t /\ thread'[u] = "none"
          \/ thread[u] = "write" /\ key[u] = k /\ thread'[u] = "write to nothing"
    BY <1>4 DEF Files!Unlinked
  <2>3. \A u \in Uploads : pc[u] = "uploading" => thread'[u] = thread[u] /\ u # k /\ u # t
    <3> SUFFICES ASSUME NEW u \in Uploads, pc[u] = "uploading"
                 PROVE  thread'[u] = thread[u] /\ u # k /\ u # t
      OBVIOUS
    <3>1. u # k /\ key[u] = u
      BY <2>1 DEF FilesInv, KeysGiven
    <3>2. u # t
      BY <1>4 DEF FilesInv, UploadsUnderWay
    <3> QED BY <2>2, <3>1, <3>2
  <2>4. thread' \in [Uploads -> {"none", "open", "write", "write to nothing", "unlink"}]
    BY <1>4 DEF Files!Unlinked, FilesInv, FileTypes
  <2>5. FileTypes' /\ KeysGiven' /\ WritersKnown'
    <3>1. FileTypes'
      BY <1>1, <1>4, <2>4 DEF FilesInv, FileTypes
    <3>2. KeysGiven'
      BY <1>1, <2>2 DEF FilesInv, KeysGiven
    <3>3. WritersKnown'
      BY <1>1, <2>2 DEF FilesInv, WritersKnown
    <3> QED BY <3>1, <3>2, <3>3
  <2>6. UploadsUnderWay'
    BY <1>1, <1>4, <2>3 DEF FilesInv, FileTypes, UploadsUnderWay
  <2>7. DeletesUnderWay'
    <3> SUFFICES ASSUME NEW u \in Uploads, pc[u] = "deleting"
                 PROVE  /\ thread'[u] \in {"unlink", "none"}
                        /\ thread'[u] = "none" /\ key[u] \notin replaced => file'[key[u]] = Files!Absent
      BY <1>1 DEF DeletesUnderWay
    <3>1. key[u] \in Uploads /\ thread[u] \in {"unlink", "none"}
      BY DEF FilesInv, FileTypes, DeletesUnderWay
    <3> QED BY <1>4, <2>2, <3>1 DEF FilesInv, FileTypes, DeletesUnderWay
  <2>8. Files!UploadsAreWhole'
    BY <1>1, <1>4 DEF FilesInv, FileTypes, Files!UploadsAreWhole
  <2> QED BY <2>5, <2>6, <2>7, <2>8 DEF FilesInv
<1> QED
  <2>1. CASE thread[t] = "open"
    BY <1>2, <1>3, <1>4, <2>1 DEF Files!ThreadStep, Files!Opens, Files!Opened
  <2>2. CASE thread[t] = "write"
    <3>1. PICK bytes \in Files!Written(t) : file' = [file EXCEPT ![k] = bytes]
      BY <2>2 DEF Files!ThreadStep, Files!Opens
    <3>2. bytes = t \/ (backend = "local" /\ file[k] # Files!Empty)
      BY DEF Files!Written
    <3> QED BY <1>2, <2>2, <3>1, <3>2 DEF Files!ThreadStep, Files!Opens
  <2>3. CASE thread[t] \notin {"open", "write"}
    BY <1>3, <1>4, <2>3 DEF Files!ThreadStep, Files!Opens
  <2> QED BY <2>1, <2>2, <2>3

(* What awaited a thread goes on, or the client has gone.                  *)
LEMMA TaskReturns ==
  ASSUME FilesInv, NEW t \in Uploads, Files!Return(t)
  PROVE  FilesInv'
<1>1. /\ pc[t] \in {"uploading", "putting", "deleting"} /\ thread[t] = "none"
      /\ pc' = [pc EXCEPT ![t] = "200"]
      /\ UNCHANGED <<backend, file, key, thread, read, links, replaced>>
      /\ given' = IF pc[t] = "uploading" THEN given \cup {key[t]} ELSE given
      /\ deleted' = IF pc[t] = "deleting" THEN deleted \cup {key[t]} ELSE deleted
  BY DEF Files!Return, Files!Goto, Files!Awaited
<1>2. pc[t] = "uploading" => key[t] = t /\ t \notin given /\ file[t] = t
  BY <1>1 DEF FilesInv, KeysGiven, UploadsUnderWay
<1>3. FileTypes' /\ KeysGiven' /\ WritersKnown'
  <2>1. pc[t] = "deleting" => key[t] \in given
    BY DEF FilesInv, KeysGiven
  <2>2. FileTypes'
    BY <1>1, <1>2, <2>1 DEF FilesInv, FileTypes
  <2>3. KeysGiven'
    BY <1>1, <1>2 DEF FilesInv, FileTypes, KeysGiven
  <2>4. WritersKnown'
    BY <1>1 DEF FilesInv, WritersKnown
  <2> QED BY <2>2, <2>3, <2>4
<1>4. UploadsUnderWay' /\ DeletesUnderWay'
  BY <1>1 DEF FilesInv, FileTypes, UploadsUnderWay, DeletesUnderWay
<1>5. Files!UploadsAreWhole'
  <2>1. CASE pc[t] = "uploading"
    <3>1. given' = given \cup {t} /\ deleted' = deleted /\ t \notin given /\ file[t] = t
      BY <1>1, <1>2, <2>1
    <3>2. \A u \in Uploads : key[u] = t => u = t
      BY <3>1 DEF FilesInv, KeysGiven
    <3>3. t \notin deleted
      BY <3>1 DEF FilesInv, FileTypes
    <3> QED BY <1>1, <3>1, <3>2, <3>3 DEF FilesInv, Files!UploadsAreWhole
  <2>2. CASE pc[t] = "deleting"
    BY <1>1, <2>2 DEF FilesInv, Files!UploadsAreWhole, DeletesUnderWay
  <2>3. CASE pc[t] = "putting"
    BY <1>1, <2>3 DEF FilesInv, Files!UploadsAreWhole
  <2> QED BY <1>1, <2>1, <2>2, <2>3
<1> QED BY <1>3, <1>4, <1>5 DEF FilesInv

LEMMA TaskGoesOn ==
  ASSUME FilesInv, NEW t \in Uploads, Files!Cancel(t) \/ Files!Exists(t) \/ Files!Get(t)
  PROVE  FilesInv'
<1>1. PICK place \in {"cancelled", "404", "exists", "500", "200"} :
        /\ pc' = [pc EXCEPT ![t] = place]
        /\ place = "exists" => pc[t] = "verified"
  BY DEF Files!Cancel, Files!Exists, Files!Get, Files!Goto
<1>2. /\ UNCHANGED <<backend, file, key, thread, given, links, replaced, deleted>>
      /\ pc[t] \in {"uploading", "putting", "deleting", "verified", "exists"}
      /\ \/ read' = read
         \/ pc[t] = "exists" /\ read' = [read EXCEPT ![t] = file[key[t]]]
  BY DEF Files!Cancel, Files!Exists, Files!Get, Files!noteVars
<1>3. FileTypes' /\ KeysGiven' /\ WritersKnown'
  BY <1>1, <1>2 DEF FilesInv, FileTypes, KeysGiven, WritersKnown
<1>4. UploadsUnderWay' /\ DeletesUnderWay'
  BY <1>1, <1>2 DEF FilesInv, FileTypes, UploadsUnderWay, DeletesUnderWay
<1>5. Files!UploadsAreWhole'
  <2>1. CASE read' = read
    BY <1>2, <2>1 DEF FilesInv, Files!UploadsAreWhole
  <2>2. CASE pc[t] = "exists" /\ read' = [read EXCEPT ![t] = file[key[t]]]
    BY <1>2, <2>2 DEF FilesInv, FileTypes, KeysGiven, Files!UploadsAreWhole
  <2> QED BY <1>2, <2>1, <2>2
<1> QED BY <1>3, <1>4, <1>5 DEF FilesInv

LEMMA FilesNext ==
  ASSUME FilesInv, [Files!Next]_(Files!vars)
  PROVE  FilesInv'
<1>1. CASE UNCHANGED <<backend, file, pc, key, thread, read, given, replaced, deleted>>
           /\ \A l \in links' : l.key \in given
  BY <1>1 DEF FilesInv, FileTypes, KeysGiven, WritersKnown, UploadsUnderWay,
              DeletesUnderWay, Files!UploadsAreWhole
<1>2. ASSUME NEW k \in Files!Keys, Files!TemporaryUrl(k)  PROVE FilesInv'
  <2>1. \A l \in links' : l.key \in given
    <3>1. PICK e \in Lifetimes : links' = links \cup {[key |-> k, exp |-> time + e]}
      BY <1>2 DEF Files!TemporaryUrl
    <3>2. [key |-> k, exp |-> time + e].key = k /\ k \in given
      BY <1>2 DEF Files!TemporaryUrl
    <3> QED BY <3>1, <3>2 DEF FilesInv, FileTypes
  <2> QED BY <1>1, <1>2, <2>1 DEF Files!TemporaryUrl, Files!taskVars
<1>3. CASE Files!Tick \/ UNCHANGED Files!vars
  BY <1>1, <1>3 DEF Files!Tick, Files!vars, Files!taskVars, Files!noteVars, FilesInv, FileTypes
<1> QED BY <1>2, <1>3, FilesStart, ThreadsStep, TaskReturns, TaskGoesOn DEF Files!Next

LEMMA FilesSteps ==
  ASSUME view = "files", [RequestNext]_requestVars
  PROVE  view' = "files" /\ [Files!Next]_(Files!vars)
BY DEF RequestNext, requestVars, fileVars, Files!vars, Files!taskVars, Files!noteVars

(***************************************************************************)
(* RedisRateLimit                                                          *)
(***************************************************************************)

Among(A, from, to) == {g \in A : from < g[1] /\ g[1] <= to}

(* How many hits a window has grows with the window, and by one at most    *)
(* with a hit.                                                             *)
LEMMA AmongBounds ==
  ASSUME NEW A, IsFiniteSet(A), NEW x, NEW a, NEW b, NEW c, NEW d
  PROVE  /\ Cardinality(Among(A, a, b)) \in Nat
         /\ Among(A, c, d) \subseteq Among(A, a, b) =>
              Cardinality(Among(A, c, d)) <= Cardinality(Among(A, a, b))
         /\ Cardinality(Among(A \cup {x}, a, b)) <= Cardinality(Among(A, a, b)) + 1
         /\ Cardinality(Among(A \cup {x}, a, b)) \in Nat
<1>1. IsFiniteSet(Among(A, a, b)) /\ IsFiniteSet(A \cup {x})
  BY FS_Subset, FS_AddElement DEF Among
<1>2. IsFiniteSet(Among(A \cup {x}, a, b))
  <2>1. Among(A \cup {x}, a, b) \subseteq A \cup {x}
    BY DEF Among
  <2> QED BY <1>1, <2>1, FS_Subset
<1>3. \/ Among(A \cup {x}, a, b) = Among(A, a, b)
      \/ Among(A \cup {x}, a, b) = Among(A, a, b) \cup {x}
  BY DEF Among
<1>4. Cardinality(Among(A, a, b) \cup {x}) <= Cardinality(Among(A, a, b)) + 1
  <2> DEFINE T == Among(A, a, b)
  <2>1. CASE x \in T
    <3>1. T \cup {x} = T
      BY <2>1
    <3>2. Cardinality(T) \in Nat
      BY <1>1, FS_CardinalityType
    <3> QED BY <3>1, <3>2
  <2>2. CASE x \notin T
    <3>1. Cardinality(T) \in Nat /\ Cardinality(T \cup {x}) = Cardinality(T) + 1
      BY <1>1, <2>2, FS_CardinalityType, FS_AddElement
    <3> QED BY <3>1
  <2> QED BY <2>1, <2>2
<1>5. Cardinality(Among(A, a, b)) \in Nat /\ Cardinality(Among(A \cup {x}, a, b)) \in Nat
  BY <1>1, <1>2, FS_CardinalityType
<1>6. Among(A, c, d) \subseteq Among(A, a, b) =>
        Cardinality(Among(A, c, d)) <= Cardinality(Among(A, a, b))
  BY <1>1, FS_Subset
<1>7. Cardinality(Among(A \cup {x}, a, b)) <= Cardinality(Among(A, a, b)) + 1
  <2>1. \A m \in Nat : m <= m + 1
    OBVIOUS
  <2>2. Cardinality(Among(A, a, b)) <= Cardinality(Among(A, a, b)) + 1
    BY <1>5, <2>1
  <2> QED BY <1>3, <1>4, <2>2, Zenon
<1> QED BY <1>5, <1>6, <1>7

AtMost(n) == IF n < HitLimit THEN n ELSE HitLimit

RedisTypes ==
  /\ count \in Nat /\ now \in Nat /\ deadline \in Nat \cup {None}
  /\ hit \in [Callers -> {"idle", "expire", "ttl", "dead"}]
  /\ crashes \in Nat
  /\ IsFiniteSet(granted) /\ granted \subseteq Nat \X Nat
  /\ \A g \in granted : g[1] <= now

(* The first hit of a window at s is outside the length of a window that   *)
(* ends when the key expires.                                              *)
Burst(s) ==
  /\ s <= now
  /\ Cardinality(Among(granted, s - Window, now)) <= HitLimit - 1 + AtMost(count)
  /\ Cardinality(Among(granted, s, now)) <= AtMost(count) - 1
  /\ deadline # None => deadline >= s + Window

BurstsApart ==
  IF count = 0 THEN Cardinality(Among(granted, now - Window, now)) <= HitLimit - 1
               ELSE \E s \in Nat : Burst(s)

(* Nobody else sets the expiry of a key.                                   *)
OneExpires ==
  /\ deadline # None => deadline > now /\ count > 0
  /\ \A p \in Callers : hit[p] = "expire" => count > 0 /\ deadline = None
  /\ \A p, q \in Callers : hit[p] = "expire" /\ hit[q] = "expire" => p = q

RedisInv ==
  /\ RedisTypes
  /\ OneExpires
  /\ Window % Second = 0 => BurstsApart
  /\ Redis!ExpiryOnItsWay

LEMMA RedisCount ==
  \A from, to : Redis!GrantedIn(from, to) = Cardinality(Among(granted, from, to))
<1>1. \A S : Redis!Cardinality(S) = Cardinality(S)
  BY DEF Redis!Cardinality, Cardinality
<1> QED BY <1>1 DEF Redis!GrantedIn, Among

LEMMA RedisInit ==
  ASSUME Redis!Init
  PROVE  RedisInv
<1>1. Among(granted, now - Window, now) = {} /\ count = 0 /\ now = 0 /\ deadline = None
      /\ granted = {} /\ hit = [p \in Callers |-> "idle"] /\ crashes = 0
  BY DEF Redis!Init, Among
<1> QED BY <1>1, FS_EmptySet, RedisAssumption
        DEF RedisInv, RedisTypes, OneExpires, BurstsApart, Redis!ExpiryOnItsWay

LEMMA RedisWholeSeconds ==
  Redis!WholeSeconds \in Nat /\ Redis!WholeSeconds > 0
  /\ (Window % Second = 0 => Redis!WholeSeconds >= Window)
<1> DEFINE s == Window \div Second
<1>1. s \in Nat /\ Window = s * Second + (Window % Second) /\ Window % Second \in Nat
  BY RedisAssumption
<1>2. \A m \in Nat : (IF m < 1 THEN 1 ELSE m) * Second \in Nat /\ (IF m < 1 THEN 1 ELSE m) * Second > 0
  BY RedisAssumption
<1>3. s < 1 => s * Second = 0
  BY <1>1, RedisAssumption
<1> DEFINE whole == (IF s < 1 THEN 1 ELSE s) * Second
<1>4. whole \in Nat /\ whole > 0
  BY <1>1, <1>2
<1>5. ASSUME Window % Second = 0  PROVE whole >= Window
  <2>1. ~ (s < 1)
    BY <1>1, <1>3, <1>5, RedisAssumption
  <2> QED BY <1>1, <1>5, <2>1, RedisAssumption
<1>6. Redis!WholeSeconds = whole
  BY DEF Redis!WholeSeconds
<1> HIDE DEF whole
<1> QED BY <1>4, <1>5, <1>6

LEMMA RedisTick ==
  ASSUME RedisInv, Redis!Tick
  PROVE  RedisInv'
<1>1. /\ now' = now + 1 /\ granted' = granted /\ hit' = hit /\ crashes' = crashes
      /\ now \in Nat /\ IsFiniteSet(granted) /\ \A g \in granted : g[1] \in Nat /\ g[1] <= now
  BY DEF RedisInv, RedisTypes, Redis!Tick
<1>2. \/ deadline = now + 1 /\ count' = 0 /\ deadline' = None /\ deadline # None
      \/ deadline # now + 1 /\ count' = count /\ deadline' = deadline
  BY <1>1, RedisAssumption DEF Redis!Tick
<1>3. RedisTypes'
  BY <1>1, <1>2 DEF RedisInv, RedisTypes
<1>4. OneExpires'
  BY <1>1, <1>2 DEF RedisInv, OneExpires, RedisTypes
<1>5. ASSUME Window % Second = 0  PROVE BurstsApart'
  <2>1. \A a, b, c, d : Among(granted, c, d) \subseteq Among(granted, a, b) =>
          /\ Cardinality(Among(granted, c, d)) <= Cardinality(Among(granted, a, b))
          /\ Cardinality(Among(granted, c, d)) \in Nat /\ Cardinality(Among(granted, a, b)) \in Nat
    BY <1>1, AmongBounds
  <2>2. \A a, c \in Int : a <= c => Among(granted, c, now') \subseteq Among(granted, a, now)
    BY <1>1 DEF Among
  <2>3. CASE count = 0
    <3>1. Among(granted, now' - Window, now') \subseteq Among(granted, now - Window, now)
      BY <1>1, <2>2, RedisAssumption
    <3>2. count' = 0
      BY <1>2, <2>3
    <3> QED BY <1>1, <1>5, <2>1, <2>3, <3>1, <3>2, RedisAssumption DEF RedisInv, BurstsApart
  <2>4. CASE count # 0
    <3>1. PICK s \in Nat : Burst(s)
      BY <1>5, <2>4 DEF RedisInv, BurstsApart
    <3>2. AtMost(count) <= HitLimit /\ AtMost(count) \in Nat
      BY RedisAssumption DEF AtMost, RedisInv, RedisTypes
    <3>3. CASE count' = 0
      <4>1. deadline = now + 1 /\ deadline # None
        BY <1>2, <2>4, <3>3
      <4>2. s <= now' - Window /\ now' - Window \in Int
        BY <1>1, <3>1, <4>1, RedisAssumption DEF Burst
      <4>3. Among(granted', now' - Window, now') \subseteq Among(granted, s, now)
        BY <1>1, <2>2, <4>2
      <4> QED BY <1>1, <2>1, <3>1, <3>2, <3>3, <4>3, RedisAssumption DEF Burst, BurstsApart
    <3>4. CASE count' = count /\ deadline' = deadline
      <4>1. Among(granted', s, now') \subseteq Among(granted, s, now)
        BY <1>1, <2>2
      <4>2. Among(granted', s - Window, now') \subseteq Among(granted, s - Window, now)
        <5>1. s - Window \in Int
          BY RedisAssumption
        <5> QED BY <1>1, <2>2, <5>1
      <4>3. AtMost(count)' = AtMost(count)
        BY <3>4 DEF AtMost
      <4>4. Burst(s)'
        BY <1>1, <2>1, <3>1, <3>2, <3>4, <4>1, <4>2, <4>3, RedisAssumption DEF Burst
      <4> QED BY <2>4, <3>4, <4>4 DEF BurstsApart
    <3> QED BY <1>2, <3>3, <3>4
  <2> QED BY <2>3, <2>4
<1>6. Redis!ExpiryOnItsWay'
  BY <1>1, <1>2 DEF RedisInv, Redis!ExpiryOnItsWay, OneExpires
<1> QED BY <1>3, <1>4, <1>5, <1>6 DEF RedisInv

LEMMA RedisIncr ==
  ASSUME RedisInv, NEW p \in Callers, Redis!Incr(p)
  PROVE  RedisInv'
<1>1. /\ hit[p] = "idle" /\ count' = count + 1 /\ now' = now /\ deadline' = deadline
      /\ hit' = [hit EXCEPT ![p] = IF count' = 1 THEN "expire" ELSE "ttl"]
      /\ crashes' = crashes
      /\ granted' = granted \cup (IF count' <= HitLimit THEN {<<now, count'>>} ELSE {})
      /\ count \in Nat /\ now \in Nat /\ IsFiniteSet(granted)
      /\ \A g \in granted : g[1] \in Nat /\ g[1] <= now
  BY DEF RedisInv, RedisTypes, Redis!Incr, Redis!Allows
<1>2. \/ granted' = granted /\ AtMost(count)' = AtMost(count) /\ count > 0
      \/ granted' = granted \cup {<<now, count'>>} /\ AtMost(count)' = AtMost(count) + 1
  BY <1>1, RedisAssumption DEF AtMost
<1>3. RedisTypes'
  <2>1. IsFiniteSet(granted')
    BY <1>1, <1>2, FS_AddElement
  <2>2. granted' \subseteq Nat \X Nat /\ \A g \in granted' : g[1] <= now
    BY <1>1, <1>2 DEF RedisInv, RedisTypes
  <2> QED BY <1>1, <2>1, <2>2 DEF RedisInv, RedisTypes
<1>4. OneExpires'
  BY <1>1 DEF RedisInv, OneExpires, RedisTypes
<1>5. ASSUME Window % Second = 0  PROVE BurstsApart'
  <2>1. \A a, b : /\ Cardinality(Among(granted, a, b)) \in Nat
                  /\ Cardinality(Among(granted', a, b)) \in Nat
                  /\ Cardinality(Among(granted', a, b)) <=
                       Cardinality(Among(granted, a, b)) + AtMost(count)' - AtMost(count)
    <3>1. AtMost(count) \in Nat
      BY <1>1, RedisAssumption DEF AtMost
    <3>2. \A a, b : /\ Cardinality(Among(granted, a, b)) \in Nat
                    /\ Cardinality(Among(granted \cup {<<now, count'>>}, a, b)) \in Nat
                    /\ Cardinality(Among(granted \cup {<<now, count'>>}, a, b)) <=
                         Cardinality(Among(granted, a, b)) + 1
      BY <1>1, AmongBounds
    <3> QED BY <1>2, <3>1, <3>2
  <2>2. AtMost(count) \in Nat /\ AtMost(count)' \in Nat
    BY <1>1, RedisAssumption DEF AtMost
  <2>3. CASE count = 0
    <3>1. AtMost(count) = 0 /\ AtMost(count)' = 1 /\ deadline' = None
      BY <1>1, <2>3, RedisAssumption DEF AtMost, RedisInv, OneExpires
    <3>2. Among(granted', now, now) = {}
      BY <1>1 DEF Among
    <3>3. Cardinality(Among(granted', now, now)) = 0
      BY <3>2, FS_EmptySet
    <3>4. Cardinality(Among(granted', now - Window, now)) <= HitLimit - 1 + AtMost(count)'
      BY <1>5, <2>1, <2>2, <2>3, <3>1, RedisAssumption DEF RedisInv, BurstsApart
    <3>5. Burst(now)'
      BY <1>1, <3>1, <3>3, <3>4 DEF Burst
    <3> QED BY <1>1, <2>3, <3>5 DEF BurstsApart, Burst
  <2>4. CASE count # 0
    <3>1. PICK s \in Nat : Burst(s)
      BY <1>5, <2>4 DEF RedisInv, BurstsApart
    <3>2. Cardinality(Among(granted', s - Window, now)) <= HitLimit - 1 + AtMost(count)'
      BY <2>1, <2>2, <3>1, RedisAssumption DEF Burst
    <3>3. Cardinality(Among(granted', s, now)) <= AtMost(count)' - 1
      BY <2>1, <2>2, <3>1, RedisAssumption DEF Burst
    <3>4. Burst(s)'
      BY <1>1, <3>1, <3>2, <3>3 DEF Burst
    <3> QED BY <1>1, <2>4, <3>4 DEF BurstsApart
  <2> QED BY <2>3, <2>4
<1>6. Redis!ExpiryOnItsWay'
  BY <1>1 DEF RedisInv, RedisTypes, Redis!ExpiryOnItsWay, OneExpires
<1> QED BY <1>3, <1>4, <1>5, <1>6 DEF RedisInv

(* EXPIRE, TTL and a crash change nothing that a burst depends on but the  *)
(* expiry.                                                                 *)
LEMMA RedisAfterwards ==
  ASSUME RedisInv, NEW p \in Callers, Redis!Expire(p) \/ Redis!Ttl(p) \/ Redis!Crash(p)
  PROVE  RedisInv'
<1>1. /\ UNCHANGED <<count, now, granted>> /\ now \in Nat
      /\ \E s \in {"ttl", "idle", "dead"} : hit' = [hit EXCEPT ![p] = s]
      /\ crashes' \in Nat /\ (crashes' = 0 => crashes = 0)
  BY DEF RedisInv, RedisTypes, Redis!Expire, Redis!Ttl, Redis!Crash
<1>2. \/ deadline' = deadline
      \/ deadline' = now + Redis!WholeSeconds /\ hit[p] = "expire"
  BY DEF Redis!Expire, Redis!Ttl, Redis!Crash
<1>3. /\ deadline' = now + Redis!WholeSeconds \/ hit[p] # "expire" \/ crashes' > 0
      /\ now + Redis!WholeSeconds \in Nat /\ now + Redis!WholeSeconds > now
      /\ now + Redis!WholeSeconds # None
  BY <1>1, RedisWholeSeconds, RedisAssumption
     DEF RedisInv, RedisTypes, Redis!Expire, Redis!Ttl, Redis!Crash
<1>4. RedisTypes'
  BY <1>1, <1>2, <1>3 DEF RedisInv, RedisTypes
<1>5. \A q \in Callers : (hit[q] = "expire")' => q # p /\ hit[q] = "expire"
  BY <1>1 DEF RedisInv, RedisTypes
<1>6. OneExpires'
  BY <1>1, <1>2, <1>3, <1>5 DEF RedisInv, OneExpires, RedisTypes
<1>7. ASSUME Window % Second = 0  PROVE BurstsApart'
  <2>1. AtMost(count)' = AtMost(count)
    BY <1>1 DEF AtMost
  <2>2. \A s \in Nat : Burst(s) => Burst(s)'
    BY <1>1, <1>2, <1>3, <1>7, <2>1, RedisWholeSeconds, RedisAssumption DEF Burst
  <2> QED BY <1>1, <1>7, <2>2 DEF RedisInv, BurstsApart
<1>8. Redis!ExpiryOnItsWay'
  <2>1. ASSUME count' > 0, deadline' = None, crashes' = 0
        PROVE  \E q \in Callers : hit'[q] = "expire"
    <3>1. deadline = None /\ hit[p] # "expire" /\ crashes = 0 /\ count > 0
      BY <1>1, <1>2, <1>3, <2>1
    <3>2. PICK q \in Callers : hit[q] = "expire"
      BY <3>1 DEF RedisInv, Redis!ExpiryOnItsWay
    <3> QED BY <1>1, <3>1, <3>2 DEF RedisInv, RedisTypes
  <2> QED BY <2>1 DEF Redis!ExpiryOnItsWay
<1> QED BY <1>4, <1>6, <1>7, <1>8 DEF RedisInv

LEMMA RedisNext ==
  ASSUME RedisInv, [Redis!Next]_(Redis!vars)
  PROVE  RedisInv'
<1>1. CASE UNCHANGED Redis!vars
  BY <1>1 DEF Redis!vars, RedisInv, RedisTypes, OneExpires, BurstsApart, Burst, AtMost,
              Redis!ExpiryOnItsWay
<1>2. CASE Redis!Next
  BY <1>2, RedisTick, RedisIncr, RedisAfterwards DEF Redis!Next
<1> QED BY <1>1, <1>2

LEMMA RedisHolds ==
  ASSUME RedisInv
  PROVE  Redis!FewerThanTwice /\ Redis!ExpiryOnItsWay
<1>1. ASSUME Window % Second = 0
      PROVE  Cardinality(Among(granted, now - Window, now)) < 2 * HitLimit
  <2>1. CASE count = 0
    <3>1. Cardinality(Among(granted, now - Window, now)) \in Nat
      BY AmongBounds DEF RedisInv, RedisTypes
    <3> QED BY <1>1, <2>1, <3>1, RedisAssumption DEF RedisInv, BurstsApart
  <2>2. CASE count # 0
    <3>1. PICK s \in Nat : Burst(s)
      BY <1>1, <2>2 DEF RedisInv, BurstsApart
    <3>2. Among(granted, now - Window, now) \subseteq Among(granted, s - Window, now)
      BY <3>1, RedisAssumption DEF Burst, Among, RedisInv, RedisTypes
    <3>3. /\ Cardinality(Among(granted, now - Window, now)) <=
               Cardinality(Among(granted, s - Window, now))
          /\ Cardinality(Among(granted, now - Window, now)) \in Nat
          /\ Cardinality(Among(granted, s - Window, now)) \in Nat
      BY <3>2, AmongBounds DEF RedisInv, RedisTypes
    <3>4. AtMost(count) <= HitLimit /\ AtMost(count) \in Nat
      BY RedisAssumption DEF AtMost, RedisInv, RedisTypes
    <3> QED BY <3>1, <3>3, <3>4, RedisAssumption DEF Burst
  <2> QED BY <2>1, <2>2
<1> QED BY <1>1, RedisCount DEF RedisInv, Redis!FewerThanTwice

LEMMA RedisSteps ==
  ASSUME view = "redis", [RequestNext]_requestVars
  PROVE  view' = "redis" /\ [Redis!Next]_(Redis!vars)
BY DEF RequestNext, requestVars, redisVars, Redis!vars

(***************************************************************************)
(* RateLimit                                                               *)
(***************************************************************************)

Sorted(log) == \A i, j \in 1 .. Len(log) : i <= j => log[i] <= log[j]

Suffix(s, log, n) ==
  /\ s \in Seq(Nat) /\ n \in 0 .. Len(log) /\ Len(s) = Len(log) - n
  /\ \A i \in 1 .. Len(s) : s[i] = log[i + n]

(* What popleft() leaves is what is not old, the rest is old.              *)
LEMMA SinceLeaves ==
  ASSUME NEW log \in Seq(Nat), Sorted(log), NEW cut \in Int
  PROVE  \E n \in 0 .. Len(log) :
           /\ Suffix(Memory!Since(log, cut), log, n)
           /\ \A i \in 1 .. n : log[i] <= cut
           /\ \A i \in 1 .. Len(Memory!Since(log, cut)) : Memory!Since(log, cut)[i] > cut
<1> DEFINE T == {i \in 1 .. Len(log) + 1 : i <= Len(log) => log[i] > cut}
           m == Memory!Min(T)
<1>1. Len(log) \in Nat /\ Len(log) + 1 \in T /\ T \in SUBSET Nat
  BY LenProperties
<1>2. m \in T /\ \A k \in T : m <= k
  <2> HIDE DEF T
  <2>1. \E x \in T : \A k \in T : x <= k
    BY <1>1, Least
  <2> QED BY <2>1 DEF Memory!Min
<1>3. Memory!Since(log, cut) = SubSeq(log, m, Len(log))
  BY DEF Memory!Since
<1> HIDE DEF m
<1>4. m \in 1 .. Len(log) + 1 /\ (m <= Len(log) => log[m] > cut)
  BY <1>2
<1>5. \A i \in 1 .. Len(log) : log[i] \in Nat
  BY ElementOfSeq
<1>6. \A i \in 1 .. m - 1 : log[i] <= cut
  BY <1>1, <1>2, <1>4, <1>5
<1>7. \A i \in m .. Len(log) : log[i] > cut
  BY <1>1, <1>4, <1>5 DEF Sorted
<1>8. Suffix(Memory!Since(log, cut), log, m - 1)
  BY <1>1, <1>3, <1>4, <1>5 DEF Suffix
<1>9. m - 1 \in 0 .. Len(log)
  BY <1>1, <1>4
<1>10. \A i \in 1 .. Len(Memory!Since(log, cut)) : Memory!Since(log, cut)[i] > cut
  <2> TAKE i \in 1 .. Len(Memory!Since(log, cut))
  <2>1. i + (m - 1) \in m .. Len(log) /\ Memory!Since(log, cut)[i] = log[i + (m - 1)]
    BY <1>1, <1>4, <1>8 DEF Suffix
  <2> QED BY <1>7, <2>1
<1> QED BY <1>6, <1>8, <1>9, <1>10

(* What is kept of the granted hits: all but old ones.                     *)
Kept(c, d) ==
  /\ Suffix(bucket[c.key], allowed[c.key], d)
  /\ \A i \in 1 .. d : allowed[c.key][i] <= clock - c.window

LimitOf(c) == Len(bucket[c.key]) <= c.limit

MemoryTypes ==
  /\ clock \in Nat
  /\ bucket \in [Memory!Keys -> Seq(Nat)] /\ allowed \in [Memory!Keys -> Seq(Nat)]
  /\ order \in Seq(Memory!Keys)
  /\ \A i, j \in 1 .. Len(order) : order[i] = order[j] => i = j
  /\ \A k \in Memory!Keys :
       Sorted(allowed[k]) /\ \A i \in 1 .. Len(allowed[k]) : allowed[k][i] <= clock

(* A refused hit finds the bucket full of recent hits.                     *)
Refused(c) ==
  /\ Len(bucket[c.key]) = c.limit
  /\ \A i \in 1 .. c.limit : bucket[c.key][i] > clock - c.window
  /\ last.retryAfter = bucket[c.key][1] + c.window - clock

MemoryInv ==
  /\ MemoryTypes
  /\ \A c \in Calls : LimitOf(c) /\ \E d \in Nat : Kept(c, d)
  /\ last # None => last.call \in Calls /\ (~ last.allowed => Refused(last.call))

LEMMA CallsHave ==
  ASSUME NEW c \in Calls
  PROVE  c.key \in Memory!Keys /\ c.limit \in Nat \ {0} /\ c.window \in Nat \ {0}
BY MemoryAssumption DEF Memory!Keys

(* As far back as a window goes, the bucket tells what was granted.        *)
LEMMA SameRecent ==
  ASSUME MemoryInv, NEW c \in Calls, NEW cut \in Int, cut >= clock - c.window
  PROVE  \E n \in 0 .. Len(bucket[c.key]) :
           /\ Len(Memory!Since(allowed[c.key], cut)) = Len(bucket[c.key]) - n
           /\ n < Len(bucket[c.key]) => bucket[c.key][n + 1] > cut
           /\ \A i \in 1 .. n : bucket[c.key][i] <= cut
<1> DEFINE b == bucket[c.key]
           a == allowed[c.key]
<1>1. /\ a \in Seq(Nat) /\ b \in Seq(Nat) /\ Sorted(a) /\ c.key \in Memory!Keys
      /\ c.window \in Nat /\ clock \in Nat
  BY CallsHave DEF MemoryInv, MemoryTypes
<1>2. PICK d \in Nat : Kept(c, d)
  BY DEF MemoryInv
<1>3. /\ d \in 0 .. Len(a) /\ Len(b) = Len(a) - d /\ \A i \in 1 .. Len(b) : b[i] = a[i + d]
      /\ \A i \in 1 .. d : a[i] <= clock - c.window
  BY <1>2 DEF Kept, Suffix
<1>4. Len(a) \in Nat /\ Len(b) \in Nat /\ \A i \in 1 .. Len(a) : a[i] \in Nat
  BY <1>1, LenProperties, ElementOfSeq
<1> HIDE DEF a, b
<1>5. PICK n \in 0 .. Len(a) :
        /\ Suffix(Memory!Since(a, cut), a, n)
        /\ \A i \in 1 .. n : a[i] <= cut
        /\ \A i \in 1 .. Len(Memory!Since(a, cut)) : Memory!Since(a, cut)[i] > cut
  BY <1>1, SinceLeaves
<1> HIDE DEF a, b
<1>6. /\ Len(Memory!Since(a, cut)) = Len(a) - n
      /\ n < Len(a) => a[n + 1] > cut
  <2>1. Len(Memory!Since(a, cut)) = Len(a) - n
    BY <1>5 DEF Suffix
  <2>2. ASSUME n < Len(a)  PROVE a[n + 1] > cut
    <3>1. 1 \in 1 .. Len(Memory!Since(a, cut)) /\ 1 + n = n + 1
      BY <1>4, <1>5, <2>1, <2>2
    <3> QED BY <1>5, <3>1 DEF Suffix
  <2> QED BY <2>1, <2>2
<1>7. n >= d
  <2>1. \A i \in 1 .. d : a[i] <= cut
    BY <1>1, <1>3, <1>4
  <2> QED BY <1>3, <1>4, <1>5, <1>6, <2>1
<1>8. n - d \in 0 .. Len(b) /\ Len(Memory!Since(a, cut)) = Len(b) - (n - d)
  BY <1>3, <1>4, <1>5, <1>6, <1>7
<1>9. n - d < Len(b) => b[n - d + 1] > cut
  <2> HAVE n - d < Len(b)
  <2>1. n < Len(a) /\ n - d + 1 \in 1 .. Len(b) /\ (n - d + 1) + d = n + 1
    BY <1>3, <1>4, <1>8
  <2> QED BY <1>3, <1>6, <2>1
<1>10. \A i \in 1 .. n - d : b[i] <= cut
  <2> TAKE i \in 1 .. n - d
  <2>1. i \in 1 .. Len(b) /\ i + d \in 1 .. n /\ i + d \in 1 .. Len(a)
    BY <1>3, <1>4, <1>7, <1>8
  <2> QED BY <1>3, <1>5, <2>1
<1>11. \E m \in 0 .. Len(b) : /\ Len(Memory!Since(a, cut)) = Len(b) - m
                              /\ m < Len(b) => b[m + 1] > cut
                              /\ \A i \in 1 .. m : b[i] <= cut
  BY <1>8, <1>9, <1>10
<1> QED BY <1>11 DEF a, b

LEMMA MemoryHolds ==
  ASSUME MemoryInv
  PROVE  Memory!LimitHolds /\ Memory!RetryAfterExact
<1> SUFFICES ASSUME last # None
             PROVE  Memory!LimitHolds /\ Memory!RetryAfterExact
  BY DEF Memory!LimitHolds, Memory!RetryAfterExact
<1> DEFINE c == last.call
           b == bucket[c.key]
           Count(t) == Len(Memory!Since(allowed[c.key], t - c.window))
<1>1. c \in Calls /\ LimitOf(c) /\ (~ last.allowed => Refused(c)) /\ c.key \in Memory!Keys
  BY CallsHave DEF MemoryInv
<1>2. /\ clock \in Nat /\ c.limit \in Nat \ {0} /\ c.window \in Nat \ {0} /\ Len(b) \in Nat
      /\ \A i \in 1 .. Len(b) : b[i] \in Nat
  BY <1>1, CallsHave, LenProperties, ElementOfSeq DEF MemoryInv, MemoryTypes
<1>3. \A t \in Nat : t >= clock =>
        \E n \in 0 .. Len(b) : /\ Count(t) = Len(b) - n
                               /\ n < Len(b) => b[n + 1] > t - c.window
                               /\ \A i \in 1 .. n : b[i] <= t - c.window
  <2> SUFFICES ASSUME NEW t \in Nat, t >= clock
               PROVE  \E n \in 0 .. Len(b) :
                        /\ Count(t) = Len(b) - n
                        /\ n < Len(b) => b[n + 1] > t - c.window
                        /\ \A i \in 1 .. n : b[i] <= t - c.window
    OBVIOUS
  <2>1. t - c.window \in Int /\ t - c.window >= clock - c.window
    BY <1>2
  <2> QED BY <1>1, <2>1, SameRecent
<1>4. Memory!LimitHolds
  <2>1. Count(clock) <= c.limit
    <3> HIDE DEF Count, b, c
    <3>1. PICK n \in 0 .. Len(b) : Count(clock) = Len(b) - n
      BY <1>2, <1>3
    <3>2. Len(b) <= c.limit
      BY <1>1 DEF LimitOf, b
    <3> QED BY <1>2, <3>1, <3>2
  <2> QED BY <2>1 DEF Memory!LimitHolds, Memory!GrantedWithin
<1>5. ASSUME ~ last.allowed
      PROVE  /\ last.retryAfter > 0
             /\ Count(clock + last.retryAfter) < c.limit
             /\ \A d \in 0 .. last.retryAfter - 1 : ~ (Count(clock + d) < c.limit)
  <2>1. /\ Len(b) = c.limit /\ last.retryAfter = b[1] + c.window - clock
        /\ b[1] > clock - c.window /\ b[1] \in Nat
    <3>1. Refused(c) /\ 1 \in 1 .. c.limit
      BY <1>1, <1>2, <1>5
    <3> QED BY <1>2, <3>1 DEF Refused
  <2> HIDE DEF b, c, Count
  <2>2. last.retryAfter \in Nat \ {0} /\ clock + last.retryAfter - c.window = b[1]
    BY <1>2, <2>1
  <2>3. Count(clock + last.retryAfter) < c.limit
    <3>1. clock + last.retryAfter \in Nat /\ clock + last.retryAfter >= clock
      BY <1>2, <2>2
    <3> DEFINE t == clock + last.retryAfter
    <3> HIDE DEF t
    <3>2. PICK n \in 0 .. Len(b) : Count(t) = Len(b) - n /\ (n < Len(b) => b[n + 1] > b[1])
      <4>1. t \in Nat /\ t >= clock /\ t - c.window = b[1]
        BY <1>2, <2>1, <2>2, <3>1 DEF t
      <4> QED BY <1>3, <4>1
    <3>3. n # 0
      BY <1>2, <2>1, <3>2
    <3> QED BY <1>2, <2>1, <3>2, <3>3 DEF t
  <2>4. ASSUME NEW d \in 0 .. last.retryAfter - 1  PROVE ~ (Count(clock + d) < c.limit)
    <3>1. clock + d \in Nat /\ clock + d >= clock /\ ~ (b[1] <= clock + d - c.window)
      BY <1>2, <2>1, <2>2
    <3> DEFINE t == clock + d
    <3> HIDE DEF t
    <3>2. PICK n \in 0 .. Len(b) : Count(t) = Len(b) - n /\ \A i \in 1 .. n : b[i] <= t - c.window
      <4>1. t \in Nat /\ t >= clock
        BY <3>1 DEF t
      <4> QED BY <1>3, <4>1
    <3>3. n = 0
      BY <1>2, <3>1, <3>2 DEF t
    <3> QED BY <1>2, <2>1, <3>1, <3>2, <3>3 DEF t
  <2> QED BY <2>2, <2>3, <2>4
<1>6. Memory!RetryAfterExact
  BY <1>5 DEF Memory!RetryAfterExact
<1> QED BY <1>4, <1>6

LEMMA MemoryInit ==
  ASSUME Memory!Init
  PROVE  MemoryInv
<1>1. /\ \A k \in Memory!Keys : bucket[k] = <<>> /\ allowed[k] = <<>>
      /\ bucket = [k \in Memory!Keys |-> <<>>] /\ allowed = [k \in Memory!Keys |-> <<>>]
      /\ order = <<>> /\ clock = 0 /\ last = None
  BY DEF Memory!Init
<1>2. MemoryTypes
  BY <1>1 DEF MemoryTypes, Sorted
<1>3. ASSUME NEW c \in Calls  PROVE LimitOf(c) /\ Kept(c, 0)
  <2>1. bucket[c.key] = <<>> /\ allowed[c.key] = <<>> /\ c.limit \in Nat
    BY <1>1, CallsHave
  <2> QED BY <2>1 DEF LimitOf, Kept, Suffix
<1> QED BY <1>1, <1>2, <1>3 DEF MemoryInv

LEMMA MemoryTick ==
  ASSUME MemoryInv, Memory!Tick
  PROVE  MemoryInv'
<1>1. clock' = clock + 1 /\ last' = None /\ UNCHANGED <<bucket, order, allowed>> /\ clock \in Nat
  BY DEF MemoryInv, MemoryTypes, Memory!Tick
<1>2. MemoryTypes'
  <2>1. \A k \in Memory!Keys : \A i \in 1 .. Len(allowed[k]) : allowed[k][i] \in Nat
    BY ElementOfSeq DEF MemoryInv, MemoryTypes
  <2> QED BY <1>1, <2>1 DEF MemoryInv, MemoryTypes, Sorted
<1>3. ASSUME NEW c \in Calls  PROVE LimitOf(c)' /\ \E d \in Nat : Kept(c, d)'
  <2>1. PICK d \in Nat : Kept(c, d)
    BY DEF MemoryInv
  <2>2. c.window \in Nat /\ c.key \in Memory!Keys /\ allowed[c.key] \in Seq(Nat)
    BY CallsHave DEF MemoryInv, MemoryTypes
  <2>3. Suffix(bucket[c.key], allowed[c.key], d)
    BY <2>1 DEF Kept
  <2>4. \A i \in 1 .. d : allowed[c.key][i] <= clock + 1 - c.window
    <3> TAKE i \in 1 .. d
    <3>1. i \in 1 .. Len(allowed[c.key])
      BY <2>2, <2>3, LenProperties DEF Suffix
    <3>2. allowed[c.key][i] \in Nat /\ allowed[c.key][i] <= clock - c.window
      BY <2>1, <2>2, <3>1, ElementOfSeq DEF Kept
    <3> QED BY <1>1, <2>2, <3>2
  <2>5. Kept(c, d)'
    <3>1. bucket' = bucket /\ allowed' = allowed /\ clock' = clock + 1
      BY <1>1
    <3>2. Suffix(bucket'[c.key], allowed'[c.key], d)
      BY <2>3, <3>1
    <3>3. \A i \in 1 .. d : allowed'[c.key][i] <= clock' - c.window
      BY <1>1, <2>2, <2>4, <3>1
    <3> QED BY <3>2, <3>3 DEF Kept
  <2> QED BY <1>1, <2>5 DEF MemoryInv, LimitOf
<1> QED BY <1>1, <1>2, <1>3 DEF MemoryInv

(* RemoveAt() drops one element, and leaves the order of the others.       *)
LEMMA RemoveAtIs ==
  ASSUME NEW S, NEW s \in Seq(S), NEW n \in 1 .. Len(s)
  PROVE  /\ Memory!RemoveAt(s, n) \in Seq(S)
         /\ Len(Memory!RemoveAt(s, n)) = Len(s) - 1
         /\ \A i \in 1 .. Len(s) - 1 :
              Memory!RemoveAt(s, n)[i] = s[IF i < n THEN i ELSE i + 1]
<1> DEFINE a == SubSeq(s, 1, n - 1)
           b == SubSeq(s, n + 1, Len(s))
<1>1. Len(s) \in Nat /\ n \in Nat /\ \A i \in 1 .. Len(s) : s[i] \in S
  BY LenProperties, ElementOfSeq
<1>2. /\ a \in Seq(S) /\ Len(a) = n - 1 /\ \A i \in 1 .. n - 1 : a[i] = s[i]
      /\ b \in Seq(S) /\ Len(b) = Len(s) - n /\ \A i \in 1 .. Len(s) - n : b[i] = s[n + i]
  BY <1>1
<1>3. Memory!RemoveAt(s, n) = a \o b
  BY DEF Memory!RemoveAt
<1> HIDE DEF a, b
<1>4. /\ a \o b \in Seq(S) /\ Len(a \o b) = Len(a) + Len(b)
      /\ \A i \in 1 .. Len(a) + Len(b) : (a \o b)[i] = IF i <= Len(a) THEN a[i] ELSE b[i - Len(a)]
  BY <1>2, ConcatProperties
<1>5. \A i \in 1 .. Len(s) - 1 : (a \o b)[i] = s[IF i < n THEN i ELSE i + 1]
  <2> TAKE i \in 1 .. Len(s) - 1
  <2>1. CASE i < n
    BY <1>1, <1>2, <1>4, <2>1
  <2>2. CASE ~ (i < n)
    <3>1. (a \o b)[i] = b[i - (n - 1)] /\ i - (n - 1) \in 1 .. Len(s) - n /\ n + (i - (n - 1)) = i + 1
      BY <1>1, <1>2, <1>4, <2>2
    <3> QED BY <1>2, <2>2, <3>1
  <2> QED BY <2>1, <2>2
<1> QED BY <1>1, <1>2, <1>3, <1>4, <1>5

OrderedKeys(o) ==
  o \in Seq(Memory!Keys) /\ \A i, j \in 1 .. Len(o) : o[i] = o[j] => i = j

(* The key that is hit goes to the end; nothing else comes twice.          *)
LEMMA MovedToEnd ==
  ASSUME OrderedKeys(order), NEW k \in Memory!Keys
  PROVE  /\ OrderedKeys(Memory!MoveToEnd(k)) /\ Len(Memory!MoveToEnd(k)) > 0
         /\ Len(Memory!MoveToEnd(k)) > 1 => Head(Memory!MoveToEnd(k)) # k
<1> DEFINE rest == IF k \in Memory!ToSet(order)
                     THEN Memory!RemoveAt(order, Memory!Place(k)) ELSE order
<1>1. Len(order) \in Nat /\ DOMAIN order = 1 .. Len(order)
  BY LenProperties DEF OrderedKeys
<1>2. /\ OrderedKeys(rest) /\ \A i \in 1 .. Len(rest) : rest[i] # k
  <2>1. CASE k \notin Memory!ToSet(order)
    BY <1>1, <2>1 DEF Memory!ToSet, OrderedKeys
  <2>2. CASE k \in Memory!ToSet(order)
    <3> DEFINE n == Memory!Place(k)
    <3>1. n \in 1 .. Len(order) /\ order[n] = k
      BY <1>1, <2>2 DEF Memory!Place, Memory!ToSet
    <3> HIDE DEF n
    <3> DEFINE t == Memory!RemoveAt(order, n)
    <3>2. /\ t \in Seq(Memory!Keys) /\ Len(t) = Len(order) - 1
          /\ \A i \in 1 .. Len(order) - 1 : t[i] = order[IF i < n THEN i ELSE i + 1]
      BY <3>1, RemoveAtIs DEF OrderedKeys
    <3> HIDE DEF t
    <3>3. \A i \in 1 .. Len(t) : (IF i < n THEN i ELSE i + 1) \in 1 .. Len(order)
      BY <1>1, <3>1, <3>2
    <3>4. \A i \in 1 .. Len(t) : t[i] # k
      BY <1>1, <3>1, <3>2, <3>3 DEF OrderedKeys
    <3>5. \A i, j \in 1 .. Len(t) : t[i] = t[j] => i = j
      <4> SUFFICES ASSUME NEW i \in 1 .. Len(t), NEW j \in 1 .. Len(t), t[i] = t[j]  PROVE i = j
        OBVIOUS
      <4>1. (IF i < n THEN i ELSE i + 1) = (IF j < n THEN j ELSE j + 1)
        BY <3>2, <3>3 DEF OrderedKeys
      <4> QED BY <1>1, <3>1, <3>2, <4>1
    <3>6. rest = t
      BY <2>2 DEF n, t
    <3> QED BY <3>2, <3>4, <3>5, <3>6 DEF OrderedKeys
  <2> QED BY <2>1, <2>2
<1>3. Memory!MoveToEnd(k) = Append(rest, k)
  BY DEF Memory!MoveToEnd
<1> HIDE DEF rest
<1> DEFINE moved == Append(rest, k)
<1>4. /\ moved \in Seq(Memory!Keys) /\ Len(moved) = Len(rest) + 1 /\ Len(rest) \in Nat
      /\ \A i \in 1 .. Len(rest) : moved[i] = rest[i]
      /\ moved[Len(rest) + 1] = k
  BY <1>2, AppendProperties, LenProperties DEF OrderedKeys
<1>5. Head(moved) = moved[1]
  BY <1>4, HeadTailProperties
<1> HIDE DEF moved
<1>6. \A i, j \in 1 .. Len(moved) : moved[i] = moved[j] => i = j
  BY <1>2, <1>4 DEF OrderedKeys
<1>7. Len(moved) > 1 => Head(moved) # k
  BY <1>2, <1>4, <1>5
<1> QED BY <1>3, <1>4, <1>6, <1>7 DEF OrderedKeys, moved

LEMMA MemoryHit ==
  ASSUME MemoryInv, NEW c \in Calls, Memory!Hit(c)
  PROVE  MemoryInv'
<1> DEFINE k == c.key
           moved == Memory!MoveToEnd(k)
           gone == Memory!Evicted(moved)
           recent == Memory!Recent(c)
<1>1. /\ clock' = clock /\ clock \in Nat
      /\ order' = IF gone = {} THEN moved ELSE Tail(moved)
      /\ bucket' = [q \in Memory!Keys |-> IF q \in gone THEN <<>>
                                         ELSE IF q = k THEN Memory!Logged(c) ELSE bucket[q]]
      /\ allowed' = [q \in Memory!Keys |-> IF q \in gone THEN <<>>
                                         ELSE IF q = k /\ Memory!Within(c)
                                           THEN Append(allowed[q], clock) ELSE allowed[q]]
      /\ last' = [call |-> c, allowed |-> Memory!Within(c),
                  retryAfter |-> IF Memory!Within(c) THEN 0
                                 ELSE Memory!Later(recent[1] + c.window - clock, 0)]
  BY DEF Memory!Hit, MemoryInv, MemoryTypes
<1>2. k \in Memory!Keys /\ c.limit \in Nat \ {0} /\ c.window \in Nat \ {0}
  BY CallsHave
<1>3. OrderedKeys(moved) /\ Len(moved) > 0 /\ (Len(moved) > 1 => Head(moved) # k)
  BY <1>2, MovedToEnd DEF MemoryInv, MemoryTypes, OrderedKeys
<1>4. k \notin gone /\ (gone # {} => Len(moved) > 1)
  BY <1>3, LenProperties, MemoryAssumption DEF Memory!Evicted, OrderedKeys
<1>5. OrderedKeys(order')
  <2>1. CASE gone = {}
    BY <1>1, <1>3, <2>1
  <2>2. CASE gone # {}
    <3> HIDE DEF moved, gone
    <3>1. /\ Tail(moved) \in Seq(Memory!Keys) /\ Len(Tail(moved)) = Len(moved) - 1
          /\ \A i \in 1 .. Len(moved) - 1 : Tail(moved)[i] = moved[i + 1]
          /\ Len(moved) \in Nat
      <4>1. moved \in Seq(Memory!Keys) /\ moved # <<>>
        BY <1>3 DEF OrderedKeys
      <4> QED BY <4>1, HeadTailProperties, LenProperties
    <3>2. \A i, j \in 1 .. Len(Tail(moved)) : Tail(moved)[i] = Tail(moved)[j] => i = j
      BY <1>3, <3>1 DEF OrderedKeys
    <3> QED BY <1>1, <2>2, <3>1, <3>2 DEF OrderedKeys
  <2> QED BY <2>1, <2>2
<1> HIDE DEF moved, gone
(* The bucket of the key and what was granted to it.                       *)
<1> DEFINE b == bucket[k]
           a == allowed[k]
<1>6. /\ a \in Seq(Nat) /\ b \in Seq(Nat) /\ Sorted(a)
      /\ \A i \in 1 .. Len(a) : a[i] <= clock /\ a[i] \in Nat
      /\ Len(a) \in Nat /\ Len(b) \in Nat /\ LimitOf(c)
  BY <1>2, ElementOfSeq, LenProperties DEF MemoryInv, MemoryTypes
<1>7. PICK d \in Nat : Kept(c, d)
  BY DEF MemoryInv
<1>8. /\ d \in 0 .. Len(a) /\ Len(b) = Len(a) - d /\ \A i \in 1 .. Len(b) : b[i] = a[i + d]
      /\ \A i \in 1 .. d : a[i] <= clock - c.window
  BY <1>7 DEF Kept, Suffix
<1>9. Sorted(b)
  BY <1>6, <1>8 DEF Sorted
<1>10. PICK n \in 0 .. Len(b) :
         /\ Suffix(recent, b, n)
         /\ \A i \in 1 .. n : b[i] <= clock - c.window
         /\ \A i \in 1 .. Len(recent) : recent[i] > clock - c.window
  <2>1. clock - c.window \in Int
    BY <1>1, <1>2
  <2> QED BY <1>6, <1>9, <2>1, SinceLeaves DEF Memory!Recent
<1> HIDE DEF a, b, recent
<1> DEFINE m == d + n
<1>11. /\ recent \in Seq(Nat) /\ Len(recent) = Len(a) - m /\ Len(recent) \in Nat
       /\ \A i \in 1 .. Len(recent) : recent[i] = a[i + m]
       /\ m \in 0 .. Len(a) /\ m \in Nat /\ Len(recent) <= c.limit
  <2>1. /\ recent \in Seq(Nat) /\ Len(recent) = Len(b) - n
        /\ \A i \in 1 .. Len(recent) : recent[i] = b[i + n]
    BY <1>10 DEF Suffix
  <2>2. Len(b) <= c.limit
    BY <1>6 DEF LimitOf, b
  <2>3. \A i \in 1 .. Len(recent) : recent[i] = a[i + (d + n)]
    <3> TAKE i \in 1 .. Len(recent)
    <3>1. i + n \in 1 .. Len(b) /\ (i + n) + d = i + (d + n)
      BY <1>6, <1>8, <2>1
    <3> QED BY <1>8, <2>1, <3>1
  <2> QED BY <1>2, <1>6, <1>8, <2>1, <2>2, <2>3
<1>12. \A i \in 1 .. m : a[i] <= clock - c.window
  <2> TAKE i \in 1 .. d + n
  <2>1. CASE i <= d
    BY <1>8, <2>1
  <2>2. CASE i > d
    <3>1. i - d \in 1 .. n /\ i - d \in 1 .. Len(b) /\ (i - d) + d = i
      BY <1>6, <1>8, <2>2
    <3> QED BY <1>8, <1>10, <3>1
  <2> QED BY <1>8, <2>1, <2>2
<1> HIDE DEF m
<1>13. bucket'[k] = Memory!Logged(c)
       /\ allowed'[k] = IF Memory!Within(c) THEN Append(a, clock) ELSE a
  BY <1>1, <1>2, <1>4 DEF a
<1>14. /\ Suffix(bucket'[k], allowed'[k], m)
       /\ \A i \in 1 .. m : allowed'[k][i] <= clock - c.window
       /\ Len(bucket'[k]) <= c.limit
       /\ Sorted(allowed'[k]) /\ allowed'[k] \in Seq(Nat) /\ bucket'[k] \in Seq(Nat)
       /\ \A i \in 1 .. Len(allowed'[k]) : allowed'[k][i] <= clock
  <2>1. CASE Memory!Within(c)
    <3> DEFINE x == Append(a, clock)
               y == Append(recent, clock)
    <3>1. bucket'[k] = y /\ allowed'[k] = x /\ Len(recent) < c.limit
      BY <1>13, <2>1 DEF Memory!Logged, Memory!Within, recent
    <3>2. /\ x \in Seq(Nat) /\ Len(x) = Len(a) + 1 /\ x[Len(a) + 1] = clock
          /\ \A i \in 1 .. Len(a) : x[i] = a[i]
          /\ y \in Seq(Nat) /\ Len(y) = Len(recent) + 1 /\ y[Len(recent) + 1] = clock
          /\ \A i \in 1 .. Len(recent) : y[i] = recent[i]
      BY <1>1, <1>6, <1>11, AppendProperties
    <3> HIDE DEF x, y
    <3>3. \A i \in 1 .. Len(y) : y[i] = x[i + m]
      <4> TAKE i \in 1 .. Len(y)
      <4>1. CASE i = Len(recent) + 1
        BY <1>6, <1>11, <3>2, <4>1
      <4>2. CASE i \in 1 .. Len(recent)
        <5>1. i + m \in 1 .. Len(a)
          BY <1>6, <1>11, <4>2
        <5> QED BY <1>11, <3>2, <4>2, <5>1
      <4>3. i = Len(recent) + 1 \/ i \in 1 .. Len(recent)
        <5>1. i \in 1 .. Len(recent) + 1 /\ Len(recent) \in Nat
          BY <1>11, <3>2
        <5> QED BY <5>1
      <4> QED BY <4>1, <4>2, <4>3
    <3>4. Suffix(y, x, m)
      BY <1>6, <1>11, <3>2, <3>3 DEF Suffix
    <3>5. \A i \in 1 .. m : x[i] <= clock - c.window
      <4>1. \A i \in 1 .. m : i \in 1 .. Len(a)
        BY <1>6, <1>11
      <4> QED BY <1>12, <3>2, <4>1
    <3>6. \A i \in 1 .. Len(x) : i = Len(a) + 1 \/ i \in 1 .. Len(a)
      <4>1. Len(x) = Len(a) + 1 /\ Len(a) \in Nat
        BY <1>6, <3>2
      <4> QED BY <4>1
    <3>7. \A i \in 1 .. Len(x) : x[i] <= clock
      <4>1. \A i \in 1 .. Len(a) : x[i] <= clock
        BY <1>6, <3>2
      <4>2. x[Len(a) + 1] <= clock
        BY <1>1, <3>2
      <4> QED BY <3>6, <4>1, <4>2
    <3>8. Sorted(x)
      <4> SUFFICES ASSUME NEW i \in 1 .. Len(x), NEW j \in 1 .. Len(x), i <= j
                   PROVE  x[i] <= x[j]
        BY DEF Sorted
      <4>1. CASE j = Len(a) + 1
        BY <3>2, <3>7, <4>1
      <4>2. CASE j \in 1 .. Len(a)
        <5>1. i \in 1 .. Len(a)
          BY <1>6, <3>6, <4>2
        <5> QED BY <1>6, <3>2, <4>2, <5>1 DEF Sorted
      <4> QED BY <3>6, <4>1, <4>2
    <3>9. Len(y) <= c.limit
      <4>1. Len(y) = Len(recent) + 1
        BY <3>2
      <4> QED BY <1>2, <1>11, <3>1, <4>1
    <3>10. x \in Seq(Nat) /\ y \in Seq(Nat)
      BY <3>2
    <3> QED BY <3>1, <3>4, <3>5, <3>7, <3>8, <3>9, <3>10
  <2>2. CASE ~ Memory!Within(c)
    <3>1. bucket'[k] = recent /\ allowed'[k] = a
      BY <1>13, <2>2 DEF Memory!Logged, recent
    <3>2. Suffix(recent, a, m)
      BY <1>11 DEF Suffix
    <3> QED BY <1>6, <1>11, <1>12, <3>1, <3>2
  <2> QED BY <2>1, <2>2
<1>15. \A q \in Memory!Keys \ {k} :
         \/ bucket'[q] = bucket[q] /\ allowed'[q] = allowed[q]
         \/ bucket'[q] = <<>> /\ allowed'[q] = <<>>
  BY <1>1
<1>16. <<>> \in Seq(Nat) /\ Len(<<>>) = 0 /\ Sorted(<<>>)
  BY DEF Sorted
<1>17. MemoryTypes'
  <2>1. \A q \in Memory!Keys : bucket'[q] \in Seq(Nat) /\ allowed'[q] \in Seq(Nat)
    BY <1>14, <1>15, <1>16 DEF MemoryInv, MemoryTypes
  <2>2. bucket' \in [Memory!Keys -> Seq(Nat)] /\ allowed' \in [Memory!Keys -> Seq(Nat)]
    <3>1. /\ bucket' = [q \in Memory!Keys |-> bucket'[q]]
          /\ allowed' = [q \in Memory!Keys |-> allowed'[q]]
      BY <1>1
    <3> QED BY <2>1, <3>1
  <2>3. \A q \in Memory!Keys :
          Sorted(allowed'[q]) /\ \A i \in 1 .. Len(allowed'[q]) : allowed'[q][i] <= clock
    <3>1. \A q \in Memory!Keys :
            Sorted(allowed[q]) /\ \A i \in 1 .. Len(allowed[q]) : allowed[q][i] <= clock
      BY DEF MemoryInv, MemoryTypes
    <3>2. \A q \in Memory!Keys \ {k} :
            Sorted(allowed'[q]) /\ \A i \in 1 .. Len(allowed'[q]) : allowed'[q][i] <= clock
      <4> TAKE q \in Memory!Keys \ {k}
      <4>1. CASE allowed'[q] = allowed[q]
        BY <3>1, <4>1
      <4>2. CASE allowed'[q] = <<>>
        BY <1>16, <4>2
      <4> QED BY <1>15, <4>1, <4>2
    <3> QED BY <1>14, <3>2
  <2> QED BY <1>1, <1>5, <2>2, <2>3 DEF MemoryTypes, OrderedKeys
<1>18. ASSUME NEW e \in Calls  PROVE LimitOf(e)' /\ \E x \in Nat : Kept(e, x)'
  <2>1. CASE e.key = k
    <3>1. e = c
      BY <2>1, MemoryAssumption
    <3>2. Kept(c, m)' /\ LimitOf(c)'
      BY <1>1, <1>14 DEF Kept, LimitOf
    <3> QED BY <1>11, <3>1, <3>2
  <2>2. CASE e.key # k
    <3>1. e.key \in Memory!Keys \ {k} /\ e.limit \in Nat
      BY <2>2, CallsHave
    <3>2. CASE bucket'[e.key] = bucket[e.key] /\ allowed'[e.key] = allowed[e.key]
      <4>1. PICK x \in Nat : Kept(e, x)
        BY DEF MemoryInv
      <4>2. Kept(e, x)' /\ LimitOf(e)'
        BY <1>1, <3>2, <4>1 DEF MemoryInv, Kept, LimitOf
      <4> QED BY <4>2
    <3>3. CASE bucket'[e.key] = <<>> /\ allowed'[e.key] = <<>>
      <4>1. Suffix(<<>>, <<>>, 0)
        BY <1>16 DEF Suffix
      <4>2. Kept(e, 0)' /\ LimitOf(e)'
        BY <1>16, <3>1, <3>3, <4>1 DEF Kept, LimitOf
      <4> QED BY <4>2
    <3> QED BY <1>15, <3>1, <3>2, <3>3
  <2> QED BY <2>1, <2>2
<1>19. last'.call = c /\ (~ last'.allowed => Refused(c)')
  <2>1. ASSUME ~ Memory!Within(c)  PROVE Refused(c)'
    <3>1. bucket'[k] = recent /\ Len(recent) = c.limit
      BY <1>2, <1>11, <1>13, <2>1 DEF Memory!Logged, Memory!Within, recent
    <3>2. 1 \in 1 .. Len(recent) /\ recent[1] \in Nat /\ recent[1] > clock - c.window
      BY <1>2, <1>10, <1>11, <3>1, ElementOfSeq
    <3>3. last'.retryAfter = recent[1] + c.window - clock
      BY <1>1, <1>2, <2>1, <3>2 DEF Memory!Later
    <3> QED BY <1>1, <1>10, <3>1, <3>3 DEF Refused
  <2> QED BY <1>1, <2>1
<1> QED BY <1>17, <1>18, <1>19 DEF MemoryInv

LEMMA MemoryNext ==
  ASSUME MemoryInv, [Memory!Next]_(Memory!vars)
  PROVE  MemoryInv'
<1>1. CASE UNCHANGED Memory!vars
  BY <1>1 DEF Memory!vars, MemoryInv, MemoryTypes, LimitOf, Kept, Refused
<1>2. CASE Memory!Next
  BY <1>2, MemoryTick, MemoryHit DEF Memory!Next
<1> QED BY <1>1, <1>2

LEMMA MemorySteps ==
  ASSUME view = "memory", [RequestNext]_requestVars
  PROVE  view' = "memory" /\ [Memory!Next]_(Memory!vars)
BY DEF RequestNext, requestVars, memoryVars, Memory!vars

(***************************************************************************)
(* The parts together                                                      *)
(***************************************************************************)

(* Either of the theorems below needs the layers' invariant.               *)
StackView == view = "layers" => StackInv

LEMMA StackViewNext ==
  ASSUME StackView, [RequestNext]_requestVars
  PROVE  StackView'
<1> SUFFICES ASSUME view' = "layers" PROVE StackInv'
  BY DEF StackView
<1>1. view = "layers"
  BY OneView
<1> QED BY <1>1, StackSteps, StackNext DEF StackView

(* PassageHolds, which run Requests checks for two requests through six    *)
(* layers: boots that raise are resumed, never repeated; a request's code, *)
(* and the report of its crash, find in every ContextVar what its own      *)
(* layers put there, and a task is left as it was found; the metrics count *)
(* each request once, under the status its client was told                 *)
(* (application.py:98-136, request_id.py:67-105, profiler.py:91-141,       *)
(* metrics.py:278-303).                                                    *)
THEOREM PassageAlwaysHolds == RequestSpec => []PassageHolds
<1>1. RequestInit => StackView
  BY StackInit DEF RequestInit, StackView
<1>2. StackView /\ [RequestNext]_requestVars => StackView'
  BY StackViewNext
<1>3. StackView => PassageHolds
  BY StackHolds DEF StackView, PassageHolds
<1> QED BY <1>1, <1>2, <1>3, PTL DEF RequestSpec

(* RefusedFirst, which run Requests checks with an operator who puts the   *)
(* application down: a request that maintenance mode answers has passed no *)
(* other layer (maintenance.py:144-149).                                   *)
THEOREM AlwaysRefusedFirst == RequestSpec => RefusedFirst
<1>1. RequestInit => StackView
  BY StackInit DEF RequestInit, StackView
<1>2. StackView /\ [RequestNext]_requestVars => StackView'
  BY StackViewNext
<1>3. ASSUME StackView, [RequestNext]_requestVars
      PROVE  [\A r \in Requests :
                told'[r] \in {"down", "redirect"} /\ told[r] = None => at[r] = 1]_vars
  <2>1. CASE view = "layers"
    BY <1>3, <2>1, StackSteps, OnlyMaintenanceRefuses DEF StackView
  <2>2. CASE view # "layers"
    BY <1>3, <2>2 DEF RequestNext, requestVars
  <2> QED BY <2>1, <2>2
<1> QED BY <1>1, <1>2, <1>3, PTL DEF RequestSpec, RefusedFirst

(* DecidedOnThen, which run Requests checks for one request: whatever the  *)
(* gate's setup and whoever changes roles, the author and the users        *)
(* meanwhile, the Gate allows, refuses or raises as the rules of the       *)
(* setup say of facts that held while it was asked (authorization.py:151-  *)
(* 175, 223-240, api_auth.py:58-67).                                       *)
THEOREM AlwaysDecidedOnThen == RequestSpec => []DecidedOnThen
<1> DEFINE Inv == view = "access" => GateInv
<1>1. RequestInit => Inv
  BY GateInit DEF RequestInit
<1>2. Inv /\ [RequestNext]_requestVars => Inv'
  <2> SUFFICES ASSUME Inv, [RequestNext]_requestVars, view' = "access"
               PROVE  GateInv'
    OBVIOUS
  <2>1. view = "access"
    BY OneView
  <2> QED BY <2>1, AccessSteps, GateNext
<1>3. Inv => DecidedOnThen
  BY GateDecides DEF DecidedOnThen
<1> QED BY <1>1, <1>2, <1>3, PTL DEF RequestSpec

(* LoginsAreSound, which run Requests checks for a browser with two tabs   *)
(* and four callbacks: what a browser was told is over stays over, its own *)
(* forms pass, and an assertion that comes again is accepted no more often *)
(* than there are processes and faults, although a process forgets its     *)
(* lock whenever a callback leaves it (mfa.py:222-241, oauth.py:272-323,   *)
(* csrf.py:85-129, saml.py:268-280).                                       *)
THEOREM LoginsAreAlwaysSound == RequestSpec => []LoginsAreSound
<1> DEFINE Inv == (view = "cookies" => CookieInv) /\ (view = "saml" => SamlInv)
<1>1. RequestInit => Inv
  BY CookieInit, SamlInit DEF RequestInit
<1>2. Inv /\ [RequestNext]_requestVars => Inv'
  <2> SUFFICES ASSUME Inv, [RequestNext]_requestVars
               PROVE  Inv'
    OBVIOUS
  <2>1. view' = "cookies" => CookieInv'
    BY OneView, CookieSteps, CookieNext
  <2>2. view' = "saml" => SamlInv'
    BY OneView, SamlSteps, SamlNext
  <2> QED BY <2>1, <2>2
<1>3. Inv => LoginsAreSound
  BY CookieHolds, SamlHolds DEF LoginsAreSound
<1> QED BY <1>1, <1>2, <1>3, PTL DEF RequestSpec

(* UploadsAreWhole, which run Requests checks for three uploads: whoever   *)
(* puts, replaces or deletes a key meanwhile, a file that can be read is   *)
(* the whole of one upload, and a link serves only the one it was made for *)
(* (storage.py:91-101, 304-306, 350-354).                                  *)
THEOREM UploadsAreAlwaysWhole == RequestSpec => []UploadsAreWhole
<1> DEFINE Inv == view = "files" => FilesInv
<1>1. RequestInit => Inv
  BY FilesInit DEF RequestInit
<1>2. Inv /\ [RequestNext]_requestVars => Inv'
  <2> SUFFICES ASSUME Inv, [RequestNext]_requestVars, view' = "files"
               PROVE  FilesInv'
    OBVIOUS
  <2>1. view = "files"
    BY OneView
  <2> QED BY <2>1, FilesSteps, FilesNext
<1>3. Inv => UploadsAreWhole
  BY DEF UploadsAreWhole, FilesInv
<1> QED BY <1>1, <1>2, <1>3, PTL DEF RequestSpec

(* LimitsHold, which run Requests checks for limits of one and two: of the *)
(* hits that share a Redis key fewer than twice the limit pass in a window,*)
(* and the key never stays for ever; those that a process counts are       *)
(* within the limit in every window, and told exactly when to come back    *)
(* (rate_limit.py:79-102, 112-117, 136-143).                               *)
THEOREM LimitsAlwaysHold == RequestSpec => []LimitsHold
<1> DEFINE Inv == (view = "redis" => RedisInv) /\ (view = "memory" => MemoryInv)
<1>1. RequestInit => Inv
  BY RedisInit, MemoryInit DEF RequestInit
<1>2. Inv /\ [RequestNext]_requestVars => Inv'
  <2> SUFFICES ASSUME Inv, [RequestNext]_requestVars
               PROVE  Inv'
    OBVIOUS
  <2>1. view' = "redis" => RedisInv'
    BY OneView, RedisSteps, RedisNext
  <2>2. view' = "memory" => MemoryInv'
    BY OneView, MemorySteps, MemoryNext
  <2> QED BY <2>1, <2>2
<1>3. Inv => LimitsHold
  BY RedisHolds, MemoryHolds DEF LimitsHold
<1> QED BY <1>1, <1>2, <1>3, PTL DEF RequestSpec
=============================================================================
