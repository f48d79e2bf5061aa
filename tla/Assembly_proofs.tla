-------------------------- MODULE Assembly_proofs --------------------------
(***************************************************************************)
(* Proofs about what one process assembles before it answers, and about    *)
(* how the answers leave it, as MCRequests puts the parts together: the    *)
(* container, the import of projects, the routes and the metrics; the      *)
(* responses and their languages.  For any providers, classes, projects,   *)
(* routes, calls, arrivals, languages and bounds.                          *)
(***************************************************************************)
EXTENDS MCRequests, FiniteSetTheorems, SequenceTheorems, NaturalsInduction,
        WellFoundedInduction, TLAPS

(* A set of numbers has a least one.                                       *)
LEMMA Least ==
  ASSUME NEW T \in SUBSET Nat, T # {}
  PROVE  \E n \in T : \A k \in T : n <= k
<1>1. PICK n \in T : \A k \in T : <<k, n>> \notin OpToRel(<, Nat)
  BY WFMin, NatLessThanWellFounded, Zenon
<1>2. \A k \in T : ~(k < n)
  BY <1>1, Zenon DEF OpToRel
<1> QED BY <1>2

(* A behaviour of one part stays one of that part.                         *)
LEMMA OneView ==
  ASSUME [RequestNext]_requestVars
  PROVE  view' = view
BY DEF RequestNext, requestVars

(***************************************************************************)
(* Container                                                               *)
(***************************************************************************)

(* Where the make() calls of a stack begin.                                *)
Below(s) == IF s # <<>> /\ s[1].of = "call" THEN 1 ELSE 0
ChainOf(s, r) ==
  /\ Len(r) = Len(s) - Below(s)
  /\ \A k \in 1 .. Len(r) : r[k] = s[k + Below(s)].of

AnyFrame == [of : Build!Abstracts \cup {"call"}, left : Seq(Build!Param),
             given : SUBSET Build!Abstracts]

ContainerTypes ==
  /\ hints \in [AppClasses -> Seq(Build!Param)] /\ instances \subseteq Build!Abstracts
  /\ made \in [Build!Abstracts -> Nat]
  /\ stack \in Seq(AnyFrame) /\ resolving \in Seq(Build!Abstracts)
  /\ \/ signal \in {Build!Nothing, Build!BindingError, Build!OtherError}
     \/ \E a \in Build!Abstracts, whole \in BOOLEAN : signal = Build!Value(a, whole)

(* A frame calls for what the next one builds, or what is being returned.  *)
Linked ==
  /\ \A k \in 1 .. Len(stack) : k # 1 => stack[k].of # "call"
  /\ \A k \in 1 .. Len(stack) : k # Len(stack) =>
       stack[k].left # <<>> /\ Head(stack[k].left).on = stack[k + 1].of
  /\ stack # <<>> /\ signal # Build!Nothing => Build!Top.left # <<>>
  /\ stack # <<>> /\ signal.kind = "value" => signal.of = Build!NextParam.on

(* What a frame has behind it was found, or was optional and unbound.      *)
Behind(frame) ==
  \E n \in 0 .. Len(Build!ParamsOf(frame.of)) :
    /\ Len(frame.left) = Len(Build!ParamsOf(frame.of)) - n
    /\ \A i \in 1 .. Len(frame.left) : frame.left[i] = Build!ParamsOf(frame.of)[i + n]
    /\ \A i \in 1 .. n :
         LET p == Build!ParamsOf(frame.of)[i] IN
           ~p.optional \/ Build!Has(p.on) => p.on \in frame.given

FoundInTurn == \A k \in 1 .. Len(stack) : stack[k].of # "call" => Behind(stack[k])

(* What is being built is not kept yet, and what was built is.             *)
KeptOnce ==
  /\ \A k \in 1 .. Len(stack) : stack[k].of \notin instances
  /\ \A a \in Build!Abstracts : made[a] = 0 \/ (made[a] = 1 /\ a \in instances)

ContainerInv ==
  /\ ContainerTypes /\ Linked /\ FoundInTurn /\ KeptOnce
  /\ ChainOf(stack, resolving) /\ Build!IsInjective(resolving)
  /\ signal.kind = "value" => signal.whole

LEMMA ContainerInit ==
  ASSUME Build!Init
  PROVE  ContainerInv
<1> USE DEF Build!Init, ContainerInv
<1>1. hints \in [AppClasses -> Seq(Build!Param)]
  BY ContainerAssumption DEF Build!BoundedSeq, Build!SeqOf
<1>2. ContainerTypes
  BY <1>1 DEF ContainerTypes
<1>3. Linked /\ FoundInTurn /\ KeptOnce
  BY DEF Linked, FoundInTurn, KeptOnce, Build!Nothing
<1>4. ChainOf(stack, resolving) /\ Build!IsInjective(resolving)
  BY DEF ChainOf, Below, Build!IsInjective
<1>5. signal.kind # "value"
  BY DEF Build!Nothing
<1> QED BY <1>2, <1>3, <1>4, <1>5

(* ChainIsTrue is said of the stack without a call of a job.               *)
LEMMA ContainerHolds ==
  ASSUME ContainerInv
  PROVE  Build!ChainIsTrue /\ Build!SharedAndWhole
<1> USE DEF ContainerInv
<1>1. stack \in Seq(AnyFrame) /\ resolving \in Seq(Build!Abstracts)
  BY DEF ContainerTypes
<1>2. /\ Build!Makes \in Seq(AnyFrame) /\ Len(Build!Makes) = Len(stack) - Below(stack)
      /\ \A k \in 1 .. Len(Build!Makes) : Build!Makes[k] = stack[k + Below(stack)]
  BY <1>1 DEF Build!Makes, Below
<1>3. resolving = [k \in 1 .. Len(resolving) |-> resolving[k]]
  BY <1>1
<1>4. \A k \in 1 .. Len(resolving) : resolving[k] = Build!Makes[k].of
  BY <1>2 DEF ChainOf
<1>5. resolving = [k \in DOMAIN Build!Makes |-> Build!Makes[k].of]
  BY <1>2, <1>3, <1>4 DEF ChainOf
<1>6. Build!SharedAndWhole
  BY DEF Build!SharedAndWhole, KeptOnce
<1> QED BY <1>5, <1>6 DEF Build!ChainIsTrue

LEMMA ContainerSteps ==
  ASSUME view = "container", [RequestNext]_requestVars
  PROVE  view' = "container" /\ [Build!Next]_(Build!vars)
BY DEF RequestNext, requestVars, containerVars, Build!vars, Build!tables

LEMMA StaysBehind ==
  ASSUME UNCHANGED Build!tables, NEW f, Behind(f),
         \A a : Build!Has(a)' <=> Build!Has(a)
  PROVE  Behind(f)'
<1>1. \A a : Build!ParamsOf(a)' = Build!ParamsOf(a)
  BY DEF Build!tables, Build!ParamsOf
<1> QED BY <1>1, Zenon DEF Behind

LEMMA SameBehind ==
  ASSUME UNCHANGED <<Build!tables, instances>>, NEW f, Behind(f)
  PROVE  Behind(f)'
<1>1. \A a : Build!Has(a)' <=> Build!Has(a)
  BY DEF Build!Has, Build!tables
<1> QED BY <1>1, StaysBehind

LEMMA ParamsTyped ==
  ASSUME ContainerTypes, NEW a
  PROVE  Build!ParamsOf(a) \in Seq(Build!Param)
BY DEF ContainerTypes, Build!ParamsOf

(* The chain when a call is added, or when the last is over.               *)
LEMMA ChainGrows ==
  ASSUME NEW s \in Seq(AnyFrame), NEW r \in Seq(Build!Abstracts), NEW f \in AnyFrame,
         f.of # "call", ChainOf(s, r)
  PROVE  ChainOf(Append(s, f), Append(r, f.of))
<1>1. Below(Append(s, f)) = Below(s)
  BY DEF Below
<1>2. Below(s) \in {0, 1} /\ Below(s) <= Len(s)
  BY DEF Below
<1> QED BY <1>1, <1>2 DEF ChainOf, AnyFrame

LEMMA FrontIs ==
  ASSUME NEW S, NEW s \in Seq(S), s # <<>>
  PROVE  /\ Build!Front(s) \in Seq(S) /\ Len(Build!Front(s)) = Len(s) - 1
         /\ \A k \in 1 .. Len(s) - 1 : Build!Front(s)[k] = s[k]
<1>1. Len(s) \in Nat \ {0}
  BY EmptySeq
<1>2. 1 \in 1 .. Len(s) + 1 /\ Len(s) - 1 \in 1 - 1 .. Len(s) /\ Len(s) - 1 - 1 + 1 = Len(s) - 1
  BY <1>1
<1>3. /\ SubSeq(s, 1, Len(s) - 1) \in Seq(S)
      /\ Len(SubSeq(s, 1, Len(s) - 1)) = Len(s) - 1
      /\ \A i \in 1 .. Len(s) - 1 : SubSeq(s, 1, Len(s) - 1)[i] = s[1 + i - 1]
  BY <1>1, <1>2, SubSeqProperties
<1>4. \A i \in 1 .. Len(s) - 1 : 1 + i - 1 = i
  BY <1>1
<1> QED BY <1>3, <1>4, Zenon DEF Build!Front

LEMMA ChainShrinks ==
  ASSUME NEW s \in Seq(AnyFrame), NEW r \in Seq(Build!Abstracts), s # <<>>,
         \A k \in 1 .. Len(s) : k # 1 => s[k].of # "call", ChainOf(s, r)
  PROVE  IF s[Len(s)].of = "call" THEN Len(s) = 1 /\ ChainOf(Build!Front(s), r)
         ELSE r # <<>> /\ ChainOf(Build!Front(s), Build!Front(r))
<1> DEFINE t == Build!Front(s)
<1>1. Len(s) \in Nat \ {0}
  BY EmptySeq
<1>2. t \in Seq(AnyFrame) /\ Len(t) = Len(s) - 1 /\ \A k \in 1 .. Len(t) : t[k] = s[k]
  BY FrontIs
<1>3. Below(s) \in {0, 1} /\ Below(s) <= Len(s)
  BY DEF Below
<1>4. CASE s[Len(s)].of = "call"
  <2>1. Len(s) = 1
    <3>1. Len(s) \in 1 .. Len(s)
      BY <1>1
    <3> QED BY <1>4, <3>1, Zenon
  <2>2. Below(s) = 1 /\ Len(r) = 0
    BY <1>4, <2>1 DEF Below, ChainOf
  <2>3. t = <<>> /\ Below(t) = 0
    BY <1>2, <2>1 DEF Below
  <2> QED BY <1>4, <2>1, <2>2, <2>3 DEF ChainOf
<1>5. CASE s[Len(s)].of # "call"
  <2>1. Below(t) = Below(s) /\ Below(s) < Len(s)
    BY <1>1, <1>2, <1>5 DEF Below
  <2>2. r # <<>> /\ Len(r) \in Nat \ {0}
    BY <1>1, <1>3, <2>1 DEF ChainOf
  <2>3. /\ Len(Build!Front(r)) = Len(r) - 1
        /\ \A k \in 1 .. Len(Build!Front(r)) : Build!Front(r)[k] = r[k]
    BY <2>2, FrontIs
  <2> HIDE DEF t
  <2>4. ChainOf(t, Build!Front(r))
    <3>1. Len(Build!Front(r)) = Len(t) - Below(t)
      BY <1>1, <1>2, <1>3, <2>1, <2>3 DEF ChainOf
    <3>2. \A k \in 1 .. Len(Build!Front(r)) : Build!Front(r)[k] = t[k + Below(t)].of
      <4> TAKE k \in 1 .. Len(Build!Front(r))
      <4>1. k \in 1 .. Len(r) /\ k + Below(s) \in 1 .. Len(t)
        BY <1>1, <1>2, <1>3, <2>1, <2>2, <2>3, <3>1
      <4>2. Build!Front(r)[k] = r[k] /\ t[k + Below(s)] = s[k + Below(s)]
        BY <1>2, <2>3, <4>1
      <4> QED BY <2>1, <4>1, <4>2 DEF ChainOf
    <3> QED BY <3>1, <3>2 DEF ChainOf
  <2> QED BY <1>5, <2>2, <2>4 DEF t
<1> QED BY <1>4, <1>5

LEMMA ContainerIdles ==
  ASSUME ContainerInv, NEW a \in Build!Abstracts, Build!Bind(a) \/ Build!Instance(a)
  PROVE  ContainerInv'
<1> USE DEF ContainerInv
<1>1. /\ stack = <<>> /\ signal = Build!Nothing /\ UNCHANGED <<hints, resolving, stack, signal>>
      /\ instances' \in {instances \ {a}, instances \cup {a}}
      /\ made' \in {made, [made EXCEPT ![a] = 0]}
      /\ instances' = instances \ {a} => made' = [made EXCEPT ![a] = 0]
  BY DEF Build!Bind, Build!Instance, Build!Idle
<1>2. ContainerTypes'
  BY <1>1 DEF ContainerTypes
<1>3. Linked' /\ FoundInTurn'
  BY <1>1 DEF Linked, FoundInTurn
<1>4. KeptOnce'
  BY <1>1 DEF KeptOnce, ContainerTypes
<1> QED BY <1>1, <1>2, <1>3, <1>4

(* make() of an abstract that the top frame, if any, has to find.          *)
LEMMA ContainerEnters ==
  ASSUME ContainerInv, NEW a \in Build!Abstracts, Build!Enter(a),
         UNCHANGED <<Build!tables, instances, made>>, signal = Build!Nothing,
         stack # <<>> => Build!Top.left # <<>> /\ Build!NextParam.on = a
  PROVE  ContainerInv'
<1> USE DEF ContainerInv
<1>1. CASE a \in instances
  <2>1. signal' = Build!Value(a, TRUE) /\ UNCHANGED <<resolving, stack>>
    BY <1>1 DEF Build!Enter
  <2>2. ContainerTypes'
    BY <2>1 DEF ContainerTypes, Build!tables
  <2>3. Linked'
    BY <2>1 DEF Linked, Build!Value, Build!Top, Build!NextParam
  <2>4. FoundInTurn'
    BY <2>1, SameBehind DEF FoundInTurn
  <2>5. KeptOnce'
    BY <2>1 DEF KeptOnce
  <2> QED BY <2>1, <2>2, <2>3, <2>4, <2>5 DEF Build!Value
<1>2. CASE signal' = Build!BindingError /\ UNCHANGED <<resolving, stack>>
  <2>1. ContainerTypes'
    BY <1>2 DEF ContainerTypes, Build!tables
  <2>2. Linked'
    BY <1>2 DEF Linked, Build!BindingError, Build!Top, Build!NextParam
  <2>3. FoundInTurn'
    BY <1>2, SameBehind DEF FoundInTurn
  <2>4. KeptOnce'
    BY <1>2 DEF KeptOnce
  <2> QED BY <1>2, <2>1, <2>2, <2>3, <2>4 DEF Build!BindingError
<1>3. CASE a \notin instances /\ signal' # Build!BindingError
  <2> DEFINE f == Build!Frame(a, Build!ParamsOf(a))
  <2>1. /\ resolving' = Append(resolving, a) /\ stack' = Append(stack, f)
        /\ signal' = Build!Nothing /\ ~Build!Circular(a)
    BY <1>3 DEF Build!Enter
  <2>2. f \in AnyFrame /\ f.of = a /\ f.left = Build!ParamsOf(a) /\ a # "call"
    BY ParamsTyped, ContainerAssumption DEF Build!Frame, AnyFrame, Build!Abstracts
  <2>3. /\ stack \in Seq(AnyFrame) /\ resolving \in Seq(Build!Abstracts)
        /\ Len(stack) \in Nat /\ Len(stack') = Len(stack) + 1
        /\ stack'[Len(stack) + 1] = f
        /\ \A k \in 1 .. Len(stack) : stack'[k] = stack[k]
    <3> HIDE DEF f
    <3> QED BY <2>1, <2>2 DEF ContainerTypes
  <2>4. ContainerTypes'
    <3> HIDE DEF f
    <3> QED BY <2>1, <2>2 DEF ContainerTypes, Build!tables
  <2>5. Behind(f)
    BY <2>2, ParamsTyped DEF Behind
  <2> HIDE DEF f
  <2>6. Linked'
    <3>1. \A k \in 1 .. Len(stack') : k # 1 => stack'[k].of # "call"
      BY <2>2, <2>3 DEF Linked
    <3>2. stack # <<>> => stack[Len(stack)].left # <<>> /\ Head(stack[Len(stack)].left).on = a
      BY DEF Build!Top, Build!NextParam, Build!Last
    <3>3. \A k \in 1 .. Len(stack') : k # Len(stack') =>
            stack'[k].left # <<>> /\ Head(stack'[k].left).on = stack'[k + 1].of
      <4> SUFFICES ASSUME NEW k \in 1 .. Len(stack)
                   PROVE  stack'[k].left # <<>> /\ Head(stack'[k].left).on = stack'[k + 1].of
        BY <2>3
      <4>1. stack'[k] = stack[k] /\ stack # <<>>
        BY <2>3
      <4>2. CASE k = Len(stack)
        BY <2>2, <2>3, <3>2, <4>1, <4>2
      <4>3. CASE k # Len(stack)
        BY <2>3, <4>1, <4>3 DEF Linked
      <4> QED BY <4>2, <4>3
    <3>4. signal' = Build!Nothing /\ signal'.kind # "value"
      BY <2>1 DEF Build!Nothing
    <3> QED BY <3>1, <3>3, <3>4 DEF Linked
  <2>7. FoundInTurn'
    <3> SUFFICES ASSUME NEW k \in 1 .. Len(stack'), stack'[k].of # "call"
                 PROVE  Behind(stack[k])'
      BY DEF FoundInTurn
    <3>1. PICK g : g = stack'[k]
      OBVIOUS
    <3>2. Behind(g)
      BY <2>3, <2>5, <3>1 DEF FoundInTurn
    <3>3. Behind(g)'
      BY <3>2, SameBehind
    <3> QED BY <3>1, <3>3
  <2>8. KeptOnce'
    BY <1>3, <2>2, <2>3 DEF KeptOnce
  <2>9. ChainOf(stack', resolving')
    BY <2>1, <2>2, <2>3, ChainGrows
  <2>10. Build!IsInjective(resolving')
    <3>1. \A k \in 1 .. Len(resolving) : resolving[k] # a
      BY <2>1, <2>3 DEF Build!Circular, Build!ToSet
    <3>2. /\ Len(resolving) \in Nat /\ Len(resolving') = Len(resolving) + 1
          /\ resolving'[Len(resolving) + 1] = a
          /\ \A k \in 1 .. Len(resolving) : resolving'[k] = resolving[k]
          /\ DOMAIN resolving = 1 .. Len(resolving) /\ DOMAIN resolving' = 1 .. Len(resolving')
      BY <2>1, <2>3
    <3> HIDE DEF ContainerInv
    <3> QED BY <3>1, <3>2 DEF Build!IsInjective, ContainerInv
  <2>11. signal'.kind # "value"
    BY <2>1 DEF Build!Nothing
  <2> QED BY <2>4, <2>6, <2>7, <2>8, <2>9, <2>10, <2>11
<1>4. \/ a \in instances
      \/ signal' = Build!BindingError /\ UNCHANGED <<resolving, stack>>
      \/ a \notin instances /\ signal' # Build!BindingError
  <2>1. \/ a \in instances
        \/ signal' = Build!BindingError /\ UNCHANGED <<resolving, stack>>
        \/ a \notin instances /\ signal' = Build!Nothing
    BY ZenonT(60) DEF Build!Enter
  <2>2. Build!Nothing # Build!BindingError
    BY DEF Build!Nothing, Build!BindingError
  <2> QED BY <2>1, <2>2
<1> QED BY <1>1, <1>2, <1>3, <1>4

(* The top frame has found an argument, or leaves it out.                  *)
LEMMA ContainerAdvances ==
  ASSUME ContainerInv, stack # <<>>, NEW f \in AnyFrame, Build!SetTop(f),
         f.of = Build!Top.of, f.of # "call" => Behind(f), signal' = Build!Nothing,
         UNCHANGED <<Build!tables, instances, resolving, made>>
  PROVE  ContainerInv'
<1> USE DEF ContainerInv
<1>1. /\ stack \in Seq(AnyFrame) /\ Len(stack) \in Nat \ {0} /\ Len(stack') = Len(stack)
      /\ stack' \in Seq(AnyFrame) /\ stack'[Len(stack)] = f
      /\ \A k \in 1 .. Len(stack) : k # Len(stack) => stack'[k] = stack[k]
  BY EmptySeq DEF Build!SetTop, ContainerTypes
<1>2. \A k \in 1 .. Len(stack) : stack'[k].of = stack[k].of
  BY <1>1 DEF Build!Top, Build!Last
<1>3. ContainerTypes'
  BY <1>1 DEF ContainerTypes, Build!tables
<1>4. Linked'
  <2>1. \A k \in 1 .. Len(stack') : k # Len(stack') =>
          stack'[k].left # <<>> /\ Head(stack'[k].left).on = stack'[k + 1].of
    <3> SUFFICES ASSUME NEW k \in 1 .. Len(stack), k # Len(stack)
                 PROVE  stack'[k].left # <<>> /\ Head(stack'[k].left).on = stack'[k + 1].of
      BY <1>1
    <3>1. stack'[k] = stack[k] /\ k + 1 \in 1 .. Len(stack)
      BY <1>1
    <3> QED BY <1>2, <3>1 DEF Linked
  <2> QED BY <1>1, <1>2, <2>1 DEF Linked, Build!Nothing
<1>5. FoundInTurn'
  <2> SUFFICES ASSUME NEW k \in 1 .. Len(stack'), stack'[k].of # "call"
               PROVE  Behind(stack[k])'
    BY DEF FoundInTurn
  <2>1. PICK g : g = stack'[k]
    OBVIOUS
  <2>2. Behind(g)
    BY <1>1, <2>1 DEF FoundInTurn
  <2>3. Behind(g)'
    BY <2>2, SameBehind
  <2> QED BY <2>1, <2>3
<1>6. KeptOnce'
  BY <1>1, <1>2 DEF KeptOnce
<1>7. ChainOf(stack', resolving')
  <2>1. Below(stack') = Below(stack) /\ Below(stack) \in {0, 1}
    BY <1>1, <1>2, EmptySeq DEF Below
  <2>2. \A k \in 1 .. Len(resolving) : k + Below(stack) \in 1 .. Len(stack)
    BY <1>1, <2>1 DEF ChainOf, ContainerTypes
  <2> QED BY <1>1, <1>2, <2>1, <2>2 DEF ChainOf
<1> QED BY <1>3, <1>4, <1>5, <1>6, <1>7 DEF Build!Nothing

(* The top frame is over, with an error, or with what it has built.        *)
LEMMA ContainerPops ==
  ASSUME ContainerInv, stack # <<>>, UNCHANGED Build!tables,
         Build!PopResolving, stack' = Build!Front(stack),
         \/ signal' \in {Build!BindingError, Build!OtherError} /\ UNCHANGED <<instances, made>>
         \/ /\ Build!Top.of # "call" /\ signal' = Build!Value(Build!Top.of, TRUE)
            /\ instances' = Build!Kept(Build!Top.of)
            /\ made' = [made EXCEPT ![Build!Top.of] =
                          IF binding[Build!Top.of].shared THEN @ + 1 ELSE @]
  PROVE  ContainerInv'
<1> USE DEF ContainerInv
<1> DEFINE top == Build!Top.of
           n == Len(stack)
<1>1. /\ stack \in Seq(AnyFrame) /\ n \in Nat \ {0} /\ stack' \in Seq(AnyFrame)
      /\ Len(stack') = n - 1 /\ \A k \in 1 .. n - 1 : stack'[k] = stack[k]
  BY EmptySeq, FrontIs DEF ContainerTypes
<1>2. stack[n] \in AnyFrame /\ top = stack[n].of
  BY <1>1 DEF Build!Top, Build!Last
<1>3. top # "call" => top \in Build!Abstracts /\ top \notin instances
  BY <1>1, <1>2 DEF AnyFrame, KeptOnce
<1>4. \A k \in 1 .. n - 1 : stack[k].of # top
  <2> SUFFICES ASSUME NEW k \in 1 .. n - 1, stack[k].of = top
               PROVE  FALSE
    OBVIOUS
  <2>1. n # 1 /\ n \in 1 .. n
    BY <1>1
  <2>2. top # "call"
    BY <1>2, <2>1 DEF Linked
  <2>3. stack[k].of # "call" /\ Below(stack) \in {0, 1} /\ k - Below(stack) # 0
    BY <1>1, <2>2 DEF Below
  <2>4. /\ Len(resolving) = n - Below(stack) /\ resolving \in Seq(Build!Abstracts)
        /\ \A j \in 1 .. Len(resolving) : resolving[j] = stack[j + Below(stack)].of
    BY DEF ChainOf, ContainerTypes
  <2>5. k - Below(stack) \in DOMAIN resolving /\ n - Below(stack) \in DOMAIN resolving
    BY <1>1, <2>3, <2>4
  <2>6. resolving[k - Below(stack)] = stack[k].of /\ resolving[n - Below(stack)] = top
    BY <1>1, <1>2, <2>3, <2>4, <2>5, SMTT(30)
  <2>7. k - Below(stack) = n - Below(stack)
    BY <2>5, <2>6 DEF Build!IsInjective
  <2> QED BY <1>1, <2>3, <2>7
<1>5. \A a : Build!Has(a)' <=> Build!Has(a)
  <2>1. ~Build!Unbound.shared
    BY DEF Build!Unbound
  <2>2. binding[top] = Build!Unbound => instances' = instances
    BY <2>1, Zenon DEF Build!Kept
  <2>3. instances' \in {instances, instances \cup {top}}
    BY DEF Build!Kept
  <2> HIDE DEF top
  <2> QED BY <2>2, <2>3 DEF Build!Has, Build!tables
<1>6. instances' \in {instances, instances \cup {top}}
  BY DEF Build!Kept
<1> HIDE DEF top, n
<1>7. ContainerTypes'
  <2>1. resolving' \in Seq(Build!Abstracts)
    <3>1. top # "call" => resolving # <<>>
      BY <1>1, <1>2, ChainShrinks DEF Linked, n, ContainerTypes
    <3> QED BY <3>1, FrontIs DEF Build!PopResolving, ContainerTypes, top
  <2>2. made' \in [Build!Abstracts -> Nat] /\ instances' \subseteq Build!Abstracts
    <3>1. CASE UNCHANGED <<instances, made>>
      BY <3>1 DEF ContainerTypes
    <3>2. CASE top # "call" /\ made' = [made EXCEPT ![top] = IF binding[top].shared THEN @ + 1 ELSE @]
      BY <1>3, <1>6, <3>2 DEF ContainerTypes
    <3> QED BY <3>1, <3>2 DEF top
  <2>3. \/ signal' \in {Build!Nothing, Build!BindingError, Build!OtherError}
        \/ \E a \in Build!Abstracts, whole \in BOOLEAN : signal' = Build!Value(a, whole)
    BY <1>3 DEF top
  <2> QED BY <1>1, <2>1, <2>2, <2>3 DEF ContainerTypes, Build!tables
<1>8. Linked'
  <2>1. \A k \in 1 .. n - 1 : k # 1 => stack'[k].of # "call"
    BY <1>1 DEF Linked, n
  <2>2. \A k \in 1 .. n - 1 : k # n - 1 =>
          stack'[k].left # <<>> /\ Head(stack'[k].left).on = stack'[k + 1].of
    <3> SUFFICES ASSUME NEW k \in 1 .. n - 1, k # n - 1
                 PROVE  stack'[k].left # <<>> /\ Head(stack'[k].left).on = stack'[k + 1].of
      OBVIOUS
    <3>1. k \in 1 .. n /\ k # n /\ k + 1 \in 1 .. n - 1
      BY <1>1
    <3> QED BY <1>1, <3>1 DEF Linked, n
  <2>3. stack' # <<>> =>
          stack'[n - 1].left # <<>> /\ Head(stack'[n - 1].left).on = top
    <3> SUFFICES ASSUME stack' # <<>>
                 PROVE  stack'[n - 1].left # <<>> /\ Head(stack'[n - 1].left).on = top
      OBVIOUS
    <3>1. n - 1 \in 1 .. n - 1 /\ n - 1 \in 1 .. n /\ n - 1 # n /\ n - 1 + 1 = n
      BY <1>1, EmptySeq, SMTT(30)
    <3>2. stack[n - 1].left # <<>> /\ Head(stack[n - 1].left).on = stack[n - 1 + 1].of
      BY <3>1, Zenon DEF Linked, n
    <3> QED BY <1>1, <1>2, <3>1, <3>2
  <2>4. signal'.kind = "value" => signal'.of = top
    BY DEF Build!Value, Build!BindingError, Build!OtherError, top
  <2> QED BY <1>1, <2>1, <2>2, <2>3, <2>4 DEF Linked, Build!Top, Build!Last, Build!NextParam, n
<1>9. FoundInTurn'
  <2> SUFFICES ASSUME NEW k \in 1 .. Len(stack'), stack'[k].of # "call"
               PROVE  Behind(stack[k])'
    BY DEF FoundInTurn
  <2>1. PICK g : g = stack'[k]
    OBVIOUS
  <2>2. Behind(g)
    BY <1>1, <2>1 DEF FoundInTurn, n
  <2>3. Behind(g)'
    BY <1>5, <2>2, StaysBehind
  <2> QED BY <2>1, <2>3
<1>10. KeptOnce'
  <2>1. \A k \in 1 .. Len(stack') : stack'[k].of \notin instances'
    BY <1>1, <1>4, <1>6 DEF KeptOnce, n
  <2>2. \A a \in Build!Abstracts : made'[a] = 0 \/ (made'[a] = 1 /\ a \in instances')
    <3>1. CASE UNCHANGED <<instances, made>>
      BY <3>1 DEF KeptOnce
    <3>2. CASE top # "call" /\ instances' = Build!Kept(top)
               /\ made' = [made EXCEPT ![top] = IF binding[top].shared THEN @ + 1 ELSE @]
      BY <1>3, <3>2 DEF KeptOnce, Build!Kept, ContainerTypes
    <3> QED BY <3>1, <3>2 DEF top
  <2> QED BY <2>1, <2>2 DEF KeptOnce
<1>11. ChainOf(stack', resolving') /\ Build!IsInjective(resolving')
  <2>1. \/ resolving' = resolving /\ ChainOf(Build!Front(stack), resolving)
        \/ /\ resolving # <<>> /\ resolving' = Build!Front(resolving)
           /\ ChainOf(Build!Front(stack), Build!Front(resolving))
    BY <1>1, <1>2, ChainShrinks DEF Linked, n, ContainerTypes, Build!PopResolving, top
  <2>2. CASE resolving' = resolving
    BY <2>1, <2>2
  <2>3. CASE resolving # <<>> /\ resolving' = Build!Front(resolving)
    <3>1. /\ Len(resolving) \in Nat /\ Len(resolving') = Len(resolving) - 1
          /\ DOMAIN resolving = 1 .. Len(resolving) /\ DOMAIN resolving' = 1 .. Len(resolving')
          /\ \A j \in 1 .. Len(resolving) - 1 : resolving'[j] = resolving[j]
      BY <2>3, FrontIs, SMTT(30) DEF ContainerTypes
    <3> QED BY <2>1, <2>3, <3>1 DEF Build!IsInjective
  <2> QED BY <2>1, <2>2, <2>3
<1>12. signal'.kind = "value" => signal'.whole
  BY DEF Build!Value, Build!BindingError, Build!OtherError
<1> QED BY <1>7, <1>8, <1>9, <1>10, <1>11, <1>12

(* A call() of a job ends at the bottom of the stack.                      *)
LEMMA ContainerClears ==
  ASSUME ContainerInv, stack' = <<>>, resolving' = <<>>, UNCHANGED <<Build!tables, instances, made>>,
         signal' = Build!Nothing
  PROVE  ContainerInv'
<1>1. ContainerTypes'
  BY DEF ContainerInv, ContainerTypes, Build!tables
<1>2. Linked' /\ FoundInTurn' /\ KeptOnce' /\ ChainOf(stack', resolving') /\ Build!IsInjective(resolving')
  BY DEF ContainerInv, Linked, FoundInTurn, KeptOnce, ChainOf, Below, Build!IsInjective, Build!Nothing
<1> QED BY <1>1, <1>2 DEF ContainerInv, Build!Nothing

LEMMA FrameChanged ==
  ASSUME NEW f \in AnyFrame, NEW left, NEW found
  PROVE  /\ [f EXCEPT !.left = left] = [of |-> f.of, left |-> left, given |-> f.given]
         /\ [f EXCEPT !.left = left, !.given = found] =
               [of |-> f.of, left |-> left, given |-> found]
         /\ f.given \in SUBSET Build!Abstracts
<1>1. f.given \in SUBSET Build!Abstracts
  BY DEF AnyFrame
<1>2. [f EXCEPT !.left = left] = [of |-> f.of, left |-> left, given |-> f.given]
  BY DEF AnyFrame
<1> DEFINE g == [of |-> f.of, left |-> left, given |-> f.given]
<1>3. [g EXCEPT !.given = found] = [of |-> f.of, left |-> left, given |-> found]
  OBVIOUS
<1> HIDE DEF g
<1>4. [f EXCEPT !.left = left, !.given = found] = [g EXCEPT !.given = found]
  BY <1>2, Zenon DEF g
<1> QED BY <1>1, <1>2, <1>3, <1>4

(* A parameter that was found, or that may be left out, is behind.         *)
LEMMA MovesOn ==
  ASSUME ContainerInv, stack # <<>>, Build!Top.left # <<>>, NEW found \in SUBSET Build!Abstracts,
         Build!Top.given \subseteq found,
         ~Build!NextParam.optional \/ Build!Has(Build!NextParam.on) => Build!NextParam.on \in found,
         NEW f, f = [of |-> Build!Top.of, left |-> Tail(Build!Top.left), given |-> found]
  PROVE  f \in AnyFrame /\ f.of = Build!Top.of /\ (f.of # "call" => Behind(f))
<1> DEFINE top == Build!Top
           P == Build!ParamsOf(top.of)
<1>1. Len(stack) \in 1 .. Len(stack) /\ top = stack[Len(stack)] /\ top \in AnyFrame
  BY EmptySeq DEF ContainerInv, ContainerTypes, Build!Top, Build!Last
<1>2. top.left \in Seq(Build!Param) /\ top.left # <<>>
  BY <1>1 DEF AnyFrame
<1>3. P \in Seq(Build!Param)
  BY ParamsTyped DEF ContainerInv
<1> HIDE DEF top, P
<1>4. /\ Len(top.left) \in Nat \ {0} /\ Tail(top.left) \in Seq(Build!Param)
      /\ Len(Tail(top.left)) = Len(top.left) - 1 /\ Head(top.left) = top.left[1]
      /\ \A i \in 1 .. Len(top.left) - 1 : Tail(top.left)[i] = top.left[i + 1]
  BY <1>2, EmptySeq
<1>5. f \in AnyFrame /\ f.of = top.of /\ f.left = Tail(top.left) /\ f.given = found
  BY <1>1, <1>4 DEF AnyFrame, top
<1>6. ASSUME top.of # "call"
      PROVE  Behind(f)
  <2>1. PICK n \in 0 .. Len(P) :
          /\ Len(top.left) = Len(P) - n
          /\ \A i \in 1 .. Len(top.left) : top.left[i] = P[i + n]
          /\ \A i \in 1 .. n : LET p == P[i] IN
               ~p.optional \/ Build!Has(p.on) => p.on \in top.given
    BY <1>1, <1>6 DEF ContainerInv, FoundInTurn, Behind, P
  <2>2. P[n + 1] = Build!NextParam
    BY <1>4, <2>1 DEF Build!NextParam, top
  <2>3. n + 1 \in 0 .. Len(P) /\ Len(f.left) = Len(P) - (n + 1)
    <3>1. Len(f.left) = Len(top.left) - 1 /\ Len(P) \in Nat /\ Len(top.left) \in Nat \ {0}
      <4>1. Len(f.left) = Len(top.left) - 1 /\ Len(top.left) \in Nat \ {0}
        BY <1>4, <1>5
      <4>2. Len(P) \in Nat
        BY <1>3
      <4> QED BY <4>1, <4>2
    <3>2. Len(top.left) = Len(P) - n
      BY <2>1
    <3> QED BY <3>1, <3>2
  <2>4. \A i \in 1 .. Len(f.left) : f.left[i] = P[i + (n + 1)]
    <3> TAKE i \in 1 .. Len(f.left)
    <3>1. i + 1 \in 1 .. Len(top.left) /\ f.left[i] = top.left[i + 1] /\ (i + 1) + n = i + (n + 1)
      <4>1. Len(f.left) = Len(top.left) - 1 /\ Len(top.left) \in Nat \ {0}
        BY <1>4, <1>5
      <4>2. i \in 1 .. Len(top.left) - 1
        BY <4>1
      <4>3. f.left[i] = top.left[i + 1]
        BY <1>4, <1>5, <4>2, Zenon
      <4> QED BY <4>1, <4>2, <4>3
    <3> QED BY <2>1, <3>1
  <2>5. \A i \in 1 .. n + 1 : LET p == P[i] IN
          ~p.optional \/ Build!Has(p.on) => p.on \in f.given
    <3> TAKE i \in 1 .. n + 1
    <3>1. CASE i = n + 1
      BY <1>5, <2>2, <3>1
    <3>2. CASE i \in 1 .. n
      BY <1>5, <2>1, <3>2 DEF top
    <3> QED BY <2>1, <3>1, <3>2
  <2> QED BY <1>5, <2>3, <2>4, <2>5 DEF Behind, P
<1> QED BY <1>5, <1>6 DEF top

LEMMA ContainerNext ==
  ASSUME ContainerInv, [Build!Next]_(Build!vars)
  PROVE  ContainerInv'
<1>1. /\ stack \in Seq(AnyFrame) /\ resolving \in Seq(Build!Abstracts)
      /\ stack # <<>> => Build!Top \in AnyFrame
  BY EmptySeq DEF ContainerInv, ContainerTypes, Build!Top, Build!Last
<1>2. ASSUME NEW a \in Build!Abstracts, Build!Bind(a) \/ Build!Instance(a) \/ Build!Make(a)
      PROVE  ContainerInv'
  BY <1>2, ContainerIdles, ContainerEnters DEF Build!Make, Build!Idle
<1>3. CASE Build!Call
  <2>1. PICK a \in AppClasses : stack' = <<Build!Frame("call", hints[a])>>
    BY <1>3 DEF Build!Call
  <2>2. Build!Frame("call", hints[a]) \in AnyFrame /\ Build!Frame("call", hints[a]).of = "call"
    BY <2>1 DEF Build!Frame, AnyFrame, ContainerInv, ContainerTypes
  <2>3. stack' \in Seq(AnyFrame) /\ Len(stack') = 1 /\ stack'[1].of = "call" /\ stack' # <<>>
    BY <2>1, <2>2
  <2>4. /\ resolving = <<>> /\ resolving' = <<>> /\ signal = Build!Nothing
        /\ UNCHANGED <<Build!tables, instances, signal, made>>
    BY <1>1, <1>3, EmptySeq DEF Build!Call, Build!Idle, ContainerInv, ChainOf, Below
  <2>5. ContainerTypes'
    BY <2>3, <2>4 DEF ContainerInv, ContainerTypes, Build!tables
  <2>6. Linked' /\ FoundInTurn' /\ ChainOf(stack', resolving') /\ Build!IsInjective(resolving')
    BY <2>3, <2>4 DEF Linked, FoundInTurn, ChainOf, Below, Build!IsInjective, Build!Nothing
  <2>7. KeptOnce'
    BY <2>3, <2>4, ContainerAssumption DEF ContainerInv, ContainerTypes, KeptOnce, Build!Abstracts
  <2> QED BY <2>4, <2>5, <2>6, <2>7 DEF ContainerInv, Build!Nothing
<1>4. CASE Build!Resolve
  <2>1. CASE Build!Has(Build!NextParam.on) \/ Build!NextParam.on \in AppClasses
    <3>1. Build!NextParam \in Build!Param
      BY <1>1, <1>4 DEF Build!Resolve, AnyFrame, Build!NextParam
    <3>2. Build!NextParam.on \in Build!Abstracts
      BY <3>1 DEF Build!Param
    <3> QED BY <1>4, <2>1, <3>2, ContainerEnters DEF Build!Resolve
  <2>2. CASE /\ ~Build!Has(Build!NextParam.on) /\ Build!NextParam.optional
             /\ Build!SetTop([Build!Top EXCEPT !.left = Tail(@)])
             /\ UNCHANGED <<resolving, signal>>
    <3>1. [Build!Top EXCEPT !.left = Tail(@)] =
             [of |-> Build!Top.of, left |-> Tail(Build!Top.left), given |-> Build!Top.given]
          /\ Build!Top.given \in SUBSET Build!Abstracts
      BY <1>1, <1>4, FrameChanged DEF Build!Resolve
    <3> QED BY <1>4, <2>2, <3>1, MovesOn, ContainerAdvances DEF Build!Resolve
  <2>3. CASE signal' = Build!BindingError /\ UNCHANGED <<resolving, stack>>
    <3>1. ContainerTypes'
      BY <1>4, <2>3 DEF Build!Resolve, ContainerInv, ContainerTypes, Build!tables
    <3>2. Linked' /\ KeptOnce'
      BY <1>4, <2>3 DEF Build!Resolve, ContainerInv, Linked, KeptOnce, Build!BindingError,
         Build!Top, Build!NextParam
    <3>3. FoundInTurn'
      BY <1>4, <2>3, SameBehind DEF Build!Resolve, ContainerInv, FoundInTurn
    <3> QED BY <1>4, <2>3, <3>1, <3>2, <3>3 DEF ContainerInv, Build!BindingError
  <2> QED BY <1>4, <2>1, <2>2, <2>3 DEF Build!Resolve
<1>5. CASE Build!Receive
  <2>1. signal # Build!Nothing /\ signal.of \in Build!Abstracts
    BY <1>5 DEF Build!Receive, Build!Nothing, ContainerInv, ContainerTypes, Build!Value,
       Build!BindingError, Build!OtherError
  <2>2. Build!Top.left # <<>> /\ signal.of = Build!NextParam.on
    BY <1>5, <2>1 DEF Build!Receive, ContainerInv, Linked
  <2> DEFINE found == Build!Top.given \cup {signal.of}
  <2>3. [Build!Top EXCEPT !.left = Tail(@), !.given = @ \cup {signal.of}] =
           [of |-> Build!Top.of, left |-> Tail(Build!Top.left), given |-> found]
        /\ found \in SUBSET Build!Abstracts
    BY <1>1, <1>5, <2>1, FrameChanged DEF Build!Receive
  <2>4. PICK f : f = [of |-> Build!Top.of, left |-> Tail(Build!Top.left), given |-> found]
    OBVIOUS
  <2>5. f \in AnyFrame /\ f.of = Build!Top.of /\ (f.of # "call" => Behind(f))
    BY <1>5, <2>2, <2>3, <2>4, MovesOn DEF Build!Receive
  <2>6. Build!SetTop(f)
    BY <1>5, <2>3, <2>4 DEF Build!Receive
  <2> QED BY <1>5, <2>5, <2>6, ContainerAdvances DEF Build!Receive
<1>6. CASE Build!LeaveOut
  <2>1. signal # Build!Nothing
    BY <1>6 DEF Build!LeaveOut, Build!Nothing
  <2>2. Build!Top.left # <<>>
    BY <1>6, <2>1 DEF Build!LeaveOut, ContainerInv, Linked
  <2>3. [Build!Top EXCEPT !.left = Tail(@)] =
           [of |-> Build!Top.of, left |-> Tail(Build!Top.left), given |-> Build!Top.given]
        /\ Build!Top.given \in SUBSET Build!Abstracts
    BY <1>1, <1>6, FrameChanged DEF Build!LeaveOut
  <2> QED BY <1>6, <2>2, <2>3, MovesOn, ContainerAdvances DEF Build!LeaveOut, Build!Optional
<1>7. CASE Build!Propagate
  <2>1. signal \in {Build!BindingError, Build!OtherError}
    BY <1>7 DEF Build!Propagate, Build!Nothing, ContainerInv, ContainerTypes, Build!Value
  <2> QED BY <1>7, <2>1, ContainerPops DEF Build!Propagate
<1>8. CASE Build!Build
  <2>1. CASE signal' = Build!BindingError /\ UNCHANGED <<instances, made>>
    BY <1>8, <2>1, ContainerPops DEF Build!Build
  <2>2. CASE /\ instances' = Build!Kept(Build!Top.of)
             /\ made' = [made EXCEPT ![Build!Top.of] =
                           IF binding[Build!Top.of].shared THEN @ + 1 ELSE @]
             /\ signal' = Build!Value(Build!Top.of, Build!Whole(Build!Top))
    <3>1. Build!Whole(Build!Top) = TRUE
      <4>1. Len(stack) \in 1 .. Len(stack) /\ Build!Top = stack[Len(stack)]
        BY <1>1, <1>8, EmptySeq DEF Build!Build, Build!Top, Build!Last
      <4>2. Behind(Build!Top) /\ Len(Build!Top.left) = 0
        BY <1>8, <4>1 DEF Build!Build, ContainerInv, FoundInTurn
      <4>3. Build!ParamsOf(Build!Top.of) \in Seq(Build!Param)
        BY ParamsTyped DEF ContainerInv
      <4>4. \A k \in DOMAIN Build!ParamsOf(Build!Top.of) :
              LET p == Build!ParamsOf(Build!Top.of)[k] IN
                ~p.optional \/ Build!Has(p.on) => p.on \in Build!Top.given
        BY <4>2, <4>3 DEF Behind
      <4> QED BY <4>4 DEF Build!Whole
    <3> QED BY <1>8, <2>2, <3>1, ContainerPops DEF Build!Build
  <2> QED BY <1>8, <2>1, <2>2 DEF Build!Build
<1>9. CASE Build!BuildRaises
  BY <1>9, ContainerPops DEF Build!BuildRaises
<1>10. CASE Build!CallEnds
  <2>1. Len(stack) \in Nat \ {0} /\ stack[Len(stack)].of = "call"
    BY <1>1, <1>10, EmptySeq DEF Build!CallEnds, Build!Top, Build!Last
  <2>2. Len(stack) = 1 /\ ChainOf(Build!Front(stack), resolving) /\ Build!Front(stack) = <<>>
    BY <1>1, <1>10, <2>1, ChainShrinks, FrontIs, EmptySeq DEF Build!CallEnds, ContainerInv, Linked
  <2>3. resolving = <<>>
    BY <1>1, <2>2, EmptySeq DEF ChainOf, Below
  <2> QED BY <1>10, <2>3, ContainerClears DEF Build!CallEnds
<1>11. CASE Build!Return
  <2>1. resolving = <<>>
    BY <1>1, <1>11, EmptySeq DEF Build!Return, ContainerInv, ChainOf, Below
  <2> QED BY <1>11, <2>1, ContainerClears DEF Build!Return
<1>12. CASE UNCHANGED Build!vars
  <2>1. ContainerTypes' /\ KeptOnce'
    BY <1>12 DEF ContainerInv, ContainerTypes, KeptOnce, Build!vars, Build!tables
  <2>2. Linked'
    BY <1>12 DEF ContainerInv, Linked, Build!vars, Build!Top, Build!NextParam
  <2>3. FoundInTurn'
    BY <1>12, SameBehind DEF ContainerInv, FoundInTurn, Build!vars
  <2> QED BY <1>12, <2>1, <2>2, <2>3 DEF ContainerInv, Build!vars
<1> QED BY <1>2, <1>3, <1>4, <1>5, <1>6, <1>7, <1>8, <1>9, <1>10, <1>11, <1>12 DEF Build!Next

(***************************************************************************)
(* Loader                                                                  *)
(***************************************************************************)

(* As long as there are no scans, the root on the path is the current one. *)
LoaderInv == Python!LoadsKeepApart

LEMMA LoaderInit ==
  ASSUME Python!Init
  PROVE  LoaderInv
BY DEF Python!Init, LoaderInv, Python!LoadsKeepApart

(* Where load_app() looks, and whose main.py it finds there.               *)
LEMMA LooksAtHome ==
  ASSUME LoaderInv, ~scanned, NEW p \in Projects
  PROVE  /\ Python!Inserted(Python!Dropped(p), p) = <<p>>
         /\ Python!Main(<<p>>) \in {p, Python!Nobody}
<1>1. path = IF current = Python!Nobody THEN <<>> ELSE <<current>>
  BY DEF LoaderInv, Python!LoadsKeepApart
<1>2. ASSUME current \notin {Python!Nobody, p}
      PROVE  Python!RemoveFirst(path, current) = <<>>
  <2>1. path = <<current>> /\ Len(path) = 1 /\ path[1] = current
    BY <1>1, <1>2
  <2>2. Python!SelectInSeq(path, LAMBDA v : v = current) = 1
    <3>1. {i \in 1 .. Len(path) : path[i] = current} = {1}
      BY <2>1
    <3> QED BY <3>1 DEF Python!SelectInSeq, Python!Min
  <2>3. Python!RemoveAt(path, 1) = <<>>
    BY <2>1 DEF Python!RemoveAt
  <2> QED BY <2>1, <2>2, <2>3 DEF Python!RemoveFirst
<1>3. Python!Dropped(p) \in {<<>>, <<p>>}
  BY <1>1, <1>2 DEF Python!Dropped
<1>4. Python!Inserted(Python!Dropped(p), p) = <<p>>
  <2>1. CASE Python!Dropped(p) = <<>>
    BY <2>1 DEF Python!Inserted, Python!ToSet
  <2>2. CASE Python!Dropped(p) = <<p>>
    BY <2>2 DEF Python!Inserted, Python!ToSet
  <2> QED BY <1>3, <2>1, <2>2
<1>5. Python!Main(<<p>>) \in {p, Python!Nobody}
  BY DEF Python!Main, Python!Found
<1> QED BY <1>4, <1>5

LEMMA LoaderNext ==
  ASSUME LoaderInv, [Python!Next]_(Python!vars)
  PROVE  LoaderInv'
<1> SUFFICES ASSUME ~scanned, ~scanned'
             PROVE  LoaderInv'
  BY DEF LoaderInv, Python!LoadsKeepApart, Python!Next, Python!LoadApp, Python!LoadAppRaises,
     Python!Scan, Python!Edit, Python!vars
<1>1. ASSUME NEW p \in Projects, Python!LoadApp(p)
      PROVE  LoaderInv'
  <2>1. /\ path' = <<p>> /\ current' = p /\ answer'.asked = p /\ answer'.of = p
    BY <1>1, LooksAtHome DEF Python!LoadApp, Python!MainRuns
  <2> QED BY <2>1, LoaderAssumption DEF LoaderInv, Python!LoadsKeepApart
<1>2. ASSUME NEW p \in Projects, Python!LoadAppRaises(p)
      PROVE  LoaderInv'
  <2>1. path' = <<p>> /\ current' = p /\ answer'.kind # "app"
    BY <1>2, LooksAtHome DEF Python!LoadAppRaises, Python!Raised
  <2> QED BY <2>1, LoaderAssumption DEF LoaderInv, Python!LoadsKeepApart
<1>3. ASSUME NEW p \in Projects, Python!Edit(p)
      PROVE  LoaderInv'
  BY <1>3 DEF Python!Edit, Python!pythonVars, LoaderInv, Python!LoadsKeepApart
<1>4. CASE UNCHANGED Python!vars
  BY <1>4 DEF Python!vars, Python!pythonVars, LoaderInv, Python!LoadsKeepApart
<1> QED BY <1>1, <1>2, <1>3, <1>4 DEF Python!Next, Python!Scan

LEMMA LoaderSteps ==
  ASSUME view = "projects", [RequestNext]_requestVars
  PROVE  view' = "projects" /\ [Python!Next]_(Python!vars)
BY DEF RequestNext, requestVars, pythonVars, Python!vars, Python!pythonVars

(***************************************************************************)
(* Routing                                                                 *)
(***************************************************************************)

RouteSet == [path : Seq(STRING), method : Routes!Methods, version : AppVersions \cup {Routes!Unset},
             endpoint : Nat \ {0}, mounted : {<<>>}]
MountSet == [path : Seq(STRING), method : {"mount"}, version : {Routes!Unset}, endpoint : {0},
             mounted : Seq(RouteSet)]
Whole == routes["app"]
Part == routes["part"]
Others == {"part"} \cup AppVersions

RoutingTypes ==
  /\ DOMAIN routes = Routes!Routers /\ Whole \in Seq(RouteSet \cup MountSet)
  /\ \A r \in Others : routes[r] \in Seq(RouteSet)
  /\ block = [v \in AppVersions |-> block[v]] /\ \A v \in AppVersions : Routes!Open(v) => block[v] \in Seq(STRING)
  /\ registered \in Nat /\ late \subseteq 1 .. registered /\ frozen \in BOOLEAN /\ served \in Seq(RouteSet \cup MountSet)

(* An endpoint is on one router, and on the whole once its block is over.  *)
Apart(s, t) == \A i \in DOMAIN s, k \in DOMAIN t : s[i].endpoint # t[k].endpoint
RoutesApart ==
  /\ \A i \in DOMAIN Whole : Whole[i].endpoint <= registered
  /\ \A r \in Others : \A i \in DOMAIN routes[r] : routes[r][i].endpoint <= registered
  /\ \A r, q \in Others : r # q => Apart(routes[r], routes[q])
  /\ \A r \in Others \ Routes!Folded : Apart(routes[r], Whole)

(* Who is late, and where those are that are not.                          *)
InTime ==
  /\ \A i \in DOMAIN Whole :
       Whole[i].method # "mount" /\ (frozen => i <= Len(served)) => Whole[i].endpoint \notin late
  /\ ~frozen => \A v \in AppVersions \ Routes!Folded :
                  \A i \in DOMAIN routes[v] : routes[v][i].endpoint \notin late
  /\ \A v \in Routes!Folded : \A i \in DOMAIN routes[v] :
       routes[v][i].endpoint \in late \/ \E k \in DOMAIN Whole : Whole[k] = routes[v][i]
  /\ \A k \in DOMAIN Whole : Whole[k].method = "mount" =>
       \A i \in DOMAIN Whole[k].mounted :
         /\ Whole[k].mounted[i].endpoint \notin late
         /\ \E j \in DOMAIN Part : Part[j] = Whole[k].mounted[i]

(* What is served is what there was first.                                 *)
ServedFirst ==
  IF frozen
  THEN /\ Len(served) <= Len(Whole) /\ \A i \in 1 .. Len(served) : served[i] = Whole[i]
       /\ \A i \in 1 .. Len(Whole) : i > Len(served) =>
            Whole[i].method # "mount" /\ Whole[i].endpoint \in late
  ELSE served = <<>> /\ request = Routes!NoRequest

RoutesInv == RoutingTypes /\ RoutesApart /\ InTime /\ ServedFirst
RoutingInv == RoutesInv /\ Routes!VersionsKeepApart

LEMMA Kinds ==
  /\ \A e \in RouteSet : e.method # "mount" /\ e.endpoint \in Nat \ {0}
  /\ \A e \in MountSet : e.method = "mount" /\ e.endpoint = 0 /\ e.mounted \in Seq(RouteSet)
BY DEF RouteSet, MountSet, Routes!Methods

LEMMA Routers ==
  /\ Routes!Routers = {"app"} \cup Others /\ "app" \notin Others
  /\ "part" \in Others /\ "part" \notin AppVersions /\ Routes!Folded \subseteq AppVersions
BY RoutingAssumption DEF Routes!Routers, Others, Routes!Folded

(* Every route that was in time is on the whole.                           *)
LEMMA DirectAre ==
  ASSUME RoutesInv, NEW e
  PROVE  e \in Routes!Direct <=>
           \E k \in DOMAIN Whole :
             e = Whole[k] /\ Whole[k].method # "mount" /\ Whole[k].endpoint \notin late
<1>1. Routes!ToSet(routes["app"]) = {Whole[k] : k \in DOMAIN Whole}
  BY DEF Routes!ToSet, Whole
<1>2. \A v \in Routes!Folded : Routes!ToSet(routes[v]) = {routes[v][k] : k \in DOMAIN routes[v]}
  BY DEF Routes!ToSet
<1>3. ASSUME NEW v \in Routes!Folded, NEW k \in DOMAIN routes[v], routes[v][k].endpoint \notin late
      PROVE  \E j \in DOMAIN Whole : Whole[j] = routes[v][k]
  BY <1>3 DEF RoutesInv, InTime
<1> QED BY <1>1, <1>2, <1>3 DEF Routes!Direct

(* What the properties say when nothing is asked.                          *)
LEMMA NothingAsked ==
  RoutesInv /\ request = Routes!NoRequest => RoutingInv
<1> SUFFICES ASSUME RoutesInv, request = Routes!NoRequest
             PROVE  RoutingInv
  OBVIOUS
<1>1. ASSUME NEW e \in Routes!Direct
      PROVE  <<e.path, e.method>> \in Routes!Documented
  <2>1. PICK k \in DOMAIN Whole : e = Whole[k] /\ Whole[k].method # "mount"
    BY <1>1, DirectAre
  <2>2. e \in {d \in Routes!ToSet(routes["app"]) : d.method # "mount"}
    BY <2>1 DEF Routes!ToSet, Whole
  <2> QED BY <2>2 DEF Routes!Documented
<1>2. request.status = 0 /\ request.label = Routes!Unmatched
  BY DEF Routes!NoRequest
<1> QED BY <1>1, <1>2 DEF RoutingInv, Routes!VersionsKeepApart, Routes!Labelled

LEMMA OneOf ==
  ASSUME NEW S, NEW x \in S
  PROVE  <<x>> \in Seq(S)
OBVIOUS

LEMMA Appended ==
  ASSUME NEW S, NEW s \in Seq(S), NEW e \in S
  PROVE  /\ \A i \in DOMAIN Append(s, e) : (i \in DOMAIN s /\ Append(s, e)[i] = s[i])
                                        \/ (i = Len(s) + 1 /\ Append(s, e)[i] = e)
         /\ \A i \in DOMAIN s : i \in DOMAIN Append(s, e) /\ Append(s, e)[i] = s[i]
<1>1. DOMAIN s = 1 .. Len(s) /\ DOMAIN Append(s, e) = 1 .. Len(s) + 1 /\ Len(s) \in Nat
  BY AppendProperties
<1> QED BY <1>1, AppendProperties

LEMMA RoutingInit ==
  ASSUME Routes!Init
  PROVE  RoutingInv
<1> USE DEF Routes!Init
<1>1. Whole = <<>> /\ \A r \in Others : routes[r] = <<>>
  BY Routers DEF Whole
<1>2. Routes!Folded = {}
  BY DEF Routes!Folded, Routes!Later, Routes!Over
<1>3. RoutingTypes
  <2>1. Whole \in Seq(RouteSet \cup MountSet) /\ \A r \in Others : routes[r] \in Seq(RouteSet)
    BY <1>1, EmptySeq
  <2>2. DOMAIN routes = Routes!Routers /\ served \in Seq(RouteSet \cup MountSet)
    OBVIOUS
  <2>3. \A v \in AppVersions : block[v] = <<Routes!Later>> /\ ~Routes!Open(v)
    BY DEF Routes!Open
  <2> QED BY <2>1, <2>2, <2>3 DEF RoutingTypes
<1>4. RoutesApart
  BY <1>1 DEF RoutesApart, Apart
<1>5. InTime /\ ServedFirst
  BY <1>1, <1>2, Routers DEF InTime, ServedFirst
<1> QED BY <1>3, <1>4, <1>5, NothingAsked DEF RoutesInv

LEMMA RoutingSteps ==
  ASSUME view = "routes", [RequestNext]_requestVars
  PROVE  view' = "routes" /\ [Routes!Next]_(Routes!vars)
BY DEF RequestNext, requestVars, routeVars, Routes!vars

(* Whatever changes a table forgets the last request.                      *)
LEMMA Forgotten ==
  ASSUME RoutesInv', Routes!Forget
  PROVE  RoutingInv'
<1>1. (request = Routes!NoRequest)'
  BY DEF Routes!Forget, Routes!NoRequest
<1> QED BY <1>1, NothingAsked, PTL

LEMMA Sizes ==
  ASSUME RoutingTypes
  PROVE  /\ Len(Whole) \in Nat /\ DOMAIN Whole = 1 .. Len(Whole)
         /\ \A i \in 1 .. Len(Whole) : Whole[i] \in RouteSet \cup MountSet
         /\ \A r \in Others : /\ Len(routes[r]) \in Nat /\ DOMAIN routes[r] = 1 .. Len(routes[r])
                              /\ \A i \in 1 .. Len(routes[r]) : routes[r][i] \in RouteSet
         /\ Len(served) \in Nat
BY DEF RoutingTypes

LEMMA RouteIs ==
  ASSUME RoutesInv, NEW r \in Routes!Routers, NEW t \in AppTemplates, NEW m \in Routes!Methods
  PROVE  Routes!Route(Routes!PrefixOf(r) \o t, m, Routes!VersionOf(r), registered + 1) \in RouteSet
<1>1. Routes!PrefixOf(r) \in Seq(STRING)
  <2>1. CASE r \in AppVersions
    <3>1. <<r>> \in Seq(STRING) /\ (Routes!Open(r) => block[r] \in Seq(STRING))
      BY <2>1, RoutingAssumption DEF RoutesInv, RoutingTypes
    <3> QED BY <2>1, <3>1 DEF Routes!PrefixOf
  <2>2. CASE r \notin AppVersions
    BY <2>2, EmptySeq DEF Routes!PrefixOf
  <2> QED BY <2>1, <2>2
<1>2. t \in Seq(STRING)
  BY RoutingAssumption
<1>3. Routes!PrefixOf(r) \o t \in Seq(STRING)
  BY <1>1, <1>2, ConcatProperties
<1>4. Routes!VersionOf(r) \in AppVersions \cup {Routes!Unset} /\ registered + 1 \in Nat \ {0}
  BY DEF Routes!VersionOf, RoutesInv, RoutingTypes
<1> QED BY <1>3, <1>4 DEF Routes!Route, RouteSet

LEMMA RoutesRegister ==
  ASSUME RoutesInv, NEW r \in Routes!Routers, NEW t \in AppTemplates, NEW m \in Routes!Methods,
         Routes!Register(r, t, m)
  PROVE  RoutesInv'
<1> USE DEF RoutesInv
<1> DEFINE new == Routes!Route(Routes!PrefixOf(r) \o t, m, Routes!VersionOf(r), registered + 1)
<1>1. new \in RouteSet /\ new.endpoint = registered + 1
  BY RouteIs DEF Routes!Route
<1>2. PICK e : e = new
  OBVIOUS
<1>3. /\ routes' = [routes EXCEPT ![r] = Append(@, e)] /\ registered' = registered + 1
      /\ late' = IF frozen \/ (r \in AppVersions /\ ~Routes!Open(r)) \/ r = "part"
                 THEN late \cup {registered + 1} ELSE late
      /\ UNCHANGED <<block, served, frozen>> /\ Routes!Forget
      /\ r \in AppVersions => block[r] # <<Routes!Later>>
  BY <1>2 DEF Routes!Register
<1> HIDE DEF new
<1>4. /\ registered \in Nat /\ late \subseteq 1 .. registered /\ late \subseteq late'
      /\ \A n \in Nat : n <= registered => (n \in late' <=> n \in late)
  BY <1>3 DEF RoutingTypes
<1>5. e \in RouteSet /\ e.endpoint = registered + 1 /\ e.method # "mount"
  BY <1>1, <1>2, Kinds
<1>6. /\ Whole' = IF r = "app" THEN Append(Whole, e) ELSE Whole
      /\ \A q \in Others : routes'[q] = IF r = q THEN Append(routes[q], e) ELSE routes[q]
      /\ Part' = IF r = "part" THEN Append(Part, e) ELSE Part
      /\ DOMAIN routes' = Routes!Routers
  BY <1>3, Routers DEF Whole, Part, RoutingTypes
<1>7. Routes!Folded' = Routes!Folded
  BY <1>3 DEF Routes!Folded
<1>8. RoutingTypes'
  <2>1. Whole' \in Seq(RouteSet \cup MountSet)
    <3>1. Whole \in Seq(RouteSet \cup MountSet) /\ Append(Whole, e) \in Seq(RouteSet \cup MountSet)
      BY <1>5, AppendProperties DEF RoutingTypes
    <3> QED BY <1>6, <3>1
  <2>5. ASSUME NEW q \in Others
        PROVE  routes'[q] \in Seq(RouteSet)
    <3>1. routes[q] \in Seq(RouteSet) /\ Append(routes[q], e) \in Seq(RouteSet)
      BY <1>5, AppendProperties DEF RoutingTypes
    <3> QED BY <1>6, <3>1
  <2>2. late' \subseteq 1 .. registered'
    BY <1>3, <1>4
  <2>3. block' = [v \in AppVersions |-> block'[v]] /\ \A v \in AppVersions : Routes!Open(v)' => block'[v] \in Seq(STRING)
    BY <1>3 DEF RoutingTypes, Routes!Open
  <2> QED BY <1>3, <1>4, <1>6, <2>1, <2>2, <2>3, <2>5 DEF RoutingTypes
<1>9. /\ \A i \in DOMAIN Whole' : (i \in DOMAIN Whole /\ Whole'[i] = Whole[i])
                                \/ (r = "app" /\ i = Len(Whole) + 1 /\ Whole'[i] = e)
      /\ \A i \in DOMAIN Whole : i \in DOMAIN Whole' /\ Whole'[i] = Whole[i]
      /\ \A q \in Others : \A i \in DOMAIN routes'[q] :
           (i \in DOMAIN routes[q] /\ routes'[q][i] = routes[q][i]) \/ (r = q /\ routes'[q][i] = e)
      /\ \A i \in DOMAIN Part : i \in DOMAIN Part' /\ Part'[i] = Part[i]
  <2>1. CASE r = "app"
    <3>1. e \in RouteSet \cup MountSet /\ Whole \in Seq(RouteSet \cup MountSet)
      BY <1>5 DEF RoutingTypes
    <3>2. Whole' = Append(Whole, e) /\ Part' = Part /\ \A q \in Others : routes'[q] = routes[q]
      BY <1>6, <2>1, Routers DEF Part
    <3> QED BY <2>1, <3>1, <3>2, Appended
  <2>2. CASE r \in Others
    <3>1. e \in RouteSet /\ routes[r] \in Seq(RouteSet)
      BY <1>5, <2>2 DEF RoutingTypes
    <3>2. Whole' = Whole /\ \A q \in Others : routes'[q] = IF r = q THEN Append(routes[r], e) ELSE routes[q]
      BY <1>6, <2>2, Routers
    <3>3. ASSUME NEW q \in Others
          PROVE  /\ \A i \in DOMAIN routes'[q] :
                      (i \in DOMAIN routes[q] /\ routes'[q][i] = routes[q][i]) \/ (r = q /\ routes'[q][i] = e)
                 /\ \A i \in DOMAIN routes[q] : i \in DOMAIN routes'[q] /\ routes'[q][i] = routes[q][i]
      <4>1. CASE r = q
        <5>1. routes'[q] = Append(routes[r], e)
          BY <3>2, <4>1
        <5> QED BY <3>1, <4>1, <5>1, Appended
      <4>2. CASE r # q
        <5>1. routes'[q] = routes[q]
          BY <3>2, <4>2
        <5> QED BY <5>1
      <4> QED BY <4>1, <4>2
    <3> QED BY <2>2, <3>2, <3>3, Routers DEF Part
  <2> QED BY <2>1, <2>2, Routers
<1>10. /\ \A i \in DOMAIN Whole : Whole[i].endpoint \in Nat /\ Whole[i].endpoint <= registered
       /\ \A q \in Others : \A i \in DOMAIN routes[q] :
            routes[q][i].endpoint \in Nat /\ routes[q][i].endpoint <= registered
  BY Sizes, Kinds DEF RoutesApart
<1>11. RoutesApart'
  <2>1. \A i \in DOMAIN Whole' : Whole'[i].endpoint <= registered'
    BY <1>3, <1>4, <1>5, <1>9, <1>10
  <2>2. \A q \in Others : \A i \in DOMAIN routes'[q] : routes'[q][i].endpoint <= registered'
    BY <1>3, <1>4, <1>5, <1>9, <1>10
  <2>3. ASSUME NEW q \in Others, NEW o \in Others, q # o
        PROVE  Apart(routes'[q], routes'[o])
    <3>1. Apart(routes[q], routes[o])
      BY <2>3 DEF RoutesApart
    <3> QED BY <1>4, <1>5, <1>9, <1>10, <2>3, <3>1 DEF Apart
  <2>4. ASSUME NEW q \in Others \ Routes!Folded
        PROVE  Apart(routes'[q], Whole')
    <3>1. Apart(routes[q], Whole) /\ ("app" # q)
      BY Routers DEF RoutesApart
    <3> QED BY <1>4, <1>5, <1>9, <1>10, <3>1 DEF Apart
  <2> QED BY <1>7, <2>1, <2>2, <2>3, <2>4 DEF RoutesApart
<1>12. InTime'
  <2>1. ASSUME NEW i \in DOMAIN Whole', Whole'[i].method # "mount", frozen' => i <= Len(served')
        PROVE  Whole'[i].endpoint \notin late'
    <3>1. CASE i \in DOMAIN Whole /\ Whole'[i] = Whole[i]
      BY <1>3, <1>4, <1>10, <2>1, <3>1 DEF InTime
    <3>2. CASE r = "app" /\ i = Len(Whole) + 1 /\ Whole'[i] = e
      <4>1. ~frozen
        BY <1>3, <2>1, <3>2, Sizes DEF ServedFirst
      <4>2. late' = late
        BY <1>3, <3>2, <4>1, Routers DEF Others
      <4> QED BY <1>4, <1>5, <3>2, <4>2
    <3> QED BY <1>9, <3>1, <3>2
  <2>2. ASSUME ~frozen', NEW v \in AppVersions \ Routes!Folded, NEW i \in DOMAIN routes'[v]
        PROVE  routes'[v][i].endpoint \notin late'
    <3>1. v \in Others
      BY DEF Others
    <3>2. CASE i \in DOMAIN routes[v] /\ routes'[v][i] = routes[v][i]
      BY <1>3, <1>4, <1>10, <2>2, <3>1, <3>2 DEF InTime
    <3>3. CASE r = v /\ routes'[v][i] = e
      <4>1. Routes!Open(v) /\ v # "part"
        BY <1>3, <3>3, Routers DEF Routes!Open, Routes!Folded
      <4>2. late' = late
        BY <1>3, <2>2, <3>3, <4>1
      <4> QED BY <1>4, <1>5, <3>3, <4>2
    <3> QED BY <1>9, <3>1, <3>2, <3>3
  <2>3. ASSUME NEW v \in Routes!Folded, NEW i \in DOMAIN routes'[v]
        PROVE  routes'[v][i].endpoint \in late' \/ \E k \in DOMAIN Whole' : Whole'[k] = routes'[v][i]
    <3>1. v \in Others /\ v \in AppVersions
      BY Routers DEF Others
    <3>2. CASE i \in DOMAIN routes[v] /\ routes'[v][i] = routes[v][i]
      <4>1. routes[v][i].endpoint \in late \/ \E k \in DOMAIN Whole : Whole[k] = routes[v][i]
        BY <3>2 DEF InTime
      <4> QED BY <1>4, <1>9, <3>2, <4>1
    <3>3. CASE r = v /\ routes'[v][i] = e
      <4>1. ~Routes!Open(r)
        BY <3>3 DEF Routes!Open, Routes!Folded
      <4>2. registered + 1 \in late'
        BY <1>3, <3>1, <3>3, <4>1
      <4> QED BY <1>5, <3>3, <4>2
    <3> QED BY <1>9, <3>1, <3>2, <3>3
  <2>4. ASSUME NEW k \in DOMAIN Whole', Whole'[k].method = "mount", NEW i \in DOMAIN Whole'[k].mounted
        PROVE  /\ Whole'[k].mounted[i].endpoint \notin late'
               /\ \E j \in DOMAIN Part' : Part'[j] = Whole'[k].mounted[i]
    <3>1. k \in DOMAIN Whole /\ Whole'[k] = Whole[k]
      BY <1>5, <1>9, <2>4
    <3>2. /\ Whole[k].mounted[i].endpoint \notin late
          /\ \E j \in DOMAIN Part : Part[j] = Whole[k].mounted[i]
      BY <2>4, <3>1 DEF InTime
    <3> QED BY <1>4, <1>9, <1>10, <3>1, <3>2, Routers DEF Part
  <2> QED BY <1>7, <2>1, <2>2, <2>3, <2>4 DEF InTime
<1>13. ServedFirst'
  <2>1. CASE frozen
    <3>1. \A i \in DOMAIN Whole' : i \notin DOMAIN Whole => Whole'[i] = e /\ registered + 1 \in late'
      BY <1>3, <1>9, <2>1
    <3>2. Len(Whole) <= Len(Whole') /\ DOMAIN Whole = 1 .. Len(Whole) /\ DOMAIN Whole' = 1 .. Len(Whole')
          /\ Len(Whole) \in Nat /\ Len(Whole') \in Nat /\ Len(served) \in Nat
      BY <1>5, <1>6, Sizes DEF RoutingTypes
    <3>3. /\ Len(served) <= Len(Whole) /\ \A i \in 1 .. Len(served) : served[i] = Whole[i]
          /\ \A i \in 1 .. Len(Whole) : i > Len(served) =>
               Whole[i].method # "mount" /\ Whole[i].endpoint \in late
      BY <2>1 DEF ServedFirst
    <3>4. \A i \in 1 .. Len(served) : i \in DOMAIN Whole /\ served'[i] = Whole'[i]
      BY <1>3, <1>9, <3>2, <3>3
    <3>5. ASSUME NEW i \in 1 .. Len(Whole'), i > Len(served)
          PROVE  Whole'[i].method # "mount" /\ Whole'[i].endpoint \in late'
      <4>1. CASE i \in DOMAIN Whole
        BY <1>4, <1>9, <3>2, <3>3, <3>5, <4>1
      <4>2. CASE i \notin DOMAIN Whole
        BY <1>5, <3>1, <3>2, <4>2
      <4> QED BY <4>1, <4>2
    <3> QED BY <1>3, <2>1, <3>2, <3>3, <3>4, <3>5 DEF ServedFirst
  <2>2. CASE ~frozen
    BY <1>3, <2>2 DEF ServedFirst, Routes!Forget, Routes!NoRequest
  <2> QED BY <2>1, <2>2
<1> QED BY <1>8, <1>11, <1>12, <1>13

LEMMA RoutesEnter ==
  ASSUME RoutesInv, NEW v \in AppVersions, NEW p \in AppPrefixes \cup {<<v>>}, Routes!Enter(v, p)
  PROVE  RoutesInv'
<1>1. /\ block' = [block EXCEPT ![v] = p] /\ block[v] = <<Routes!Later>>
      /\ UNCHANGED <<routes, registered, late, served, frozen>> /\ request' = Routes!NoRequest
  BY DEF Routes!Enter, Routes!Forget
<1>2. p \in Seq(STRING) /\ p # <<Routes!Over>>
  <2>1. CASE p \in AppPrefixes
    BY <2>1, RoutingAssumption DEF Routes!Over
  <2>2. CASE p = <<v>>
    <3>1. v \in STRING /\ v # "over"
      BY RoutingAssumption
    <3> QED BY <2>2, <3>1 DEF Routes!Over
  <2> QED BY <2>1, <2>2
<1>3. Routes!Folded' = Routes!Folded
  <2>1. <<Routes!Later>> # <<Routes!Over>>
    BY DEF Routes!Later, Routes!Over
  <2>2. \A u \in AppVersions : block'[u] = IF u = v THEN p ELSE block[u]
    BY <1>1 DEF RoutesInv, RoutingTypes
  <2> QED BY <1>1, <1>2, <2>1, <2>2 DEF Routes!Folded
<1>4. RoutingTypes'
  <2>1. /\ block' = [u \in AppVersions |-> block'[u]]
        /\ \A u \in AppVersions : Routes!Open(u)' => block'[u] \in Seq(STRING)
    BY <1>1, <1>2 DEF RoutesInv, RoutingTypes, Routes!Open
  <2> QED BY <1>1, <2>1 DEF RoutesInv, RoutingTypes, Whole
<1>5. RoutesApart'
  BY <1>1, <1>3 DEF RoutesInv, RoutesApart, Whole
<1>6. InTime'
  BY <1>1, <1>3 DEF RoutesInv, InTime, Whole, Part
<1>7. ServedFirst'
  BY <1>1 DEF RoutesInv, ServedFirst, Whole, Routes!NoRequest
<1> QED BY <1>4, <1>5, <1>6, <1>7 DEF RoutesInv

LEMMA RoutesBuild ==
  ASSUME RoutesInv, Routes!Build
  PROVE  RoutesInv' /\ (request = Routes!NoRequest)'
<1>1. /\ ~frozen /\ frozen' = TRUE /\ served' = Whole
      /\ UNCHANGED <<routes, block, registered, late, request>>
  BY DEF Routes!Build, Whole
<1>2. Routes!Folded' = Routes!Folded /\ Whole' = Whole /\ Part' = Part
  BY <1>1 DEF Routes!Folded, Whole, Part
<1>3. RoutingTypes' /\ RoutesApart'
  <2>1. \A u \in AppVersions : Routes!Open(u)' = Routes!Open(u)
    BY <1>1 DEF Routes!Open
  <2> QED BY <1>1, <1>2, <2>1 DEF RoutesInv, RoutingTypes, RoutesApart
<1>4. \A i \in DOMAIN Whole : Whole[i].method # "mount" => Whole[i].endpoint \notin late
  BY <1>1 DEF RoutesInv, InTime
<1>5. InTime'
  BY <1>1, <1>2, <1>4 DEF RoutesInv, InTime
<1>6. ServedFirst'
  <2>1. Len(Whole) \in Nat
    BY Sizes DEF RoutesInv
  <2> QED BY <1>1, <1>2, <2>1 DEF ServedFirst
<1>7. (request = Routes!NoRequest)'
  BY <1>1 DEF RoutesInv, ServedFirst, Routes!NoRequest
<1> QED BY <1>3, <1>5, <1>6, <1>7 DEF RoutesInv

LEMMA RoutesInclude ==
  ASSUME RoutesInv, NEW p \in AppPrefixes, Routes!Include(p)
  PROVE  RoutesInv'
<1> USE DEF RoutesInv
<1>1. PICK e : e = Routes!Mount(p, Part)
  OBVIOUS
<1>2. /\ routes' = [routes EXCEPT !["app"] = Append(@, e)]
      /\ late' = late \ {d.endpoint : d \in Routes!ToSet(Part)}
      /\ ~frozen /\ \A d \in Routes!ToSet(Whole) : d.method # "mount"
      /\ UNCHANGED <<block, registered, served, frozen>> /\ request' = Routes!NoRequest
  BY <1>1 DEF Routes!Include, Routes!Forget, Whole, Part
<1>3. /\ Whole' = Append(Whole, e) /\ Part' = Part /\ \A q \in Others : routes'[q] = routes[q]
      /\ DOMAIN routes' = Routes!Routers /\ Part \in Seq(RouteSet)
  BY <1>2, Routers DEF Whole, Part, RoutingTypes
<1>4. /\ e \in MountSet /\ e.method = "mount" /\ e.endpoint = 0 /\ e.mounted = Part
      /\ e \in RouteSet \cup MountSet
  <2>1. p \in Seq(STRING)
    BY RoutingAssumption
  <2> QED BY <1>1, <1>3, <2>1 DEF Routes!Mount, MountSet
<1>5. /\ \A i \in DOMAIN Whole' : (i \in DOMAIN Whole /\ Whole'[i] = Whole[i]) \/ Whole'[i] = e
      /\ \A i \in DOMAIN Whole : i \in DOMAIN Whole' /\ Whole'[i] = Whole[i] /\ Whole[i].method # "mount"
  <2>1. Whole \in Seq(RouteSet \cup MountSet)
    BY DEF RoutingTypes
  <2>2. \A i \in DOMAIN Whole : Whole[i] \in Routes!ToSet(Whole)
    BY DEF Routes!ToSet
  <2> QED BY <1>2, <1>3, <1>4, <2>1, <2>2, Appended
<1>6. /\ Routes!Folded' = Routes!Folded /\ late' \subseteq late /\ registered \in Nat
      /\ \A i \in DOMAIN Part : Part[i].endpoint \notin late'
      /\ \A n \in late : (\A i \in DOMAIN Part : Part[i].endpoint # n) => n \in late'
  BY <1>2 DEF Routes!Folded, Routes!ToSet, RoutingTypes
<1>7. RoutingTypes'
  <2>1. Whole' \in Seq(RouteSet \cup MountSet)
    BY <1>3, <1>4, AppendProperties DEF RoutingTypes
  <2>2. /\ block' = [u \in AppVersions |-> block'[u]]
        /\ \A u \in AppVersions : Routes!Open(u)' => block'[u] \in Seq(STRING)
    BY <1>2 DEF RoutingTypes, Routes!Open
  <2> QED BY <1>2, <1>3, <1>6, <2>1, <2>2 DEF RoutingTypes
<1>8. RoutesApart'
  <2>1. \A i \in DOMAIN Whole' : Whole'[i].endpoint <= registered'
    BY <1>2, <1>4, <1>5, <1>6 DEF RoutesApart
  <2>2. ASSUME NEW q \in Others \ Routes!Folded
        PROVE  Apart(routes'[q], Whole')
    <3>1. Apart(routes[q], Whole)
      BY DEF RoutesApart
    <3>2. \A i \in DOMAIN routes[q] : routes[q][i].endpoint # 0
      BY Sizes, Kinds
    <3> QED BY <1>3, <1>4, <1>5, <3>1, <3>2 DEF Apart
  <2> QED BY <1>2, <1>3, <1>6, <2>1, <2>2 DEF RoutesApart
<1>9. InTime'
  <2>1. ASSUME NEW i \in DOMAIN Whole', Whole'[i].method # "mount"
        PROVE  Whole'[i].endpoint \notin late'
    BY <1>2, <1>4, <1>5, <1>6, <2>1 DEF InTime
  <2>2. ASSUME NEW v \in AppVersions \ Routes!Folded, NEW i \in DOMAIN routes'[v]
        PROVE  routes'[v][i].endpoint \notin late'
    BY <1>2, <1>3, <1>6 DEF InTime, Others
  <2>3. ASSUME NEW v \in Routes!Folded, NEW i \in DOMAIN routes'[v]
        PROVE  routes'[v][i].endpoint \in late' \/ \E k \in DOMAIN Whole' : Whole'[k] = routes'[v][i]
    <3>1. v \in Others /\ v # "part" /\ routes'[v] = routes[v]
      BY <1>3, Routers DEF Others
    <3>2. routes[v][i].endpoint \in late \/ \E k \in DOMAIN Whole : Whole[k] = routes[v][i]
      BY <2>3, <3>1 DEF InTime
    <3>3. \A k \in DOMAIN Part : Part[k].endpoint # routes[v][i].endpoint
      BY <2>3, <3>1, Routers DEF RoutesApart, Apart, Part
    <3> QED BY <1>5, <1>6, <3>1, <3>2, <3>3
  <2>4. ASSUME NEW k \in DOMAIN Whole', Whole'[k].method = "mount", NEW i \in DOMAIN Whole'[k].mounted
        PROVE  /\ Whole'[k].mounted[i].endpoint \notin late'
               /\ \E j \in DOMAIN Part' : Part'[j] = Whole'[k].mounted[i]
    BY <1>3, <1>4, <1>5, <1>6, <2>4
  <2> QED BY <1>6, <2>1, <2>2, <2>3, <2>4 DEF InTime
<1>10. ServedFirst'
  BY <1>2 DEF ServedFirst, Routes!NoRequest
<1> QED BY <1>7, <1>8, <1>9, <1>10

LEMMA RoutesExit ==
  ASSUME RoutesInv, NEW v \in AppVersions, Routes!Exit(v)
  PROVE  RoutesInv'
<1> USE DEF RoutesInv
<1>1. PICK s : s = routes[v]
  OBVIOUS
<1>2. /\ Routes!Open(v) /\ block' = [block EXCEPT ![v] = <<Routes!Over>>]
      /\ routes' = [routes EXCEPT !["app"] = @ \o s]
      /\ late' = IF frozen THEN late \cup {d.endpoint : d \in Routes!ToSet(s)} ELSE late
      /\ UNCHANGED <<registered, served, frozen>> /\ request' = Routes!NoRequest
  BY <1>1 DEF Routes!Exit, Routes!Fold, Routes!Forget
<1>3. /\ v \in Others /\ v \notin Routes!Folded /\ v # "app" /\ s \in Seq(RouteSet)
      /\ Whole \in Seq(RouteSet \cup MountSet) /\ s \in Seq(RouteSet \cup MountSet)
  <2>1. v \in Others /\ v # "app"
    BY Routers DEF Others
  <2>2. s \in Seq(RouteSet) /\ Whole \in Seq(RouteSet \cup MountSet)
    BY <1>1, <2>1 DEF RoutingTypes
  <2>3. s \in Seq(RouteSet \cup MountSet)
    BY <2>2
  <2> QED BY <1>2, <2>1, <2>2, <2>3 DEF Routes!Folded, Routes!Open
<1>4. /\ Whole' = Whole \o s /\ Part' = Part /\ \A q \in Others : routes'[q] = routes[q]
      /\ DOMAIN routes' = Routes!Routers
  BY <1>2, Routers DEF Whole, Part, RoutingTypes
<1>5. Routes!Folded' = Routes!Folded \cup {v}
  <2>1. \A u \in AppVersions : block'[u] = IF u = v THEN <<Routes!Over>> ELSE block[u]
    BY <1>2 DEF RoutingTypes
  <2> QED BY <2>1 DEF Routes!Folded
<1>6. /\ Len(Whole) \in Nat /\ Len(s) \in Nat /\ DOMAIN Whole = 1 .. Len(Whole) /\ DOMAIN s = 1 .. Len(s)
      /\ Len(Whole') = Len(Whole) + Len(s) /\ DOMAIN Whole' = 1 .. Len(Whole) + Len(s)
      /\ Whole' \in Seq(RouteSet \cup MountSet)
      /\ \A i \in DOMAIN Whole' : Whole'[i] = IF i <= Len(Whole) THEN Whole[i] ELSE s[i - Len(Whole)]
  BY <1>3, <1>4, ConcatProperties
<1>7. /\ \A i \in DOMAIN Whole' : (i \in DOMAIN Whole /\ Whole'[i] = Whole[i])
                                \/ (i > Len(Whole) /\ \E k \in DOMAIN s : Whole'[i] = s[k])
      /\ \A i \in DOMAIN Whole : i \in DOMAIN Whole' /\ Whole'[i] = Whole[i]
      /\ \A k \in DOMAIN s : \E i \in DOMAIN Whole' : Whole'[i] = s[k]
  <2>1. ASSUME NEW i \in DOMAIN Whole', i > Len(Whole)
        PROVE  i - Len(Whole) \in DOMAIN s /\ Whole'[i] = s[i - Len(Whole)]
    BY <1>6, <2>1
  <2>2. ASSUME NEW i \in DOMAIN Whole
        PROVE  i \in DOMAIN Whole' /\ Whole'[i] = Whole[i]
    BY <1>6
  <2>3. ASSUME NEW k \in DOMAIN s
        PROVE  k + Len(Whole) \in DOMAIN Whole' /\ Whole'[k + Len(Whole)] = s[k]
    BY <1>6
  <2>4. \A i \in DOMAIN Whole' : i \in DOMAIN Whole \/ i > Len(Whole)
    BY <1>6
  <2> QED BY <2>1, <2>2, <2>3, <2>4
<1>8. /\ registered \in Nat /\ late \subseteq late'
      /\ \A n \in late' : n \in late \/ (frozen /\ \E k \in DOMAIN s : s[k].endpoint = n)
      /\ frozen => \A k \in DOMAIN s : s[k].endpoint \in late'
      /\ \A k \in DOMAIN s : s[k] \in RouteSet /\ s[k].method # "mount" /\ s[k].endpoint <= registered
                             /\ s[k].endpoint \in Nat \ {0}
  <2>1. \A k \in DOMAIN s : s[k] \in RouteSet
    BY <1>3, <1>6
  <2> QED BY <1>1, <1>2, <1>3, <2>1, Kinds DEF Routes!ToSet, RoutingTypes, RoutesApart
<1>9. RoutingTypes'
  <2>1. late' \subseteq 1 .. registered'
    BY <1>2, <1>8 DEF RoutingTypes
  <2>2. /\ block' = [u \in AppVersions |-> block'[u]]
        /\ \A u \in AppVersions : Routes!Open(u)' => block'[u] \in Seq(STRING)
    BY <1>2 DEF RoutingTypes, Routes!Open
  <2> QED BY <1>2, <1>4, <1>6, <2>1, <2>2 DEF RoutingTypes
<1>10. RoutesApart'
  <2>1. \A i \in DOMAIN Whole' : Whole'[i].endpoint <= registered'
    BY <1>2, <1>7, <1>8 DEF RoutesApart
  <2>2. ASSUME NEW q \in Others \ Routes!Folded'
        PROVE  Apart(routes'[q], Whole')
    <3>1. q # v /\ q \in Others \ Routes!Folded
      BY <1>5
    <3>2. Apart(routes[q], Whole) /\ Apart(routes[q], s)
      BY <1>1, <1>3, <3>1 DEF RoutesApart
    <3> QED BY <1>4, <1>7, <3>2 DEF Apart
  <2> QED BY <1>2, <1>4, <2>1, <2>2 DEF RoutesApart
<1>11. InTime'
  <2>1. ASSUME NEW i \in DOMAIN Whole', Whole'[i].method # "mount", frozen' => i <= Len(served')
        PROVE  Whole'[i].endpoint \notin late'
    <3>1. CASE i \in DOMAIN Whole /\ Whole'[i] = Whole[i]
      <4>1. Whole[i].endpoint \notin late
        BY <1>2, <2>1, <3>1 DEF InTime
      <4>2. \A k \in DOMAIN s : s[k].endpoint # Whole[i].endpoint
        BY <1>1, <1>3, <3>1 DEF RoutesApart, Apart
      <4> QED BY <1>8, <3>1, <4>1, <4>2
    <3>2. ASSUME i > Len(Whole), NEW k \in DOMAIN s, Whole'[i] = s[k]
          PROVE  Whole'[i].endpoint \notin late'
      <4>1. ~frozen
        BY <1>2, <1>6, <2>1, <3>2, Sizes DEF ServedFirst
      <4>2. s[k].endpoint \notin late
        BY <1>1, <1>3, <4>1 DEF InTime
      <4> QED BY <1>2, <3>2, <4>1, <4>2
    <3> QED BY <1>7, <3>1, <3>2
  <2>2. ASSUME ~frozen', NEW u \in AppVersions \ Routes!Folded', NEW i \in DOMAIN routes'[u]
        PROVE  routes'[u][i].endpoint \notin late'
    <3>1. u \in AppVersions \ Routes!Folded /\ routes'[u] = routes[u] /\ ~frozen /\ late' = late
      BY <1>2, <1>4, <1>5, <2>2 DEF Others
    <3> QED BY <2>2, <3>1 DEF InTime
  <2>3. ASSUME NEW u \in Routes!Folded', NEW i \in DOMAIN routes'[u]
        PROVE  routes'[u][i].endpoint \in late' \/ \E k \in DOMAIN Whole' : Whole'[k] = routes'[u][i]
    <3>1. u \in Others /\ routes'[u] = routes[u]
      BY <1>3, <1>4, <1>5, Routers DEF Others
    <3>2. CASE u = v
      BY <1>1, <1>7, <2>3, <3>1, <3>2
    <3>3. CASE u \in Routes!Folded
      <4>1. routes[u][i].endpoint \in late \/ \E k \in DOMAIN Whole : Whole[k] = routes[u][i]
        BY <2>3, <3>1, <3>3 DEF InTime
      <4> QED BY <1>7, <1>8, <3>1, <4>1
    <3>4. u = v \/ u \in Routes!Folded
      BY <1>5, <2>3
    <3> QED BY <3>2, <3>3, <3>4
  <2>4. ASSUME NEW k \in DOMAIN Whole', Whole'[k].method = "mount", NEW i \in DOMAIN Whole'[k].mounted
        PROVE  /\ Whole'[k].mounted[i].endpoint \notin late'
               /\ \E j \in DOMAIN Part' : Part'[j] = Whole'[k].mounted[i]
    <3>1. k \in DOMAIN Whole /\ Whole'[k] = Whole[k]
      BY <1>7, <1>8, <2>4
    <3>2. /\ Whole[k].mounted[i].endpoint \notin late
          /\ \E j \in DOMAIN Part : Part[j] = Whole[k].mounted[i]
      BY <2>4, <3>1 DEF InTime
    <3>3. \A j \in DOMAIN Part, n \in DOMAIN s : s[n].endpoint # Part[j].endpoint
      BY <1>1, <1>3, Routers DEF RoutesApart, Apart, Part
    <3>4. PICK j \in DOMAIN Part : Part[j] = Whole[k].mounted[i]
      BY <3>2
    <3>5. Part[j].endpoint \notin late'
      BY <1>8, <3>2, <3>3, <3>4
    <3> QED BY <1>4, <3>1, <3>4, <3>5
  <2> QED BY <2>1, <2>2, <2>3, <2>4 DEF InTime
<1>12. ServedFirst'
  <2>1. CASE frozen
    <3>1. /\ Len(served) <= Len(Whole) /\ \A i \in 1 .. Len(served) : served[i] = Whole[i]
          /\ \A i \in 1 .. Len(Whole) : i > Len(served) =>
               Whole[i].method # "mount" /\ Whole[i].endpoint \in late
      BY <2>1 DEF ServedFirst
    <3>2. Len(served') <= Len(Whole') /\ \A i \in 1 .. Len(served) : i \in DOMAIN Whole /\ served'[i] = Whole'[i]
      BY <1>2, <1>6, <1>7, <3>1, Sizes
    <3>3. ASSUME NEW i \in DOMAIN Whole', i > Len(served)
          PROVE  Whole'[i].method # "mount" /\ Whole'[i].endpoint \in late'
      BY <1>6, <1>7, <1>8, <2>1, <3>1, <3>3
    <3> QED BY <1>2, <1>6, <2>1, <3>2, <3>3 DEF ServedFirst
  <2>2. CASE ~frozen
    BY <1>2, <2>2 DEF ServedFirst, Routes!NoRequest
  <2> QED BY <2>1, <2>2
<1> QED BY <1>9, <1>10, <1>11, <1>12

(***************************************************************************)
(* What answers a request                                                  *)
(***************************************************************************)

LEMMA EarliestIs ==
  ASSUME NEW T \in SUBSET Nat, T # {}
  PROVE  Routes!Earliest(T) \in T /\ \A k \in T : Routes!Earliest(T) <= k
<1>1. \E i \in T : \A k \in T : i <= k
  BY Least
<1> QED BY <1>1 DEF Routes!Earliest

(* A route of the list that has the path, and the method if there is one,  *)
(* or none has.                                                            *)
LEMMA AmongIs ==
  ASSUME NEW list \in Seq(RouteSet \cup MountSet), NEW url, NEW method
  PROVE  LET found == Routes!Among(list, url, method)
             Is(i, e) == e = list[i] /\ e.method # "mount" /\ Routes!Fits(e.path, url)
         IN  \/ /\ found.status = 200
                /\ \E i \in DOMAIN list : Is(i, found.route) /\ found.route.method = method
             \/ /\ found.status = 405
                /\ \E i \in DOMAIN list : Is(i, found.route)
                /\ \A i \in DOMAIN list : ~(Is(i, list[i]) /\ list[i].method = method)
             \/ /\ found.status = 404 /\ found.route.endpoint = 0
                /\ \A i \in DOMAIN list : ~Is(i, list[i])
<1> DEFINE fit  == {i \in DOMAIN list : /\ list[i].method # "mount"
                                        /\ Routes!Fits(list[i].path, url)}
           full == {i \in fit : list[i].method = method}
<1>1. DOMAIN list \subseteq Nat
  OBVIOUS
<1>2. CASE full # {}
  <2>1. PICK i : i = Routes!Earliest(full)
    OBVIOUS
  <2>2. i \in full
    BY <1>1, <1>2, <2>1, EarliestIs
  <2>3. Routes!Among(list, url, method) = [status |-> 200, route |-> list[i]]
    BY <1>2, <2>1 DEF Routes!Among
  <2> QED BY <2>2, <2>3
<1>3. CASE full = {} /\ fit # {}
  <2>1. PICK i : i = Routes!Earliest(fit)
    OBVIOUS
  <2>2. i \in fit
    BY <1>1, <1>3, <2>1, EarliestIs
  <2>3. Routes!Among(list, url, method) = [status |-> 405, route |-> list[i]]
    BY <1>3, <2>1 DEF Routes!Among
  <2> QED BY <1>3, <2>2, <2>3
<1>4. CASE full = {} /\ fit = {}
  <2>1. Routes!Among(list, url, method) = [status |-> 404, route |-> Routes!Mount(<<>>, <<>>)]
    BY <1>4 DEF Routes!Among
  <2>2. Routes!Mount(<<>>, <<>>).endpoint = 0
    BY DEF Routes!Mount
  <2> QED BY <1>4, <2>1, <2>2
<1> QED BY <1>2, <1>3, <1>4

(* The path that is left under a prefix.                                   *)
LEMMA UnderIs ==
  ASSUME NEW S, NEW prefix \in Seq(S), NEW url \in Seq(S), Routes!Under(prefix, url),
         NEW t \in Seq(S), Routes!Fits(t, SubSeq(url, Len(prefix) + 1, Len(url)))
  PROVE  Routes!Fits(prefix \o t, url)
<1> DEFINE n == Len(prefix)
           rest == SubSeq(url, n + 1, Len(url))
<1>1. n \in Nat /\ Len(url) \in Nat /\ Len(t) \in Nat /\ n <= Len(url)
  BY DEF Routes!Under, Routes!IsStrictPrefix, Routes!IsPrefix
<1>2. \A i \in 1 .. n : prefix[i] = url[i]
  <2>1. SubSeq(prefix, 1, n) = SubSeq(url, 1, n)
    BY DEF Routes!Under, Routes!IsStrictPrefix, Routes!IsPrefix
  <2>2. /\ \A i \in 1 .. n : prefix[i] \in S
        /\ \A i \in 1 .. n : url[i] \in S
    BY <1>1
  <2>3. ASSUME NEW i \in 1 .. n
        PROVE  SubSeq(prefix, 1, n)[i] = prefix[1 + i - 1] /\ SubSeq(url, 1, n)[i] = url[1 + i - 1]
    BY <1>1, <2>2, SubSeqProperties
  <2>4. \A i \in 1 .. n : 1 + i - 1 = i
    BY <1>1
  <2> QED BY <2>1, <2>3, <2>4
<1>3. /\ Len(rest) = Len(url) - n /\ DOMAIN rest = 1 .. Len(url) - n
      /\ \A i \in 1 .. Len(url) - n : rest[i] = url[n + i]
  <2>1. \A i \in n + 1 .. Len(url) : url[i] \in S
    BY <1>1
  <2>2. /\ rest \in Seq(S) /\ Len(rest) = IF n + 1 <= Len(url) THEN Len(url) - (n + 1) + 1 ELSE 0
        /\ \A i \in 1 .. Len(url) - (n + 1) + 1 : rest[i] = url[n + 1 + i - 1]
    BY <1>1, <2>1, SubSeqProperties
  <2> QED BY <1>1, <2>2
<1>4. /\ Len(t) = Len(url) - n
      /\ \A i \in 1 .. Len(url) - n :
           t[i] = url[n + i] \/ (t[i] = Routes!Id /\ url[n + i] \in AppNumbers)
  BY <1>3 DEF Routes!Fits
<1> HIDE DEF n, rest
<1>5. /\ Len(prefix \o t) = Len(url)
      /\ \A i \in 1 .. Len(url) : (prefix \o t)[i] = IF i <= n THEN prefix[i] ELSE t[i - n]
  BY <1>1, <1>4, ConcatProperties DEF n
<1>6. ASSUME NEW i \in DOMAIN url
      PROVE  \/ (prefix \o t)[i] = url[i]
             \/ (prefix \o t)[i] = Routes!Id /\ url[i] \in AppNumbers
  <2>1. i \in 1 .. Len(url)
    OBVIOUS
  <2>2. CASE i <= n
    BY <1>1, <1>2, <1>5, <2>1, <2>2
  <2>3. CASE i > n
    <3>1. i - n \in 1 .. Len(url) - n /\ n + (i - n) = i /\ ~(i <= n)
      <4>1. n \in Nat /\ Len(url) \in Nat
        BY <1>1 DEF n
      <4>2. ASSUME NEW x \in Nat, NEW l \in Nat, NEW j \in 1 .. l, j > x
            PROVE  j - x \in 1 .. l - x /\ x + (j - x) = j /\ ~(j <= x)
        BY <4>2
      <4> QED BY <2>1, <2>3, <4>1, <4>2
    <3>2. t[i - n] = url[i] \/ (t[i - n] = Routes!Id /\ url[i] \in AppNumbers)
      BY <1>4, <3>1
    <3>3. (prefix \o t)[i] = t[i - n]
      BY <1>5, <2>1, <3>1
    <3> QED BY <3>2, <3>3
  <2>4. i <= n \/ i > n
    BY <1>1, <2>1
  <2> QED BY <2>2, <2>3, <2>4
<1> QED BY <1>5, <1>6 DEF Routes!Fits

LEMMA ServedIs ==
  ASSUME RoutesInv, frozen
  PROVE  /\ served \in Seq(RouteSet \cup MountSet) /\ DOMAIN served = 1 .. Len(served) /\ Len(served) \in Nat
         /\ Len(Whole) \in Nat /\ Len(served) <= Len(Whole) /\ DOMAIN Whole = 1 .. Len(Whole)
         /\ \A i \in 1 .. Len(served) : i \in DOMAIN Whole /\ served[i] = Whole[i]
         /\ \A i \in 1 .. Len(Whole) : i > Len(served) => Whole[i].method # "mount" /\ Whole[i].endpoint \in late
BY Sizes DEF RoutesInv, RoutingTypes, ServedFirst

(* What a route on the whole makes of a request, and one that is mounted.  *)
LEMMA AnswerIs ==
  ASSUME RoutesInv, frozen, NEW url \in Seq(STRING), NEW method
  PROVE  LET found == Routes!Answer(served, url, method)
             Hit(i)  == Whole[i].method # "mount" /\ Routes!Fits(Whole[i].path, url)
             Mounted == \E k \in DOMAIN Whole : Whole[k].method = "mount" /\ Routes!Under(Whole[k].path, url)
         IN  /\ \/ /\ found.status = 200 /\ found.route.method = method
                   /\ \/ \E i \in 1 .. Len(served) : Hit(i) /\ found.route = Whole[i]
                      \/ \E k \in 1 .. Len(served) :
                           /\ Whole[k].method = "mount"
                           /\ \E i \in DOMAIN Whole[k].mounted :
                                /\ found.route = Whole[k].mounted[i]
                                /\ Routes!Fits(Whole[k].path \o found.route.path, url)
                \/ /\ found.status = 405
                   /\ \/ /\ ~Mounted /\ \E i \in 1 .. Len(served) : Hit(i) /\ found.route = Whole[i]
                         /\ \A i \in 1 .. Len(served) : ~(Hit(i) /\ Whole[i].method = method)
                      \/ Mounted /\ \E k \in 1 .. Len(served) :
                           /\ Whole[k].method = "mount"
                           /\ \E i \in DOMAIN Whole[k].mounted : found.route = Whole[k].mounted[i]
                \/ /\ found.status = 404 /\ found.route.endpoint = 0
                   /\ ~Mounted => \A i \in 1 .. Len(served) : ~Hit(i)
             /\ found.status = 200 /\ ~Mounted =>
                  \E i \in 1 .. Len(served) : Hit(i) /\ found.route = Whole[i]
<1> USE DEF RoutesInv
<1> DEFINE found == Routes!Answer(served, url, method)
           takes == {i \in DOMAIN served : served[i].method = "mount" /\ Routes!Under(served[i].path, url)}
           Hit(i)  == Whole[i].method # "mount" /\ Routes!Fits(Whole[i].path, url)
           Mounted == \E k \in DOMAIN Whole : Whole[k].method = "mount" /\ Routes!Under(Whole[k].path, url)
<1>1. /\ served \in Seq(RouteSet \cup MountSet) /\ DOMAIN served = 1 .. Len(served) /\ Len(served) \in Nat
      /\ Len(Whole) \in Nat /\ Len(served) <= Len(Whole) /\ DOMAIN Whole = 1 .. Len(Whole)
      /\ \A i \in 1 .. Len(served) : i \in DOMAIN Whole /\ served[i] = Whole[i]
      /\ \A i \in 1 .. Len(Whole) : i > Len(served) => Whole[i].method # "mount"
  BY ServedIs
<1>2. Mounted <=> takes # {}
  <2>1. ASSUME NEW k \in DOMAIN Whole, Whole[k].method = "mount"
        PROVE  k \in DOMAIN served
    BY <1>1, <2>1
  <2> QED BY <1>1, <2>1
<1>3. CASE takes = {}
  <2>1. found = Routes!Among(served, url, method)
    BY <1>3 DEF Routes!Answer
  <2>2. ~Mounted
    BY <1>2, <1>3
  <2> HIDE DEF takes, Mounted, found
  <2>3. \/ /\ found.status = 200
           /\ \E i \in 1 .. Len(served) : Hit(i) /\ found.route = Whole[i] /\ found.route.method = method
        \/ /\ found.status = 405
           /\ \E i \in 1 .. Len(served) : Hit(i) /\ found.route = Whole[i]
           /\ \A i \in 1 .. Len(served) : ~(Hit(i) /\ Whole[i].method = method)
        \/ /\ found.status = 404 /\ found.route.endpoint = 0
           /\ \A i \in 1 .. Len(served) : ~Hit(i)
    BY <1>1, <2>1, AmongIs, SMTT(60)
  <2> QED BY <2>2, <2>3 DEF found, Mounted
<1>4. CASE takes # {}
  <2>1. PICK k : k = Routes!Earliest(takes)
    OBVIOUS
  <2>2. k \in takes
    <3>1. PICK T : T = takes
      OBVIOUS
    <3>2. T \in SUBSET Nat /\ T # {} /\ k = Routes!Earliest(T)
      BY <1>1, <1>4, <2>1, <3>1
    <3> HIDE DEF takes
    <3> QED BY <3>1, <3>2, EarliestIs
  <2>3. k \in 1 .. Len(served) /\ k \in DOMAIN Whole /\ Whole[k].method = "mount" /\ Routes!Under(Whole[k].path, url)
        /\ served[k] = Whole[k]
    BY <1>1, <2>2
  <2>4. Whole[k] \in MountSet /\ Whole[k].path \in Seq(STRING) /\ Whole[k].mounted \in Seq(RouteSet)
    <3>1. Whole[k] \in RouteSet \cup MountSet
      BY <1>1, <2>3, Sizes
    <3> QED BY <2>3, <3>1, Kinds DEF MountSet
  <2>5. PICK before : before = Routes!Among(SubSeq(served, 1, k - 1), url, method)
    OBVIOUS
  <2>6. PICK rest : rest = SubSeq(url, Len(Whole[k].path) + 1, Len(url))
    OBVIOUS
  <2>7. PICK inner : inner = Routes!Among(Whole[k].mounted, rest, method)
    OBVIOUS
  <2>8. found = IF before.status = 200 THEN before ELSE inner
    BY <1>4, <2>1, <2>3, <2>5, <2>6, <2>7 DEF Routes!Answer
  <2>9. Mounted
    BY <2>3
  <2> HIDE DEF takes, Mounted, found
  <2>10. CASE before.status = 200
    <3>1. /\ SubSeq(served, 1, k - 1) \in Seq(RouteSet \cup MountSet)
          /\ DOMAIN SubSeq(served, 1, k - 1) = 1 .. k - 1
          /\ \A i \in 1 .. k - 1 : i \in 1 .. Len(served) /\ SubSeq(served, 1, k - 1)[i] = served[i]
      <4>1. k - 1 \in Int /\ \A i \in 1 .. k - 1 : i \in 1 .. Len(served) /\ served[i] \in RouteSet \cup MountSet
        BY <1>1, <2>3
      <4>2. /\ SubSeq(served, 1, k - 1) \in Seq(RouteSet \cup MountSet)
            /\ Len(SubSeq(served, 1, k - 1)) = IF 1 <= k - 1 THEN k - 1 - 1 + 1 ELSE 0
            /\ \A i \in 1 .. k - 1 - 1 + 1 : SubSeq(served, 1, k - 1)[i] = served[1 + i - 1]
        BY <4>1, SubSeqProperties
      <4>3. k \in Nat \ {0}
        BY <1>1, <2>3
      <4>4. (IF 1 <= k - 1 THEN k - 1 - 1 + 1 ELSE 0) = k - 1 /\ 1 .. k - 1 - 1 + 1 = 1 .. k - 1
            /\ \A i \in 1 .. k - 1 : 1 + i - 1 = i
        BY <4>3
      <4> QED BY <4>1, <4>2, <4>4
    <3>2. \E i \in 1 .. Len(served) : Hit(i) /\ before.route = Whole[i] /\ before.route.method = method
      <4>1. PICK list : list = SubSeq(served, 1, k - 1)
        OBVIOUS
      <4>2. list \in Seq(RouteSet \cup MountSet) /\ before = Routes!Among(list, url, method)
        BY <2>5, <3>1, <4>1
      <4>3. PICK i \in DOMAIN list : /\ before.route = list[i] /\ before.route.method # "mount"
                                    /\ Routes!Fits(before.route.path, url) /\ before.route.method = method
        BY <2>10, <4>2, AmongIs
      <4>4. i \in 1 .. Len(served) /\ list[i] = Whole[i]
        BY <1>1, <3>1, <4>1
      <4> QED BY <4>3, <4>4
    <3> QED BY <2>8, <2>9, <2>10, <3>2 DEF found, Mounted
  <2>11. CASE before.status # 200
    <3>1. Whole[k].mounted \in Seq(RouteSet \cup MountSet)
      BY <2>4
    <3>2. \/ /\ inner.status = 200
             /\ \E i \in DOMAIN Whole[k].mounted : /\ inner.route = Whole[k].mounted[i] /\ inner.route.method = method
                                                   /\ Routes!Fits(inner.route.path, rest)
          \/ /\ inner.status = 405
             /\ \E i \in DOMAIN Whole[k].mounted : inner.route = Whole[k].mounted[i]
          \/ inner.status = 404 /\ inner.route.endpoint = 0
      BY <2>7, <3>1, AmongIs
    <3>3. ASSUME NEW i \in DOMAIN Whole[k].mounted, inner.route = Whole[k].mounted[i],
                 Routes!Fits(inner.route.path, rest)
          PROVE  Routes!Fits(Whole[k].path \o inner.route.path, url)
      <4>1. inner.route.path \in Seq(STRING)
        <5>1. inner.route \in RouteSet
          BY <2>4, <3>3
        <5> QED BY <5>1 DEF RouteSet
      <4>2. PICK prefix, t : prefix = Whole[k].path /\ t = inner.route.path
        OBVIOUS
      <4>3. /\ prefix \in Seq(STRING) /\ t \in Seq(STRING) /\ Routes!Under(prefix, url)
            /\ Routes!Fits(t, SubSeq(url, Len(prefix) + 1, Len(url)))
        BY <2>3, <2>4, <2>6, <3>3, <4>1, <4>2
      <4>4. Routes!Fits(prefix \o t, url)
        BY <4>3, UnderIs
      <4> QED BY <4>2, <4>4
    <3> QED BY <2>3, <2>8, <2>9, <2>11, <3>2, <3>3 DEF found, Mounted
  <2> QED BY <2>10, <2>11
<1> QED BY <1>3, <1>4

(* A route under the prefix of its mount.                                  *)
LEMMA IncludedHas ==
  ASSUME NEW m \in Routes!Mounts, NEW d \in {c \in Routes!ToSet(routes["part"]) : c.endpoint \notin late}
  PROVE  Routes!Prefixed(m.path, d) \in Routes!Included
BY DEF Routes!Included

LEMMA RoutesCall ==
  ASSUME RoutingInv, NEW url \in AppPaths, NEW method \in Routes!Methods, Routes!Call(url, method)
  PROVE  RoutingInv'
<1> USE DEF RoutingInv, RoutesInv
<1>1. PICK found : found = Routes!Answer(served, url, method)
  OBVIOUS
<1>2. /\ frozen /\ UNCHANGED <<routes, block, registered, late, served, frozen>>
      /\ request' = [path |-> url, method |-> method, status |-> found.status,
                     endpoint |-> IF found.status = 200 THEN found.route.endpoint ELSE 0,
                     label |-> Routes!Label(found.route)]
      /\ apiVersion' = IF found.status = 200 THEN found.route.version ELSE Routes!Unset
  BY <1>1 DEF Routes!Call, Routes!SetVersion
<1>3. /\ Whole' = Whole /\ Part' = Part /\ Routes!Folded' = Routes!Folded /\ Routes!Mounts' = Routes!Mounts
      /\ Routes!Direct' = Routes!Direct /\ Routes!Included' = Routes!Included
      /\ Routes!Documented' = Routes!Documented
  BY <1>2 DEF Whole, Part, Routes!Folded, Routes!Mounts, Routes!Direct, Routes!Included, Routes!Documented
<1>4. RoutingTypes' /\ RoutesApart' /\ InTime' /\ ServedFirst'
  <2>1. \A u \in AppVersions : Routes!Open(u)' = Routes!Open(u)
    BY <1>2 DEF Routes!Open
  <2>2. RoutingTypes'
    BY <1>2, <1>3, <2>1 DEF RoutingTypes
  <2>3. RoutesApart'
    BY <1>2, <1>3 DEF RoutesApart
  <2>4. InTime'
    BY <1>2, <1>3 DEF InTime
  <2>5. ServedFirst'
    BY <1>2, <1>3 DEF ServedFirst
  <2> QED BY <2>2, <2>3, <2>4, <2>5
<1> DEFINE Hit(i)  == Whole[i].method # "mount" /\ Routes!Fits(Whole[i].path, url)
           Mounted == \E k \in DOMAIN Whole : Whole[k].method = "mount" /\ Routes!Under(Whole[k].path, url)
<1>5. /\ \/ /\ found.status = 200 /\ found.route.method = method
            /\ \/ \E i \in 1 .. Len(served) : Hit(i) /\ found.route = Whole[i]
               \/ \E k \in 1 .. Len(served) :
                    /\ Whole[k].method = "mount"
                    /\ \E i \in DOMAIN Whole[k].mounted :
                         /\ found.route = Whole[k].mounted[i]
                         /\ Routes!Fits(Whole[k].path \o found.route.path, url)
         \/ /\ found.status = 405
            /\ \/ /\ ~Mounted /\ \E i \in 1 .. Len(served) : Hit(i) /\ found.route = Whole[i]
                  /\ \A i \in 1 .. Len(served) : ~(Hit(i) /\ Whole[i].method = method)
               \/ Mounted /\ \E k \in 1 .. Len(served) :
                    /\ Whole[k].method = "mount"
                    /\ \E i \in DOMAIN Whole[k].mounted : found.route = Whole[k].mounted[i]
         \/ /\ found.status = 404 /\ found.route.endpoint = 0
            /\ ~Mounted => \A i \in 1 .. Len(served) : ~Hit(i)
      /\ found.status = 200 /\ ~Mounted =>
           \E i \in 1 .. Len(served) : Hit(i) /\ found.route = Whole[i]
  <2>1. url \in Seq(STRING)
    BY RoutingAssumption
  <2> QED BY <1>1, <1>2, <2>1, AnswerIs
<1> HIDE DEF Hit
<1>6. /\ Len(served) \in Nat /\ Len(Whole) \in Nat /\ DOMAIN Whole = 1 .. Len(Whole) /\ Len(served) <= Len(Whole)
      /\ \A i \in 1 .. Len(served) : i \in DOMAIN Whole /\ i \in DOMAIN served /\ served[i] = Whole[i]
      /\ \A i \in DOMAIN served : i \in 1 .. Len(served)
      /\ \A i \in DOMAIN Whole : i > Len(served) => Whole[i].endpoint \in late
  BY <1>2, ServedIs
<1>7. ASSUME NEW i \in 1 .. Len(served), Whole[i].method # "mount"
      PROVE  Whole[i] \in Routes!Direct
  BY <1>2, <1>6, <1>7, DirectAre DEF InTime
<1>8. ASSUME NEW e \in Routes!Direct
      PROVE  \E i \in 1 .. Len(served) : e = Whole[i] /\ e.method # "mount"
  <2>1. PICK i \in DOMAIN Whole : e = Whole[i] /\ e.method # "mount" /\ e.endpoint \notin late
    BY <1>8, DirectAre
  <2>2. i \in 1 .. Len(served)
    BY <1>6, <2>1
  <2> QED BY <2>1, <2>2
<1>9. ASSUME NEW k \in DOMAIN Whole, Whole[k].method = "mount", NEW i \in DOMAIN Whole[k].mounted
      PROVE  /\ Whole[k].mounted[i].endpoint \notin late
             /\ Whole[k].mounted[i] \in Routes!ToSet(Part)
             /\ Whole[k] \in Routes!Mounts
             /\ Whole[k].mounted[i] \in RouteSet
             /\ \A n \in DOMAIN Whole : Whole[n].endpoint # Whole[k].mounted[i].endpoint
  <2>1. PICK j \in DOMAIN Part : Part[j] = Whole[k].mounted[i] /\ Whole[k].mounted[i].endpoint \notin late
    BY <1>9 DEF InTime
  <2>2. Part[j] \in RouteSet
    BY Sizes, Routers DEF Part
  <2>3. Apart(Part, Whole)
    BY Routers DEF RoutesApart, Part
  <2>4. Whole[k] \in Routes!Mounts
    BY <1>9 DEF Routes!Mounts, Routes!ToSet, Whole
  <2> QED BY <2>1, <2>2, <2>3, <2>4 DEF Routes!ToSet, Apart
(* The label is that of a route on the whole that has the path.            *)
<1>10. /\ request'.label # Routes!Unmatched =>
            /\ request'.label[1] = found.route.path
            /\ \E i \in 1 .. Len(served) : Whole[i].method # "mount" /\ Whole[i].endpoint = found.route.endpoint
       /\ \A i \in 1 .. Len(served) : Whole[i].method # "mount" /\ found.route = Whole[i] =>
            request'.label # Routes!Unmatched
  <2>1. request'.label = IF \E e \in Routes!ToSet(served) : e.method # "mount" /\ e.endpoint = found.route.endpoint
                         THEN <<found.route.path>> ELSE <<>>
    BY <1>2 DEF Routes!Label, Routes!Unmatched
  <2>2. Routes!ToSet(served) = {Whole[i] : i \in 1 .. Len(served)}
    BY <1>6 DEF Routes!ToSet
  <2> QED BY <2>1, <2>2 DEF Routes!Unmatched
<1>11. Routes!Labelled' => \E i \in 1 .. Len(served) : Hit(i) /\ found.route = Whole[i]
  <2>1. SUFFICES ASSUME request'.label # Routes!Unmatched
                 PROVE  \E i \in 1 .. Len(served) : Hit(i) /\ found.route = Whole[i]
    BY DEF Routes!Labelled
  <2>2. PICK n \in 1 .. Len(served) : Whole[n].method # "mount" /\ Whole[n].endpoint = found.route.endpoint
    BY <1>10, <2>1
  <2>3. Whole[n].endpoint # 0
    BY <1>6, <2>2, Sizes, Kinds
  <2>4. ASSUME NEW k \in 1 .. Len(served), Whole[k].method = "mount", NEW i \in DOMAIN Whole[k].mounted,
               found.route = Whole[k].mounted[i]
        PROVE  FALSE
    BY <1>6, <1>9, <2>2, <2>4
  <2> QED BY <1>5, <2>2, <2>3, <2>4
<1>12. request'.status = 200 =>
         \E e \in Routes!Direct \cup Routes!Included :
           e.endpoint = request'.endpoint /\ Routes!Asks(e)' /\ apiVersion' = e.version
  <2> SUFFICES ASSUME request'.status = 200
               PROVE  \E e \in Routes!Direct \cup Routes!Included :
                        e.endpoint = request'.endpoint /\ Routes!Asks(e)' /\ apiVersion' = e.version
    OBVIOUS
  <2>1. /\ found.status = 200 /\ request'.endpoint = found.route.endpoint /\ apiVersion' = found.route.version
        /\ found.route.method = method /\ request'.method = method /\ request'.path = url
    BY <1>2, <1>5
  <2>2. CASE \E i \in 1 .. Len(served) : Hit(i) /\ found.route = Whole[i]
    <3>1. PICK i \in 1 .. Len(served) : Hit(i) /\ found.route = Whole[i]
      BY <2>2
    <3>2. found.route \in Routes!Direct
      BY <1>7, <3>1 DEF Hit
    <3> QED BY <2>1, <3>1, <3>2 DEF Hit, Routes!Asks
  <2>3. ASSUME NEW k \in 1 .. Len(served), Whole[k].method = "mount", NEW i \in DOMAIN Whole[k].mounted,
               found.route = Whole[k].mounted[i], Routes!Fits(Whole[k].path \o found.route.path, url)
        PROVE  \E e \in Routes!Direct \cup Routes!Included :
                 e.endpoint = request'.endpoint /\ Routes!Asks(e)' /\ apiVersion' = e.version
    <3>1. PICK d, m : d = found.route /\ m = Whole[k]
      OBVIOUS
    <3>2. /\ m \in Routes!Mounts /\ d \in RouteSet
          /\ d \in {c \in Routes!ToSet(routes["part"]) : c.endpoint \notin late}
      BY <1>6, <1>9, <2>3, <3>1 DEF Part
    <3>3. PICK e : e = Routes!Prefixed(m.path, d)
      OBVIOUS
    <3>4. e \in Routes!Included
      BY <3>2, <3>3, IncludedHas
    <3>5. /\ e.path = m.path \o d.path /\ e.method = d.method /\ e.endpoint = d.endpoint
          /\ e.version = d.version
      <4>1. PICK prefix : prefix = m.path
        OBVIOUS
      <4>2. e = Routes!Prefixed(prefix, d) /\ d \in RouteSet
        BY <3>2, <3>3, <4>1
      <4>3. /\ e.path = prefix \o d.path /\ e.method = d.method /\ e.endpoint = d.endpoint
            /\ e.version = d.version
        <5> HIDE DEF RoutingInv, RoutesInv
        <5> QED BY <4>2 DEF RouteSet, Routes!Prefixed
      <4> QED BY <4>1, <4>3
    <3>6. Routes!Fits(e.path, url) /\ e.method = method /\ e.endpoint = request'.endpoint /\ apiVersion' = e.version
      BY <2>1, <2>3, <3>1, <3>5
    <3>7. Routes!Asks(e)'
      BY <2>1, <3>6 DEF Routes!Asks
    <3> QED BY <3>4, <3>6, <3>7
  <2> QED BY <1>5, <2>1, <2>2, <2>3
<1>13. ASSUME ~(\E m \in Routes!Mounts : Routes!Under(m.path, url))
       PROVE  /\ (\E e \in Routes!Direct : Routes!Asks(e)') => request'.status = 200
              /\ (\E e \in Routes!Direct : Routes!Fits(e.path, url)) <=> Routes!Labelled'
  <2>1. ~Mounted
    BY <1>13 DEF Routes!Mounts, Routes!ToSet, Whole
  <2>2. request'.status = found.status /\ request'.method = method /\ request'.path = url
    BY <1>2
  <2>3. ASSUME NEW e \in Routes!Direct, Routes!Fits(e.path, url)
        PROVE  /\ \E i \in 1 .. Len(served) : Hit(i) /\ Whole[i] = e
               /\ found.status # 404
    <3>1. PICK i \in 1 .. Len(served) : e = Whole[i] /\ e.method # "mount"
      BY <1>8
    <3>2. Hit(i)
      BY <2>3, <3>1 DEF Hit
    <3> QED BY <1>5, <2>1, <3>1, <3>2
  <2>4. ASSUME NEW e \in Routes!Direct, Routes!Asks(e)'
        PROVE  request'.status = 200
    <3>1. Routes!Fits(e.path, url) /\ e.method = method
      BY <2>2, <2>4 DEF Routes!Asks
    <3>2. PICK i \in 1 .. Len(served) : Hit(i) /\ Whole[i] = e
      BY <2>3, <3>1
    <3> QED BY <1>5, <2>1, <2>2, <2>3, <3>1, <3>2
  <2>5. ASSUME NEW e \in Routes!Direct, Routes!Fits(e.path, url)
        PROVE  Routes!Labelled'
    <3>1. \E i \in 1 .. Len(served) : Hit(i) /\ found.route = Whole[i]
      BY <1>5, <2>1, <2>3, <2>5
    <3> QED BY <1>10, <3>1 DEF Hit, Routes!Labelled
  <2>6. ASSUME Routes!Labelled'
        PROVE  \E e \in Routes!Direct : Routes!Fits(e.path, url)
    BY <1>7, <1>11, <2>6 DEF Hit
  <2> QED BY <2>4, <2>5, <2>6
<1>14. Routes!Labelled' => Routes!Fits(request'.label[1], url)
  BY <1>10, <1>11 DEF Hit, Routes!Labelled
<1>15. \A e \in Routes!Direct : <<e.path, e.method>> \in Routes!Documented
  BY DEF Routes!VersionsKeepApart
<1>16. Routes!VersionsKeepApart'
  <2>1. request'.path = url
    BY <1>2
  <2>2. ASSUME ~(\E m \in Routes!Mounts' : Routes!Under(m.path, request'.path))
        PROVE  /\ (\E e \in Routes!Direct' : Routes!Asks(e)') => request'.status = 200
               /\ (\E e \in Routes!Direct' : Routes!Fits(e.path, request'.path)) = Routes!Labelled'
    <3>1. /\ (\E e \in Routes!Direct : Routes!Asks(e)') => request'.status = 200
          /\ (\E e \in Routes!Direct : Routes!Fits(e.path, url)) <=> Routes!Labelled'
      BY <1>3, <1>13, <2>1, <2>2
    <3>2. (\E e \in Routes!Direct : Routes!Fits(e.path, url)) = Routes!Labelled'
      BY <3>1 DEF Routes!Labelled
    <3> QED BY <1>3, <2>1, <3>1, <3>2
  <2>3. request'.status = 200 =>
          \E e \in Routes!Direct' \cup Routes!Included' :
            e.endpoint = request'.endpoint /\ Routes!Asks(e)' /\ apiVersion' = e.version
    BY <1>3, <1>12
  <2>4. \A e \in Routes!Direct' : <<e.path, e.method>> \in Routes!Documented'
    BY <1>3, <1>15
  <2>5. Routes!Labelled' => Routes!Fits(request'.label[1], request'.path)
    BY <1>14, <2>1
  <2> QED BY <2>2, <2>3, <2>4, <2>5 DEF Routes!VersionsKeepApart
<1> QED BY <1>4, <1>16

LEMMA RoutingNext ==
  ASSUME RoutingInv, [Routes!Next]_(Routes!vars)
  PROVE  RoutingInv'
<1> USE DEF RoutingInv
<1>1. ASSUME NEW r \in Routes!Routers, NEW t \in AppTemplates, NEW m \in Routes!Methods, Routes!Register(r, t, m)
      PROVE  RoutingInv'
  <2>1. RoutesInv' /\ Routes!Forget
    BY <1>1, RoutesRegister DEF Routes!Register
  <2> QED BY <2>1, Forgotten
<1>2. ASSUME NEW v \in AppVersions, NEW p \in AppPrefixes \cup {<<v>>}, Routes!Enter(v, p)
      PROVE  RoutingInv'
  <2>1. RoutesInv' /\ Routes!Forget
    BY <1>2, RoutesEnter DEF Routes!Enter
  <2> QED BY <2>1, Forgotten
<1>3. ASSUME NEW v \in AppVersions, Routes!Exit(v)
      PROVE  RoutingInv'
  <2>1. RoutesInv' /\ Routes!Forget
    BY <1>3, RoutesExit DEF Routes!Exit
  <2> QED BY <2>1, Forgotten
<1>4. ASSUME NEW p \in AppPrefixes, Routes!Include(p)
      PROVE  RoutingInv'
  <2>1. RoutesInv' /\ Routes!Forget
    BY <1>4, RoutesInclude DEF Routes!Include
  <2> QED BY <2>1, Forgotten
<1>5. CASE Routes!Build
  <2>1. RoutesInv' /\ (request = Routes!NoRequest)'
    BY <1>5, RoutesBuild
  <2> HIDE DEF RoutingInv
  <2> QED BY <2>1, NothingAsked, PTL
<1>6. ASSUME NEW p \in AppPaths, NEW m \in Routes!Methods, Routes!Call(p, m)
      PROVE  RoutingInv'
  BY <1>6, RoutesCall
<1>7. CASE UNCHANGED Routes!vars
  <2>1. UNCHANGED <<routes, block, registered, late, served, frozen, request, apiVersion>>
    BY <1>7 DEF Routes!vars
  <2>2. /\ Whole' = Whole /\ Part' = Part /\ Routes!Folded' = Routes!Folded /\ Routes!Mounts' = Routes!Mounts
        /\ Routes!Direct' = Routes!Direct /\ Routes!Included' = Routes!Included
        /\ Routes!Documented' = Routes!Documented /\ Routes!Labelled' = Routes!Labelled
        /\ \A u \in AppVersions : Routes!Open(u)' = Routes!Open(u)
        /\ \A e : Routes!Asks(e)' = Routes!Asks(e)
    BY <2>1 DEF Whole, Part, Routes!Folded, Routes!Mounts, Routes!Direct, Routes!Included, Routes!Documented,
                Routes!Labelled, Routes!Open, Routes!Asks
  <2>3. RoutingTypes'
    BY <2>1, <2>2 DEF RoutesInv, RoutingTypes
  <2>4. RoutesApart'
    BY <2>1, <2>2 DEF RoutesInv, RoutesApart
  <2>5. InTime'
    BY <2>1, <2>2 DEF RoutesInv, InTime
  <2>6. ServedFirst'
    BY <2>1, <2>2 DEF RoutesInv, ServedFirst, Routes!NoRequest
  <2>7. Routes!VersionsKeepApart'
    BY <2>1, <2>2 DEF Routes!VersionsKeepApart
  <2> QED BY <2>3, <2>4, <2>5, <2>6, <2>7 DEF RoutesInv
<1> QED BY <1>1, <1>2, <1>3, <1>4, <1>5, <1>6, <1>7 DEF Routes!Next

(***************************************************************************)
(* Metrics                                                                 *)
(***************************************************************************)

AmountSet == Int \cup {NotFinite}
CallSet == [name : MetricNames, method : {"inc", "dec", "set", "observe"}, amount : AmountSet, label : MetricLabels]
AmountOf(q, i) == IF q[i].method = "dec" THEN -q[i].amount ELSE q[i].amount

(* Amount, Total and CountFor of a sequence of calls.                      *)
TotalOf(q, T) ==
  LET upTo[i \in 0 .. Len(q)] ==
        IF i = 0 THEN 0 ELSE upTo[i - 1] + IF i \in T THEN AmountOf(q, i) ELSE 0
  IN  upTo[Len(q)]
IndicesOf(q, m, n, k) ==
  LET of == {i \in DOMAIN q : q[i].name = n /\ Measures!KeyOf(m, q[i].label) = k}
  IN  {i \in of : \A j \in of : q[j].method = "set" => j <= i}

LEMMA SameTotals ==
  /\ \A T : Measures!Total(T) = TotalOf(recorded, T)
  /\ \A T : Measures!Total(T)' = TotalOf(recorded', T)
BY DEF Measures!Total, TotalOf, Measures!Amount, AmountOf

LEMMA IndicesTold ==
  /\ \A n, k : Measures!CountFor(n, k) = IndicesOf(recorded, metric[n], n, k)
  /\ \A n, k : Measures!CountFor(n, k)' = IndicesOf(recorded', metric'[n], n, k)
BY DEF Measures!CountFor, IndicesOf

LEMMA SameNumbers == \A S : Measures!Cardinality(S) = Cardinality(S)
BY DEF Measures!Cardinality, Cardinality

(* The sums of the first so many.                                          *)
Sums(f, q, T, n) ==
  /\ f = [i \in 0 .. n |-> f[i]] /\ \A i \in 0 .. n : f[i] \in Int
  /\ f[0] = 0
  /\ \A i \in 1 .. n : f[i] = f[i - 1] + IF i \in T THEN AmountOf(q, i) ELSE 0

LEMMA SumsExist ==
  ASSUME NEW q, NEW T, NEW l \in Nat, \A i \in 1 .. l : i \in T => AmountOf(q, i) \in Int
  PROVE  \E f : Sums(f, q, T, l)
<1> DEFINE Missing == {n \in 0 .. l : ~\E f : Sums(f, q, T, n)}
<1> SUFFICES ASSUME Missing # {}
             PROVE  FALSE
  BY DEF Missing
<1>1. PICK n \in Missing : \A k \in Missing : n <= k
  <2>1. Missing \in SUBSET Nat
    OBVIOUS
  <2> HIDE DEF Missing
  <2> QED BY <2>1, Least
<1>2. n \in 0 .. l
  OBVIOUS
<1>3. n # 0
  <2>1. Sums([i \in 0 .. 0 |-> 0], q, T, 0)
    BY DEF Sums
  <2> QED BY <2>1
<1>4. n - 1 \in 0 .. l /\ ~(n <= n - 1) /\ n \in Nat \ {0}
  BY <1>2, <1>3
<1>5. PICK f : Sums(f, q, T, n - 1)
  BY <1>1, <1>4
<1>6. PICK x \in Int : x = f[n - 1] + IF n \in T THEN AmountOf(q, n) ELSE 0
  <2>1. f[n - 1] \in Int /\ n \in 1 .. l
    BY <1>2, <1>4, <1>5 DEF Sums
  <2>2. (n \in T => AmountOf(q, n) \in Int)
    BY <2>1
  <2> QED BY <2>1, <2>2
<1>7. PICK g : g = [i \in 0 .. n |-> IF i = n THEN x ELSE f[i]]
  OBVIOUS
<1>8. /\ g[n] = x /\ \A i \in 0 .. n - 1 : g[i] = f[i] /\ f[i] \in Int
      /\ \A i \in 0 .. n : i \in 0 .. n - 1 \/ i = n
  BY <1>4, <1>5, <1>7 DEF Sums
<1>9. Sums(g, q, T, n)
  <2>1. g = [i \in 0 .. n |-> g[i]]
    BY <1>7
  <2>2. \A i \in 0 .. n : g[i] \in Int
    BY <1>6, <1>8
  <2>3. g[0] = 0
    BY <1>4, <1>5, <1>8 DEF Sums
  <2>4. ASSUME NEW i \in 1 .. n
        PROVE  g[i] = g[i - 1] + IF i \in T THEN AmountOf(q, i) ELSE 0
    <3>1. i - 1 \in 0 .. n - 1 /\ (i = n \/ i \in 1 .. n - 1)
      BY <1>4
    <3>2. CASE i = n
      BY <1>6, <1>8, <3>1, <3>2
    <3>3. CASE i \in 1 .. n - 1
      <4>1. f[i] = f[i - 1] + IF i \in T THEN AmountOf(q, i) ELSE 0
        BY <1>5, <3>3 DEF Sums
      <4>2. g[i] = f[i] /\ g[i - 1] = f[i - 1]
        BY <1>8, <3>1, <3>3
      <4> QED BY <4>1, <4>2
    <3> QED BY <3>1, <3>2, <3>3
  <2> QED BY <2>1, <2>2, <2>3, <2>4 DEF Sums
<1> QED BY <1>9

(* They depend on nothing but the first so many.                           *)
LEMMA SumsAgree ==
  ASSUME NEW q, NEW T, NEW n \in Nat, NEW f, Sums(f, q, T, n),
         NEW p, NEW U, NEW l \in Nat, NEW g, Sums(g, p, U, l), n <= l,
         \A i \in 1 .. n : (i \in T <=> i \in U) /\ (i \in T => AmountOf(q, i) = AmountOf(p, i))
  PROVE  \A i \in 0 .. n : f[i] = g[i]
<1> DEFINE Apart0 == {i \in 0 .. n : f[i] # g[i]}
<1> SUFFICES ASSUME Apart0 # {}
             PROVE  FALSE
  BY DEF Apart0
<1>1. PICK i \in Apart0 : \A k \in Apart0 : i <= k
  <2>1. Apart0 \in SUBSET Nat
    OBVIOUS
  <2> HIDE DEF Apart0
  <2> QED BY <2>1, Least
<1>2. i \in 0 .. n /\ i # 0
  BY DEF Sums
<1>3. i \in 1 .. n /\ i \in 1 .. l /\ i - 1 \in 0 .. n /\ ~(i <= i - 1)
  BY <1>2
<1>4. f[i - 1] = g[i - 1]
  BY <1>1, <1>3
<1>5. /\ f[i] = f[i - 1] + IF i \in T THEN AmountOf(q, i) ELSE 0
      /\ g[i] = g[i - 1] + IF i \in U THEN AmountOf(p, i) ELSE 0
  BY <1>3 DEF Sums
<1>6. f[i] = g[i]
  BY <1>3, <1>4, <1>5
<1> QED BY <1>6

LEMMA TotalIs ==
  ASSUME NEW q, NEW T, NEW l \in Nat, l = Len(q), NEW f, Sums(f, q, T, l)
  PROVE  TotalOf(q, T) = f[l]
<1> DEFINE Step(g) == g = [i \in 0 .. l |-> IF i = 0 THEN 0
                                            ELSE g[i - 1] + IF i \in T THEN AmountOf(q, i) ELSE 0]
<1>1. Step(f)
  BY DEF Sums
<1>2. PICK g : g = CHOOSE h : Step(h)
  OBVIOUS
<1>3. Step(g)
  BY <1>1, <1>2
<1>4. TotalOf(q, T) = g[l]
  BY <1>2 DEF TotalOf
<1>5. f = g
  <2>1. \A i \in 0 .. l : f[i] = g[i]
    <3> DEFINE Apart0 == {i \in 0 .. l : f[i] # g[i]}
    <3> SUFFICES ASSUME Apart0 # {}
                 PROVE  FALSE
      BY DEF Apart0
    <3>1. PICK i \in Apart0 : \A k \in Apart0 : i <= k
      <4>1. Apart0 \in SUBSET Nat
        OBVIOUS
      <4> HIDE DEF Apart0
      <4> QED BY <4>1, Least
    <3>2. i \in 0 .. l
      OBVIOUS
    <3> HIDE DEF Step
    <3>3. i # 0
      BY <1>1, <1>3, <3>1 DEF Step
    <3>4. i - 1 \in 0 .. l /\ ~(i <= i - 1)
      BY <3>2, <3>3
    <3>5. f[i - 1] = g[i - 1]
      BY <3>1, <3>4
    <3>6. f[i] = g[i]
      BY <1>1, <1>3, <3>2, <3>3, <3>5, SMTT(30) DEF Step
    <3> QED BY <3>1, <3>6
  <2> QED BY <1>1, <1>3, <2>1
<1> QED BY <1>4, <1>5

(* The total of nothing, and what a call adds.                             *)
LEMMA TotalOfNothing ==
  ASSUME NEW q, Len(q) \in Nat
  PROVE  TotalOf(q, {}) = 0
<1>1. PICK f : f = [i \in 0 .. Len(q) |-> 0]
  OBVIOUS
<1>2. Sums(f, q, {}, Len(q))
  BY <1>1 DEF Sums
<1> QED BY <1>1, <1>2, TotalIs

LEMMA TotalGrows ==
  ASSUME NEW q \in Seq(CallSet), NEW c \in CallSet, NEW T \in SUBSET (1 .. Len(q)),
         \A i \in T : q[i].amount \in Int
  PROVE  /\ TotalOf(q, T) \in Int
         /\ TotalOf(Append(q, c), T) = TotalOf(q, T)
         /\ c.amount \in Int => TotalOf(Append(q, c), T \cup {Len(q) + 1}) =
              TotalOf(q, T) + IF c.method = "dec" THEN -c.amount ELSE c.amount
<1> DEFINE l == Len(q)
           new == Append(q, c)
<1>1. /\ l \in Nat /\ Len(new) = l + 1 /\ new \in Seq(CallSet) /\ new[l + 1] = c
      /\ \A i \in 1 .. l : new[i] = q[i]
  BY AppendProperties
<1>2. \A i \in T : i \in 1 .. l /\ AmountOf(q, i) \in Int /\ AmountOf(new, i) = AmountOf(q, i)
  BY <1>1 DEF AmountOf
<1>3. AmountOf(new, l + 1) = IF c.method = "dec" THEN -c.amount ELSE c.amount
  BY <1>1 DEF AmountOf
<1> HIDE DEF l, new
<1>4. l = Len(q) /\ new = Append(q, c) /\ l + 1 \notin T /\ l + 1 \in Nat
  BY <1>1, <1>2 DEF l, new
<1>5. PICK f : Sums(f, q, T, l)
  BY <1>1, <1>2, SumsExist
<1>6. TotalOf(q, T) = f[l] /\ f[l] \in Int
  <2>1. TotalOf(q, T) = f[l]
    BY <1>1, <1>4, <1>5, TotalIs
  <2>2. l \in 0 .. l
    BY <1>1
  <2> QED BY <1>5, <2>1, <2>2 DEF Sums
<1>7. ASSUME NEW U, U \in {T, T \cup {l + 1}}, U # T => c.amount \in Int
      PROVE  TotalOf(new, U) = f[l] + IF l + 1 \in U THEN AmountOf(new, l + 1) ELSE 0
  <2>1. \A i \in 1 .. l + 1 : i \in U => AmountOf(new, i) \in Int
    BY <1>1, <1>2, <1>3, <1>7
  <2>2. PICK g : Sums(g, new, U, l + 1)
    BY <1>4, <2>1, SumsExist
  <2>3. \A i \in 1 .. l : (i \in T <=> i \in U) /\ (i \in T => AmountOf(q, i) = AmountOf(new, i))
    BY <1>1, <1>2, <1>7
  <2>4. f[l] = g[l]
    <3>1. l <= l + 1 /\ l \in 0 .. l
      BY <1>1
    <3>2. \A i \in 0 .. l : f[i] = g[i]
      BY <1>1, <1>4, <1>5, <2>2, <2>3, <3>1, SumsAgree
    <3> QED BY <3>1, <3>2
  <2>5. l + 1 \in 1 .. l + 1 /\ l + 1 - 1 = l
    BY <1>1
  <2>6. g[l + 1] = g[l] + IF l + 1 \in U THEN AmountOf(new, l + 1) ELSE 0
    BY <2>2, <2>5 DEF Sums
  <2>7. TotalOf(new, U) = g[l + 1]
    <3>1. PICK k \in Nat : k = l + 1
      BY <1>4
    <3>2. k = Len(new) /\ Sums(g, new, U, k)
      BY <1>1, <2>2, <3>1
    <3>3. TotalOf(new, U) = g[k]
      BY <3>2, TotalIs
    <3> QED BY <3>1, <3>3
  <2> QED BY <2>4, <2>6, <2>7
<1>8. TotalOf(new, T) = f[l]
  BY <1>4, <1>6, <1>7
<1>9. c.amount \in Int => TotalOf(new, T \cup {l + 1}) = f[l] + AmountOf(new, l + 1)
  BY <1>7
<1> QED BY <1>3, <1>4, <1>6, <1>8, <1>9

(***************************************************************************)
(* What a sample tells of the calls                                        *)
(***************************************************************************)

SampleSet(m) == [sum : AmountSet, count : Nat, buckets : [m.bounds -> Nat]]
MetricSet == Measures!Asked \cup {Measures!NotThere}
Finite(q, T) == \A i \in T : q[i].amount # NotFinite
UpToBound(q, T, b) == {i \in T : q[i].amount # NotFinite /\ q[i].amount <= b}

(* SamplesTellCalls of one sample.                                         *)
Knows(s, q, m, T) ==
  /\ s.sum = IF Finite(q, T) THEN TotalOf(q, T) ELSE NotFinite
  /\ m.kind = "histogram" =>
       s.count = Cardinality(T) /\ \A b \in m.bounds : s.buckets[b] = Cardinality(UpToBound(q, T, b))
Tells(s, q, m, n, k) == IndicesOf(q, m, n, k) # {} /\ Knows(s, q, m, IndicesOf(q, m, n, k))

(* A metric has its samples from the calls of its name.                    *)
Named(q, n) == {i \in DOMAIN q : q[i].name = n}
Samples(v, q, m, n) ==
  /\ m = Measures!NotThere => v = <<>> /\ Named(q, n) = {}
  /\ m.kind = "histogram" => \A i \in Named(q, n) : q[i].method = "observe"
  /\ \A k : k \in DOMAIN v <=> \E i \in Named(q, n) : Measures!KeyOf(m, q[i].label) = k
  /\ \A k \in DOMAIN v : v[k] \in SampleSet(m) /\ Tells(v[k], q, m, n, k)

MetricTypes ==
  /\ metric = [n \in MetricNames |-> metric[n]] /\ \A n \in MetricNames : metric[n] \in MetricSet
  /\ values = [n \in MetricNames |-> values[n]]
  /\ recorded \in Seq(CallSet)
MetricsInv ==
  /\ MetricTypes
  /\ \A n \in MetricNames : Samples(values[n], recorded, metric[n], n)
  /\ scraped = "crashed" => \E i \in DOMAIN recorded : recorded[i].amount = NotFinite

LEMMA CallIs ==
  /\ \A c \in CallSet : /\ c.amount \in AmountSet /\ (c.amount # NotFinite => c.amount \in Int)
                        /\ c.method \in {"inc", "dec", "set", "observe"} /\ c.name \in MetricNames
  /\ \A q \in Seq(CallSet) : \A i \in 1 .. Len(q) : q[i] \in CallSet
<1>1. \A x \in AmountSet : x # NotFinite => x \in Int
  BY DEF AmountSet
<1>2. \A c \in CallSet : /\ c.amount \in AmountSet /\ c.name \in MetricNames
                         /\ c.method \in {"inc", "dec", "set", "observe"}
  BY DEF CallSet
<1> QED BY <1>1, <1>2

(* A call of another metric, or of another label.                          *)
LEMMA CountsApart ==
  ASSUME NEW q \in Seq(CallSet), NEW c \in CallSet, NEW m, NEW n, NEW k,
         c.name # n \/ Measures!KeyOf(m, c.label) # k
  PROVE  IndicesOf(Append(q, c), m, n, k) = IndicesOf(q, m, n, k)
<1> DEFINE l == Len(q)
           new == Append(q, c)
           of(p) == {i \in DOMAIN p : p[i].name = n /\ Measures!KeyOf(m, p[i].label) = k}
<1>1. /\ l \in Nat /\ DOMAIN new = 1 .. l + 1 /\ DOMAIN q = 1 .. l /\ new[l + 1] = c
      /\ \A i \in 1 .. l : new[i] = q[i]
  BY AppendProperties
<1>2. of(new) = of(q)
  <2>1. \A i \in 1 .. l + 1 : i \in 1 .. l \/ i = l + 1
    BY <1>1
  <2>2. l + 1 \notin of(new)
    BY <1>1
  <2> HIDE DEF new, l
  <2>3. \A i \in of(new) : i \in 1 .. l
    BY <1>1, <2>1, <2>2
  <2>4. 1 .. l \subseteq 1 .. l + 1
    BY <1>1
  <2> QED BY <1>1, <2>3, <2>4
<1>3. \A i \in of(q) : new[i].method = q[i].method
  BY <1>1
<1>4. IndicesOf(new, m, n, k) = {i \in of(new) : \A j \in of(new) : new[j].method = "set" => j <= i}
  BY DEF IndicesOf
<1>5. IndicesOf(q, m, n, k) = {i \in of(q) : \A j \in of(q) : q[j].method = "set" => j <= i}
  BY DEF IndicesOf
<1> HIDE DEF of, new
<1>6. IndicesOf(new, m, n, k) = IndicesOf(q, m, n, k)
  BY <1>2, <1>3, <1>4, <1>5
<1> QED BY <1>6 DEF new

(* A call of this one: set() begins anew.                                  *)
LEMMA CountsGrow ==
  ASSUME NEW q \in Seq(CallSet), NEW c \in CallSet, NEW m
  PROVE  IndicesOf(Append(q, c), m, c.name, Measures!KeyOf(m, c.label)) =
           IF c.method = "set" THEN {Len(q) + 1}
           ELSE IndicesOf(q, m, c.name, Measures!KeyOf(m, c.label)) \cup {Len(q) + 1}
<1>0. PICK n, k : c.name = n /\ Measures!KeyOf(m, c.label) = k
  OBVIOUS
<1> DEFINE l == Len(q)
           new == Append(q, c)
           of(p) == {i \in DOMAIN p : p[i].name = n /\ Measures!KeyOf(m, p[i].label) = k}
<1>1. /\ l \in Nat /\ DOMAIN new = 1 .. l + 1 /\ DOMAIN q = 1 .. l /\ new[l + 1] = c
      /\ \A i \in 1 .. l : new[i] = q[i]
  BY <1>0, AppendProperties
<1>2. /\ \A i \in 1 .. l + 1 : (i \in 1 .. l \/ i = l + 1) /\ i <= l + 1
      /\ \A i \in 1 .. l : i \in 1 .. l + 1 /\ ~(l + 1 <= i)
      /\ l + 1 \in 1 .. l + 1
  BY <1>1
<1>3. of(new) = of(q) \cup {l + 1} /\ of(q) \subseteq 1 .. l
  <2>1. l + 1 \in of(new)
    BY <1>0, <1>1, <1>2
  <2> HIDE DEF new, l
  <2> QED BY <1>1, <1>2, <2>1
<1>4. \A i \in of(q) : new[i].method = q[i].method
  BY <1>1
<1>5. IndicesOf(new, m, n, k) = {i \in of(new) : \A j \in of(new) : new[j].method = "set" => j <= i}
  BY DEF IndicesOf
<1>6. IndicesOf(q, m, n, k) = {i \in of(q) : \A j \in of(q) : q[j].method = "set" => j <= i}
  BY DEF IndicesOf
<1>7. l = Len(q) /\ new = Append(q, c)
  OBVIOUS
<1> HIDE DEF of, new, l
<1>8. l + 1 \in IndicesOf(new, m, n, k)
  BY <1>2, <1>3, <1>5
<1>9. CASE c.method = "set"
  <2>1. \A i \in of(q) : i \notin IndicesOf(new, m, n, k)
    BY <1>1, <1>2, <1>3, <1>5, <1>9
  <2>2. IndicesOf(new, m, n, k) = {l + 1}
    BY <1>3, <1>5, <1>8, <2>1
  <2> QED BY <1>0, <1>7, <1>9, <2>2
<1>10. CASE c.method # "set"
  <2>1. \A i \in of(q) : i \in IndicesOf(new, m, n, k) <=> i \in IndicesOf(q, m, n, k)
    BY <1>1, <1>3, <1>4, <1>5, <1>6, <1>10
  <2>2. IndicesOf(new, m, n, k) = IndicesOf(q, m, n, k) \cup {l + 1}
    BY <1>3, <1>5, <1>6, <1>8, <2>1
  <2> QED BY <1>0, <1>7, <1>10, <2>2
<1> QED BY <1>9, <1>10

(* What a sample told, it tells still.                                     *)
LEMMA TellsOn ==
  ASSUME NEW q \in Seq(CallSet), NEW c \in CallSet, NEW m, NEW n, NEW k, NEW s,
         IndicesOf(Append(q, c), m, n, k) = IndicesOf(q, m, n, k), Tells(s, q, m, n, k)
  PROVE  Tells(s, Append(q, c), m, n, k)
<1> DEFINE T == IndicesOf(q, m, n, k)
<1>1. T \in SUBSET (1 .. Len(q)) /\ \A i \in T : Append(q, c)[i] = q[i]
  <2>1. T \subseteq DOMAIN q
    BY DEF IndicesOf
  <2> QED BY <2>1, AppendProperties
<1> HIDE DEF T
<1>2. Finite(Append(q, c), T) = Finite(q, T) /\ \A b : UpToBound(Append(q, c), T, b) = UpToBound(q, T, b)
  BY <1>1 DEF Finite, UpToBound
<1>3. Finite(q, T) => TotalOf(Append(q, c), T) = TotalOf(q, T)
  <2>1. Finite(q, T) => \A i \in T : q[i].amount \in Int
    BY <1>1, CallIs DEF Finite
  <2> QED BY <1>1, <2>1, TotalGrows
<1> QED BY <1>2, <1>3 DEF Tells, Knows, T

LEMMA ChangedIs ==
  ASSUME NEW m, NEW s \in SampleSet(m), NEW x \in AmountSet, NEW method \in {"inc", "dec", "set", "observe"},
         NEW t, t = Measures!Changed(s, method, x)
  PROVE  /\ t \in SampleSet(m)
         /\ method \in {"inc", "observe"} => t.sum = Measures!Plus(s.sum, x)
         /\ method = "dec" => t.sum = Measures!Minus(s.sum, x)
         /\ method = "set" => t.sum = x
         /\ method = "observe" =>
              /\ t.count = s.count + 1
              /\ \A b \in m.bounds : t.buckets[b] =
                   IF x # NotFinite /\ x <= b THEN s.buckets[b] + 1 ELSE s.buckets[b]
<1>1. s.sum \in AmountSet /\ s.count \in Nat /\ s.buckets \in [m.bounds -> Nat]
  BY DEF SampleSet
<1>2. Measures!Plus(s.sum, x) \in AmountSet /\ Measures!Minus(s.sum, x) \in AmountSet
  BY <1>1, MetricsAssumption DEF Measures!Plus, Measures!Minus, AmountSet
<1>3. PICK y, z : y = Measures!Plus(s.sum, x) /\ z = Measures!Minus(s.sum, x)
  OBVIOUS
<1>4. CASE method = "inc"
  <2>1. t = [s EXCEPT !.sum = y]
    BY <1>3, <1>4 DEF Measures!Changed
  <2> QED BY <1>2, <1>3, <1>4, <2>1 DEF SampleSet
<1>5. CASE method = "dec"
  <2>1. t = [s EXCEPT !.sum = z]
    BY <1>3, <1>5 DEF Measures!Changed
  <2> QED BY <1>2, <1>3, <1>5, <2>1 DEF SampleSet
<1>6. CASE method = "set"
  <2>1. t = [s EXCEPT !.sum = x]
    BY <1>6 DEF Measures!Changed
  <2> QED BY <1>6, <2>1 DEF SampleSet
<1>7. CASE method = "observe"
  <2>1. PICK u : u = [b \in m.bounds |-> IF x # NotFinite /\ x <= b THEN s.buckets[b] + 1 ELSE s.buckets[b]]
    OBVIOUS
  <2>2. DOMAIN s.buckets = m.bounds /\ u \in [m.bounds -> Nat]
    BY <1>1, <2>1
  <2>3. t = [sum |-> y, count |-> s.count + 1, buckets |-> u]
    BY <1>3, <1>7, <2>1, <2>2 DEF Measures!Changed
  <2>4. s.count + 1 \in Nat
    BY <1>1
  <2>5. t \in SampleSet(m)
    BY <1>2, <1>3, <2>2, <2>3, <2>4 DEF SampleSet
  <2> QED BY <1>3, <1>7, <2>1, <2>3, <2>5
<1> QED BY <1>4, <1>5, <1>6, <1>7

LEMMA OneMore ==
  ASSUME NEW l \in Nat, NEW T \in SUBSET (1 .. l)
  PROVE  /\ IsFiniteSet(T) /\ Cardinality(T) \in Nat /\ l + 1 \notin T
         /\ Cardinality(T \cup {l + 1}) = Cardinality(T) + 1
<1>1. IsFiniteSet(1 .. l)
  BY FS_Interval
<1>2. IsFiniteSet(T) /\ Cardinality(T) \in Nat
  BY <1>1, FS_Subset, FS_CardinalityType
<1>3. l + 1 \notin T
  OBVIOUS
<1> QED BY <1>2, <1>3, FS_AddElement

(* A sample knows of a set of calls, and of the call that changes it.      *)
LEMMA KnowsMore ==
  ASSUME NEW q \in Seq(CallSet), NEW c \in CallSet, NEW m \in Measures!Asked, NEW T \in SUBSET (1 .. Len(q)),
         NEW s \in SampleSet(m), Knows(s, q, m, T), c.method # "set",
         m.kind = "histogram" => c.method = "observe",
         NEW t, t = Measures!Changed(s, c.method, c.amount)
  PROVE  Knows(t, Append(q, c), m, T \cup {Len(q) + 1})
<1>1. PICK l, new, U, x : l = Len(q) /\ new = Append(q, c) /\ U = T \cup {l + 1} /\ x = c.amount
  OBVIOUS
<1>2. /\ new[l + 1] = c /\ \A i \in T : new[i] = q[i] /\ q[i] \in CallSet
      /\ l + 1 \notin T /\ l + 1 \in U /\ T \subseteq U
      /\ \A i \in U : i \in T \/ i = l + 1
      /\ l \in Nat
  BY <1>1, AppendProperties
<1>3. x \in AmountSet /\ (x # NotFinite => x \in Int)
  BY <1>1, CallIs
<1>4. Finite(new, U) <=> Finite(q, T) /\ x # NotFinite
  BY <1>1, <1>2 DEF Finite
<1>5. Finite(q, T) => \A i \in T : q[i].amount \in Int
  BY <1>2, CallIs DEF Finite
<1>6. Finite(q, T) => /\ TotalOf(q, T) \in Int
                      /\ x # NotFinite => TotalOf(new, U) = TotalOf(q, T) + IF c.method = "dec" THEN -x ELSE x
  BY <1>1, <1>3, <1>5, TotalGrows
<1>7. c.method \in {"inc", "dec", "observe"}
  BY CallIs
<1>8. s.sum = IF Finite(q, T) THEN TotalOf(q, T) ELSE NotFinite
  BY DEF Knows
<1>9. t.sum = IF c.method = "dec" THEN Measures!Minus(s.sum, x) ELSE Measures!Plus(s.sum, x)
  <2>1. PICK w \in {"inc", "dec", "set", "observe"} : w = c.method
    BY <1>7
  <2>2. w # "set" /\ t = Measures!Changed(s, w, x)
    BY <1>1, <2>1
  <2>3. w # "set" => t.sum = IF w = "dec" THEN Measures!Minus(s.sum, x) ELSE Measures!Plus(s.sum, x)
    BY <1>3, <2>2, ChangedIs, SMTT(30)
  <2> QED BY <2>1, <2>2, <2>3
<1>10. t.sum = IF Finite(new, U) THEN TotalOf(new, U) ELSE NotFinite
  <2>1. CASE Finite(q, T) /\ x # NotFinite
    <3>1. s.sum \in Int /\ x \in Int /\ s.sum = TotalOf(q, T) /\ NotFinite \notin {s.sum, x}
      BY <1>3, <1>6, <1>8, <2>1, MetricsAssumption
    <3>2. t.sum = IF c.method = "dec" THEN s.sum - x ELSE s.sum + x
      BY <1>9, <3>1 DEF Measures!Plus, Measures!Minus
    <3>3. TotalOf(new, U) = s.sum + IF c.method = "dec" THEN -x ELSE x
      BY <1>6, <2>1, <3>1
    <3> QED BY <1>4, <2>1, <3>1, <3>2, <3>3
  <2>2. CASE ~(Finite(q, T) /\ x # NotFinite)
    <3>1. NotFinite \in {s.sum, x}
      BY <1>8, <2>2
    <3>2. t.sum = NotFinite
      BY <1>9, <3>1 DEF Measures!Plus, Measures!Minus
    <3> QED BY <1>4, <2>2, <3>2
  <2> QED BY <2>1, <2>2
<1>11. ASSUME m.kind = "histogram"
       PROVE  t.count = Cardinality(U) /\ \A b \in m.bounds : t.buckets[b] = Cardinality(UpToBound(new, U, b))
  <2>1. c.method = "observe"
    BY <1>11
  <2>2. /\ t.count = s.count + 1
        /\ \A b \in m.bounds : t.buckets[b] = IF x # NotFinite /\ x <= b THEN s.buckets[b] + 1 ELSE s.buckets[b]
    <3>1. PICK w \in {"inc", "dec", "set", "observe"} : w = c.method
      BY <1>7
    <3>2. w = "observe" /\ t = Measures!Changed(s, w, x)
      BY <1>1, <2>1, <3>1
    <3>3. w = "observe" =>
            /\ t.count = s.count + 1
            /\ \A b \in m.bounds : t.buckets[b] = IF x # NotFinite /\ x <= b THEN s.buckets[b] + 1 ELSE s.buckets[b]
      BY <1>3, <3>2, ChangedIs, SMTT(30)
    <3> QED BY <3>2, <3>3
  <2>3. s.count = Cardinality(T) /\ \A b \in m.bounds : s.buckets[b] = Cardinality(UpToBound(q, T, b))
    BY <1>11 DEF Knows
  <2>4. t.count = Cardinality(U)
    BY <1>1, <1>2, <2>2, <2>3, OneMore
  <2>5. ASSUME NEW b \in m.bounds
        PROVE  t.buckets[b] = Cardinality(UpToBound(new, U, b))
    <3>1. UpToBound(q, T, b) \in SUBSET (1 .. l)
      BY <1>1 DEF UpToBound
    <3>2. UpToBound(new, U, b) = IF x # NotFinite /\ x <= b THEN UpToBound(q, T, b) \cup {l + 1} ELSE UpToBound(q, T, b)
      BY <1>1, <1>2 DEF UpToBound
    <3>3. Cardinality(UpToBound(q, T, b) \cup {l + 1}) = Cardinality(UpToBound(q, T, b)) + 1
      BY <1>2, <3>1, OneMore
    <3> QED BY <2>2, <2>3, <3>2, <3>3
  <2> QED BY <2>4, <2>5
<1>12. Knows(t, new, m, U)
  BY <1>10, <1>11 DEF Knows
<1> QED BY <1>1, <1>12

(* set() knows of no call but its own.                                     *)
LEMMA KnowsAnew ==
  ASSUME NEW q \in Seq(CallSet), NEW c \in CallSet, NEW m \in Measures!Asked,
         NEW s \in SampleSet(m), c.method = "set", m.kind # "histogram",
         NEW t, t = Measures!Changed(s, c.method, c.amount)
  PROVE  Knows(t, Append(q, c), m, {Len(q) + 1})
<1>1. PICK l, new, x : l = Len(q) /\ new = Append(q, c) /\ x = c.amount
  OBVIOUS
<1>2. new[l + 1] = c /\ {} \in SUBSET (1 .. Len(q)) /\ Len(q) \in Nat
  BY <1>1, AppendProperties
<1>3. x \in AmountSet /\ (x # NotFinite => x \in Int)
  BY <1>1, CallIs
<1>4. t.sum = x
  BY <1>1, <1>3, ChangedIs, SMTT(30)
<1>5. Finite(new, {l + 1}) <=> x # NotFinite
  BY <1>1, <1>2 DEF Finite
<1>6. x # NotFinite => TotalOf(new, {l + 1}) = x
  <2>1. TotalOf(q, {}) = 0 /\ {} \cup {l + 1} = {l + 1}
    BY <1>2, TotalOfNothing
  <2>2. x # NotFinite => TotalOf(new, {} \cup {l + 1}) = 0 + x
    BY <1>1, <1>2, <1>3, <2>1, TotalGrows
  <2> QED BY <1>3, <2>1, <2>2
<1>7. Knows(t, new, m, {l + 1})
  BY <1>4, <1>5, <1>6 DEF Knows
<1> QED BY <1>1, <1>7

LEMMA ZeroKnows ==
  ASSUME NEW q \in Seq(CallSet), NEW m \in Measures!Asked
  PROVE  Measures!Zero(m) \in SampleSet(m) /\ Knows(Measures!Zero(m), q, m, {})
<1>1. PICK z : z = Measures!Zero(m)
  OBVIOUS
<1>2. z.sum = 0 /\ z.count = 0 /\ \A b \in m.bounds : z.buckets[b] = 0
  BY <1>1 DEF Measures!Zero
<1>3. z \in SampleSet(m)
  BY <1>1 DEF Measures!Zero, SampleSet, AmountSet
<1>4. TotalOf(q, {}) = 0 /\ Finite(q, {}) /\ \A b : UpToBound(q, {}, b) = {}
  <2>1. Len(q) \in Nat
    OBVIOUS
  <2> QED BY <2>1, TotalOfNothing DEF Finite, UpToBound
<1>5. Knows(z, q, m, {})
  BY <1>2, <1>4, FS_EmptySet DEF Knows
<1> QED BY <1>1, <1>3, <1>5

LEMMA AskedIs ==
  ASSUME NEW m \in Measures!Asked
  PROVE  /\ m # Measures!NotThere /\ m.kind \in {"counter", "gauge", "histogram"}
         /\ \A method : method \in Measures!Methods(m.kind) =>
              /\ method \in {"inc", "dec", "set", "observe"}
              /\ method = "observe" <=> m.kind = "histogram"
<1>1. m.kind \in {"counter", "gauge", "histogram"} /\ m.labelled \in BOOLEAN
  BY DEF Measures!Asked
<1>2. m.kind # "none"
  BY <1>1
<1>3. m # Measures!NotThere
  BY <1>2 DEF Measures!NotThere
<1>4. CASE m.kind = "counter"
  BY <1>3, <1>4 DEF Measures!Methods
<1>5. CASE m.kind = "gauge"
  BY <1>3, <1>5 DEF Measures!Methods
<1>6. CASE m.kind = "histogram"
  BY <1>3, <1>6 DEF Measures!Methods
<1> QED BY <1>1, <1>4, <1>5, <1>6

LEMMA NamedIs ==
  ASSUME NEW q \in Seq(CallSet), NEW c \in CallSet, NEW n
  PROVE  /\ Named(q, n) \subseteq 1 .. Len(q) /\ \A i \in Named(q, n) : Append(q, c)[i] = q[i]
         /\ Append(q, c)[Len(q) + 1] = c
         /\ Named(Append(q, c), n) = IF c.name = n THEN Named(q, n) \cup {Len(q) + 1} ELSE Named(q, n)
<1>1. PICK l, new : l = Len(q) /\ new = Append(q, c)
  OBVIOUS
<1>2. /\ l \in Nat /\ DOMAIN new = 1 .. l + 1 /\ DOMAIN q = 1 .. l /\ new[l + 1] = c
      /\ \A i \in 1 .. l : new[i] = q[i]
  BY <1>1, AppendProperties
<1>3. l + 1 \in 1 .. l + 1 /\ \A i \in 1 .. l + 1 : i \in 1 .. l \/ i = l + 1
  BY <1>2
<1>4. 1 .. l \subseteq 1 .. l + 1 /\ l + 1 \notin 1 .. l
  BY <1>2
<1> QED BY <1>1, <1>2, <1>3, <1>4 DEF Named

LEMMA SamplesApart ==
  ASSUME NEW q \in Seq(CallSet), NEW c \in CallSet, NEW m, NEW n, NEW v, Samples(v, q, m, n), c.name # n
  PROVE  Samples(v, Append(q, c), m, n)
<1>1. PICK new : new = Append(q, c)
  OBVIOUS
<1>2. Named(new, n) = Named(q, n) /\ \A i \in Named(q, n) : new[i] = q[i]
  BY <1>1, NamedIs
<1>3. ASSUME NEW k \in DOMAIN v
      PROVE  v[k] \in SampleSet(m) /\ Tells(v[k], new, m, n, k)
  <2>1. PICK s : s = v[k]
    OBVIOUS
  <2>2. s \in SampleSet(m) /\ Tells(s, q, m, n, k)
    BY <2>1 DEF Samples
  <2>3. IndicesOf(new, m, n, k) = IndicesOf(q, m, n, k)
    BY <1>1, CountsApart
  <2>4. Tells(s, new, m, n, k)
    BY <1>1, <2>2, <2>3, TellsOn
  <2> QED BY <2>1, <2>2, <2>4
<1>4. /\ m = Measures!NotThere => v = <<>> /\ Named(new, n) = {}
      /\ m.kind = "histogram" => \A i \in Named(new, n) : new[i].method = "observe"
      /\ \A k : k \in DOMAIN v <=> \E i \in Named(new, n) : Measures!KeyOf(m, new[i].label) = k
  BY <1>2 DEF Samples
<1>5. Samples(v, new, m, n)
  BY <1>3, <1>4 DEF Samples
<1> QED BY <1>1, <1>5

LEMMA SamplesBegin ==
  ASSUME NEW q, NEW n, NEW v, Samples(v, q, Measures!NotThere, n), NEW m \in Measures!Asked
  PROVE  v = <<>> /\ Samples(v, q, m, n)
<1>1. v = <<>> /\ Named(q, n) = {} /\ m # Measures!NotThere
  BY AskedIs DEF Samples
<1> QED BY <1>1 DEF Samples

(* A metric's samples after a call of it.                                  *)
After(v, m, c) ==
  [j \in DOMAIN v \cup {Measures!KeyOf(m, c.label)} |->
     IF j = Measures!KeyOf(m, c.label)
     THEN Measures!Changed(Measures!SampleOf(v, Measures!KeyOf(m, c.label), m), c.method, c.amount) ELSE v[j]]

LEMMA SamplesGrow ==
  ASSUME NEW q \in Seq(CallSet), NEW c \in CallSet, NEW m \in Measures!Asked, NEW v, Samples(v, q, m, c.name),
         c.method \in Measures!Methods(m.kind)
  PROVE  Samples(After(v, m, c), Append(q, c), m, c.name)
<1>1. PICK n, k, w : n = c.name /\ k = Measures!KeyOf(m, c.label) /\ w = After(v, m, c)
  OBVIOUS
<1>2. /\ Samples(v, q, m, n)
      /\ w = [j \in DOMAIN v \cup {k} |->
                IF j = k THEN Measures!Changed(Measures!SampleOf(v, k, m), c.method, c.amount) ELSE v[j]]
  BY <1>1 DEF After
<1>3. PICK l, new : l = Len(q) /\ new = Append(q, c)
  OBVIOUS
<1>4. /\ Named(q, n) \subseteq 1 .. l /\ \A i \in Named(q, n) : new[i] = q[i]
      /\ Named(new, n) = Named(q, n) \cup {l + 1} /\ new[l + 1] = c
  BY <1>1, <1>3, NamedIs
<1>5. /\ m # Measures!NotThere /\ c.method \in {"inc", "dec", "set", "observe"}
      /\ c.method = "observe" <=> m.kind = "histogram"
  BY AskedIs
<1>6. m.kind = "histogram" => \A i \in Named(new, n) : new[i].method = "observe"
  BY <1>4, <1>5, <1>2 DEF Samples
<1>7. DOMAIN w = DOMAIN v \cup {k}
  BY <1>2
<1>8. \A j : j \in DOMAIN w <=> \E i \in Named(new, n) : Measures!KeyOf(m, new[i].label) = j
  <2>1. \A j : j \in DOMAIN v <=> \E i \in Named(q, n) : Measures!KeyOf(m, q[i].label) = j
    BY <1>2 DEF Samples
  <2> QED BY <1>1, <1>4, <1>7, <2>1
<1>9. ASSUME NEW j \in DOMAIN v, j # k
      PROVE  w[j] \in SampleSet(m) /\ Tells(w[j], new, m, n, j)
  <2>1. PICK s : s = v[j]
    OBVIOUS
  <2>2. s \in SampleSet(m) /\ Tells(s, q, m, n, j) /\ w[j] = s
    BY <1>9, <1>2, <2>1 DEF Samples
  <2>3. IndicesOf(new, m, n, j) = IndicesOf(q, m, n, j)
    BY <1>1, <1>3, <1>9, CountsApart
  <2>4. Tells(s, new, m, n, j)
    BY <1>3, <2>2, <2>3, TellsOn
  <2> QED BY <2>2, <2>4
<1>10. PICK s, t : s = Measures!SampleOf(v, k, m) /\ t = Measures!Changed(s, c.method, c.amount)
  OBVIOUS
<1>11. PICK T : T = IndicesOf(q, m, n, k)
  OBVIOUS
<1>12. T \in SUBSET (1 .. Len(q))
  BY <1>11 DEF IndicesOf
<1>13. s \in SampleSet(m) /\ Knows(s, q, m, T)
  <2>1. CASE k \in DOMAIN v
    <3>1. s = v[k]
      BY <1>10, <2>1 DEF Measures!SampleOf
    <3> QED BY <1>11, <1>2, <2>1, <3>1 DEF Samples, Tells
  <2>2. CASE k \notin DOMAIN v
    <3>1. s = Measures!Zero(m)
      BY <1>10, <2>2 DEF Measures!SampleOf
    <3>2. \A i \in Named(q, n) : Measures!KeyOf(m, q[i].label) # k
      BY <1>2, <2>2 DEF Samples
    <3>3. T = {}
      BY <1>11, <3>2 DEF IndicesOf, Named
    <3> QED BY <3>1, <3>3, ZeroKnows
  <2> QED BY <2>1, <2>2
<1>14. IndicesOf(new, m, n, k) = IF c.method = "set" THEN {l + 1} ELSE T \cup {l + 1}
  <2>1. IndicesOf(Append(q, c), m, n, k) =
          IF c.method = "set" THEN {Len(q) + 1} ELSE IndicesOf(q, m, n, k) \cup {Len(q) + 1}
    BY <1>1, CountsGrow
  <2> QED BY <1>3, <1>11, <2>1
<1>15. t \in SampleSet(m)
  <2>1. c.amount \in AmountSet
    BY CallIs
  <2>2. PICK x, method : x = c.amount /\ method = c.method
    OBVIOUS
  <2>3. /\ x \in AmountSet /\ method \in {"inc", "dec", "set", "observe"}
        /\ t = Measures!Changed(s, method, x)
    BY <1>5, <1>10, <2>1, <2>2
  <2> QED BY <1>13, <2>3, ChangedIs
<1>16. Knows(t, new, m, IndicesOf(new, m, n, k))
  <2>1. CASE c.method = "set"
    <3>1. m.kind # "histogram"
      BY <1>5, <2>1
    <3> QED BY <1>3, <1>10, <1>13, <1>14, <2>1, <3>1, KnowsAnew
  <2>2. CASE c.method # "set"
    <3>1. m.kind = "histogram" => c.method = "observe"
      BY <1>5
    <3>2. Knows(t, Append(q, c), m, T \cup {Len(q) + 1})
      BY <1>10, <1>12, <1>13, <2>2, <3>1, KnowsMore
    <3> QED BY <1>3, <1>14, <2>2, <3>2
  <2> QED BY <2>1, <2>2
<1>17. w[k] = t /\ Tells(t, new, m, n, k)
  BY <1>10, <1>14, <1>16, <1>2 DEF Tells
<1>18. Samples(w, new, m, n)
  <2>1. \A j \in DOMAIN w : w[j] \in SampleSet(m) /\ Tells(w[j], new, m, n, j)
    BY <1>7, <1>9, <1>15, <1>17
  <2> QED BY <1>5, <1>6, <1>8, <2>1 DEF Samples
<1> QED BY <1>1, <1>3, <1>18

LEMMA MetricsInit ==
  ASSUME Measures!Init
  PROVE  MetricsInv
<1>1. /\ metric = [n \in MetricNames |-> Measures!NotThere] /\ values = [n \in MetricNames |-> <<>>]
      /\ recorded = <<>> /\ scraped = "never"
  BY DEF Measures!Init
<1>2. MetricTypes
  <2>1. recorded \in Seq(CallSet)
    BY <1>1, EmptySeq
  <2> QED BY <1>1, <2>1 DEF MetricTypes, MetricSet
<1>3. ASSUME NEW n \in MetricNames
      PROVE  Samples(values[n], recorded, metric[n], n)
  <2>1. values[n] = <<>> /\ Named(recorded, n) = {} /\ metric[n] = Measures!NotThere /\ metric[n].kind = "none"
    BY <1>1 DEF Named, Measures!NotThere
  <2> QED BY <2>1 DEF Samples
<1> QED BY <1>1, <1>2, <1>3 DEF MetricsInv

LEMMA MetricsRecord ==
  ASSUME MetricsInv, NEW n \in MetricNames, NEW a \in Measures!Asked, NEW x \in MetricAmounts,
         NEW label \in MetricLabels, NEW method \in Measures!Methods(a.kind),
         Measures!Record(n, a, method, x, label)
  PROVE  MetricsInv'
<1> USE DEF MetricsInv
<1>1. PICK m, s, c : /\ m = Measures!GetOrCreate(n, a).found /\ s = Measures!GetOrCreate(n, a).samples
                     /\ c = [name |-> n, method |-> method, amount |-> x, label |-> label]
  OBVIOUS
<1>2. /\ metric' = [metric EXCEPT ![n] = m] /\ scraped' = scraped
      /\ \/ values' = [values EXCEPT ![n] = s] /\ recorded' = recorded
         \/ /\ m.kind = a.kind /\ recorded' = Append(recorded, c)
            /\ values' = [values EXCEPT ![n] = After(s, m, c)]
  BY <1>1 DEF Measures!Record, After
<1>3. m \in Measures!Asked /\ Samples(s, recorded, m, n)
  <2>1. CASE metric[n] = Measures!NotThere
    <3>1. m = a /\ s = <<>>
      BY <1>1, <2>1 DEF Measures!GetOrCreate
    <3>2. Samples(values[n], recorded, Measures!NotThere, n)
      BY <2>1
    <3> QED BY <3>1, <3>2, SamplesBegin
  <2>2. CASE metric[n] # Measures!NotThere
    <3>1. m = metric[n] /\ s = values[n]
      BY <1>1, <2>2 DEF Measures!GetOrCreate
    <3> QED BY <2>2, <3>1 DEF MetricTypes, MetricSet
  <2> QED BY <2>1, <2>2
<1>4. c \in CallSet /\ c.name = n /\ c.method = method
  <2>1. method \in {"inc", "dec", "set", "observe"} /\ x \in AmountSet
    BY AskedIs, MetricsAssumption DEF AmountSet
  <2> QED BY <1>1, <2>1 DEF CallSet
<1>5. /\ metric' = [k \in MetricNames |-> metric'[k]] /\ \A k \in MetricNames : metric'[k] \in MetricSet
      /\ metric'[n] = m /\ \A k \in MetricNames : k # n => metric'[k] = metric[k]
  BY <1>2, <1>3 DEF MetricTypes, MetricSet
<1>6. recorded \in Seq(CallSet)
  BY DEF MetricTypes
<1>7. CASE values' = [values EXCEPT ![n] = s] /\ recorded' = recorded
  <2>1. /\ values' = [k \in MetricNames |-> values'[k]] /\ values'[n] = s
        /\ \A k \in MetricNames : k # n => values'[k] = values[k]
    BY <1>7 DEF MetricTypes
  <2>2. MetricTypes'
    BY <1>5, <1>6, <1>7, <2>1 DEF MetricTypes
  <2>3. \A k \in MetricNames : Samples(values'[k], recorded', metric'[k], k)
    BY <1>3, <1>5, <1>7, <2>1
  <2> QED BY <1>2, <1>7, <2>2, <2>3
<1>8. CASE /\ m.kind = a.kind /\ recorded' = Append(recorded, c)
           /\ values' = [values EXCEPT ![n] = After(s, m, c)]
  <2>1. /\ values' = [k \in MetricNames |-> values'[k]] /\ values'[n] = After(s, m, c)
        /\ \A k \in MetricNames : k # n => values'[k] = values[k]
    BY <1>8 DEF MetricTypes
  <2>2. MetricTypes'
    <3>1. recorded' \in Seq(CallSet)
      BY <1>4, <1>6, <1>8, AppendProperties
    <3> QED BY <1>5, <2>1, <3>1 DEF MetricTypes
  <2>3. Samples(After(s, m, c), Append(recorded, c), m, n)
    <3>1. PICK q : q = recorded
      OBVIOUS
    <3>2. Samples(s, q, m, c.name) /\ c.method \in Measures!Methods(m.kind) /\ q \in Seq(CallSet)
      BY <1>3, <1>4, <1>6, <1>8, <3>1
    <3>3. Samples(After(s, m, c), Append(q, c), m, c.name)
      BY <1>3, <1>4, <3>2, SamplesGrow
    <3> QED BY <1>4, <3>1, <3>3
  <2>4. ASSUME NEW k \in MetricNames, k # n
        PROVE  Samples(values[k], Append(recorded, c), metric[k], k)
    <3>1. PICK q, v, o : q = recorded /\ v = values[k] /\ o = metric[k]
      OBVIOUS
    <3>2. Samples(v, q, o, k) /\ q \in Seq(CallSet) /\ c.name # k
      BY <1>4, <1>6, <2>4, <3>1
    <3>3. Samples(v, Append(q, c), o, k)
      BY <1>4, <3>2, SamplesApart
    <3> QED BY <3>1, <3>3
  <2>5. \A k \in MetricNames : Samples(values'[k], recorded', metric'[k], k)
    BY <1>5, <1>8, <2>1, <2>3, <2>4
  <2>6. scraped' = "crashed" => \E i \in DOMAIN recorded' : recorded'[i].amount = NotFinite
    <3>1. \A i \in DOMAIN recorded : i \in DOMAIN recorded' /\ recorded'[i] = recorded[i]
      <4>1. \A i \in 1 .. Len(recorded) : i \in 1 .. Len(recorded) + 1
        BY <1>6
      <4> QED BY <1>4, <1>6, <1>8, <4>1, AppendProperties
    <3> QED BY <1>2, <3>1
  <2> QED BY <2>2, <2>5, <2>6
<1> QED BY <1>2, <1>7, <1>8

(* A sample that is not finite has been told of a call that was not.       *)
LEMMA MetricsScrape ==
  ASSUME MetricsInv, Measures!Scrape
  PROVE  MetricsInv'
<1> USE DEF MetricsInv
<1>1. UNCHANGED <<metric, values, recorded>> /\ scraped' = IF Measures!Renders THEN "answered" ELSE "crashed"
  BY DEF Measures!Scrape
<1>2. ASSUME ~Measures!Renders
      PROVE  \E i \in DOMAIN recorded : recorded[i].amount = NotFinite
  <2>6. PICK n \in MetricNames : \E k \in DOMAIN values[n] : values[n][k].sum = NotFinite
    BY <1>2 DEF Measures!Renders
  <2>1. PICK k \in DOMAIN values[n] : values[n][k].sum = NotFinite
    BY <2>6
  <2>2. PICK q, s, m, T : q = recorded /\ s = values[n][k] /\ m = metric[n] /\ T = IndicesOf(recorded, metric[n], n, k)
    OBVIOUS
  <2>3. Knows(s, q, m, T)
    BY <2>2 DEF Samples, Tells
  <2>4. q \in Seq(CallSet) /\ T \in SUBSET (1 .. Len(q)) /\ DOMAIN q = 1 .. Len(q)
    BY <2>2 DEF MetricTypes, IndicesOf
  <2>5. ASSUME Finite(q, T)
        PROVE  FALSE
    <3>1. \A i \in T : q[i].amount \in Int
      BY <2>4, <2>5, CallIs DEF Finite
    <3>2. TotalOf(q, T) \in Int
      <4>1. ASSUME T = {}
            PROVE  TotalOf(q, T) = 0
        <5>1. Len(q) \in Nat
          BY <2>4
        <5> QED BY <4>1, <5>1, TotalOfNothing
      <4>2. ASSUME NEW i \in T
            PROVE  TotalOf(q, T) \in Int
        <5>1. q[i] \in CallSet
          BY <2>4, CallIs
        <5>2. PICK c \in CallSet : TRUE
          BY <5>1
        <5> QED BY <2>4, <3>1, TotalGrows
      <4> QED BY <4>1, <4>2
    <3> QED BY <2>1, <2>2, <2>3, <2>5, <3>2, MetricsAssumption DEF Knows
  <2> QED BY <2>2, <2>4, <2>5 DEF Finite
<1>3. MetricTypes'
  BY <1>1 DEF MetricTypes
<1> QED BY <1>1, <1>2, <1>3

LEMMA MetricsNext ==
  ASSUME MetricsInv, [Measures!Next]_(Measures!vars)
  PROVE  MetricsInv'
<1>1. CASE UNCHANGED Measures!vars
  <2>1. UNCHANGED <<metric, values, recorded, scraped>>
    BY <1>1 DEF Measures!vars
  <2> QED BY <2>1 DEF MetricsInv, MetricTypes
<1> QED BY <1>1, MetricsRecord, MetricsScrape DEF Measures!Next

LEMMA MetricsHold ==
  ASSUME MetricsInv
  PROVE  Measures!SamplesTellCalls /\ Measures!ScrapesFailForAReason
<1>1. ASSUME NEW n \in MetricNames, NEW k \in DOMAIN values[n]
      PROVE  LET those == Measures!CountFor(n, k)
                 s == values[n][k]
                 finite == \A i \in those : recorded[i].amount # NotFinite
             IN  /\ those # {}
                 /\ s.sum = IF finite THEN Measures!Total(those) ELSE NotFinite
                 /\ metric[n].kind = "histogram" =>
                      /\ s.count = Measures!Cardinality(those)
                      /\ \A b \in metric[n].bounds : s.buckets[b] =
                           Measures!Cardinality({i \in those : /\ recorded[i].amount # NotFinite
                                                                 /\ recorded[i].amount <= b})
  <2>1. Tells(values[n][k], recorded, metric[n], n, k)
    BY DEF MetricsInv, Samples
  <2> QED BY <2>1, SameTotals, IndicesTold, SameNumbers DEF Tells, Knows, Finite, UpToBound
<1>2. Measures!SamplesTellCalls
  BY <1>1 DEF Measures!SamplesTellCalls
<1> QED BY <1>2 DEF MetricsInv, Measures!ScrapesFailForAReason

LEMMA MetricsSteps ==
  ASSUME view = "metrics", [RequestNext]_requestVars
  PROVE  view' = "metrics" /\ [Measures!Next]_(Measures!vars)
BY DEF RequestNext, requestVars, metricVars, Measures!vars

(***************************************************************************)
(* Responses                                                               *)
(***************************************************************************)

ReplyTypes ==
  /\ outermost \in BOOLEAN
  /\ counts \in [{"blanket:", "ip:"} -> Nat]
  /\ phase \in [Arrivals -> Reply!Stages]
  /\ DOMAIN asks = Arrivals /\ DOMAIN result = Arrivals /\ DOMAIN content = Arrivals
  /\ DOMAIN sent = Arrivals
  /\ passed \in [Reply!Limiters -> SUBSET Arrivals]
  /\ \A l \in Reply!Limiters : IsFiniteSet(passed[l])

(* Who is still to be counted, and what is still to be sent.               *)
NotYet ==
  \A r \in Arrivals :
    /\ phase[r] = "new" => r \notin passed["blanket"]
    /\ phase[r] \in {"new", "inside"} => r \notin passed["route"]
    /\ phase[r] # "over" => sent[r] = <<>>

(* What has been sent, of what its request read and was limited by.        *)
Told(r) ==
  /\ Len(sent[r]) = 2 /\ sent[r][1].type = "start" /\ sent[r][2].type = "body"
  /\ sent[r][1].status = 304 => asks[r] = content[r]
  /\ sent[r][1].status = 200 => sent[r][2].of = content[r]
  /\ \/ sent[r][1].limits = result[r]
     \/ sent[r][1].status = 500
     \/ sent[r][1].status = 304 /\ outermost

BudgetsKept == \A l \in Reply!Limiters : counts[Reply!Key(l)] = Cardinality(passed[l])

ReplyInv ==
  /\ ReplyTypes /\ NotYet
  /\ BudgetsKept
  /\ \A r \in Arrivals : sent[r] # <<>> => Told(r)

LEMMA ReplyInit ==
  ASSUME Reply!Init
  PROVE  ReplyInv
<1>1. /\ counts = [k \in {"blanket:", "ip:"} |-> 0] /\ passed = [l \in Reply!Limiters |-> {}]
      /\ phase = [r \in Arrivals |-> "new"] /\ sent = [r \in Arrivals |-> <<>>]
      /\ asks = [r \in Arrivals |-> Reply!Empty] /\ result = [r \in Arrivals |-> "none"]
      /\ content = [r \in Arrivals |-> Reply!Empty] /\ outermost \in BOOLEAN
  BY DEF Reply!Init
<1>2. ReplyTypes
  BY <1>1, FS_EmptySet DEF ReplyTypes, Reply!Stages
<1>3. NotYet
  BY <1>1 DEF NotYet, Reply!Limiters
<1>4. BudgetsKept
  BY <1>1, FS_EmptySet DEF BudgetsKept, Reply!Key
<1> QED BY <1>1, <1>2, <1>3, <1>4 DEF ReplyInv

(* A limiter's hits are those that it lets through.                        *)
LEMMA HitCounts ==
  ASSUME ReplyTypes, BudgetsKept, NEW r \in Arrivals, NEW l \in Reply!Limiters,
         Reply!Hit(r, l), r \notin passed[l]
  PROVE  /\ BudgetsKept'
         /\ counts' \in [{"blanket:", "ip:"} -> Nat]
         /\ passed' \in [Reply!Limiters -> SUBSET Arrivals]
         /\ \A m \in Reply!Limiters : IsFiniteSet(passed'[m])
         /\ \A m \in Reply!Limiters : \A q \in Arrivals :
              q \in passed'[m] => q \in passed[m] \/ (q = r /\ m = l)
<1>1. CASE UNCHANGED <<counts, passed>>
  BY <1>1 DEF ReplyTypes, BudgetsKept
<1>2. CASE /\ counts' = [counts EXCEPT ![Reply!Key(l)] = @ + 1]
           /\ passed' = [passed EXCEPT ![l] = @ \cup {r}]
  <2>1. /\ passed[l] \in SUBSET Arrivals /\ IsFiniteSet(passed[l])
        /\ passed'[l] = passed[l] \cup {r} /\ \A m \in Reply!Limiters \ {l} : passed'[m] = passed[m]
    BY <1>2 DEF ReplyTypes
  <2>2. IsFiniteSet(passed'[l]) /\ Cardinality(passed'[l]) = Cardinality(passed[l]) + 1
    BY <2>1, FS_AddElement
  <2>3. /\ Reply!Key(l) \in {"blanket:", "ip:"}
        /\ \A m \in Reply!Limiters \ {l} : Reply!Key(m) # Reply!Key(l)
        /\ \A m \in Reply!Limiters : Reply!Key(m) \in {"blanket:", "ip:"}
    BY DEF Reply!Key, Reply!Limiters
  <2>4. /\ counts' \in [{"blanket:", "ip:"} -> Nat]
        /\ counts'[Reply!Key(l)] = counts[Reply!Key(l)] + 1
        /\ \A m \in Reply!Limiters \ {l} : counts'[Reply!Key(m)] = counts[Reply!Key(m)]
    BY <1>2, <2>3 DEF ReplyTypes
  <2>5. \A m \in Reply!Limiters : counts[Reply!Key(m)] = Cardinality(passed[m])
    BY DEF BudgetsKept
  <2>6. BudgetsKept'
    BY <2>1, <2>2, <2>4, <2>5 DEF BudgetsKept, Reply!Key
  <2>7. passed' \in [Reply!Limiters -> SUBSET Arrivals]
    BY <1>2 DEF ReplyTypes
  <2> QED BY <2>1, <2>2, <2>4, <2>6, <2>7 DEF ReplyTypes
<1> QED BY <1>1, <1>2 DEF Reply!Hit

(* A response leaves, or none does.                                        *)
LEMMA Replied ==
  ASSUME ReplyInv, NEW r \in Arrivals, ReplyTypes', BudgetsKept', NotYet',
         phase[r] # "over", outermost' = outermost,
         \A q \in Arrivals \ {r} : /\ asks'[q] = asks[q] /\ result'[q] = result[q]
                                   /\ content'[q] = content[q] /\ sent'[q] = sent[q],
         sent'[r] = <<>> \/ Told(r)'
  PROVE  ReplyInv'
BY DEF ReplyInv, Told

LEMMA ArriveKeeps ==
  ASSUME ReplyInv, NEW r \in Arrivals, Reply!Arrive(r)
  PROVE  ReplyInv'
<1>1. ReplyTypes /\ NotYet /\ BudgetsKept /\ "blanket" \in Reply!Limiters /\ "route" \in Reply!Limiters
  BY DEF ReplyInv, Reply!Limiters
<1>2. /\ phase[r] = "new" /\ Reply!Hit(r, "blanket") /\ asks' = [asks EXCEPT ![r] = copy]
      /\ result' = [result EXCEPT ![r] = "blanket"]
      /\ UNCHANGED <<outermost, content>>
      /\ \/ phase' = [phase EXCEPT ![r] = "inside"] /\ sent' = sent
         \/ /\ sent' = [sent EXCEPT ![r] = <<Reply!Message(429, "blanket"), Reply!Body(Reply!Empty)>>]
            /\ phase' = [phase EXCEPT ![r] = "over"]
  BY DEF Reply!Arrive, Reply!Leave
<1>3. r \notin passed["blanket"] /\ r \notin passed["route"] /\ sent[r] = <<>>
  BY <1>1, <1>2 DEF NotYet
<1>4. /\ BudgetsKept' /\ counts' \in [{"blanket:", "ip:"} -> Nat]
      /\ passed' \in [Reply!Limiters -> SUBSET Arrivals]
      /\ \A m \in Reply!Limiters : IsFiniteSet(passed'[m])
      /\ \A m \in Reply!Limiters : \A q \in Arrivals :
           q \in passed'[m] => q \in passed[m] \/ (q = r /\ m = "blanket")
  BY <1>1, <1>2, <1>3, HitCounts
<1>5. ReplyTypes'
  BY <1>1, <1>2, <1>4 DEF ReplyTypes, Reply!Stages
<1>6. NotYet'
  BY <1>1, <1>2, <1>3, <1>4 DEF NotYet, ReplyTypes
<1>7. sent'[r] = <<>> \/ Told(r)'
  BY <1>1, <1>2, <1>3 DEF Told, ReplyTypes, Reply!Message, Reply!Body
<1> QED BY <1>1, <1>2, <1>4, <1>5, <1>6, <1>7, Replied DEF ReplyTypes

LEMMA HandleKeeps ==
  ASSUME ReplyInv, NEW r \in Arrivals, Reply!Handle(r)
  PROVE  ReplyInv'
<1>1. ReplyTypes /\ NotYet /\ BudgetsKept /\ "blanket" \in Reply!Limiters /\ "route" \in Reply!Limiters
  BY DEF ReplyInv, Reply!Limiters
<1>2. /\ phase[r] = "inside" /\ UNCHANGED <<outermost, asks>>
      /\ \/ Reply!Hit(r, "route") /\ result' = [result EXCEPT ![r] = "route"]
         \/ UNCHANGED <<counts, passed, result>>
      /\ \/ /\ sent' = [sent EXCEPT ![r] = <<Reply!Message(429, "route"), Reply!Body(Reply!Empty)>>]
            /\ phase' = [phase EXCEPT ![r] = "over"] /\ content' = content
            /\ result' = [result EXCEPT ![r] = "route"]
         \/ /\ phase' = [phase EXCEPT ![r] = "running"]
            /\ content' = [content EXCEPT ![r] = version] /\ sent' = sent
  BY DEF Reply!Handle, Reply!Leave
<1>3. r \notin passed["route"] /\ sent[r] = <<>>
  BY <1>1, <1>2 DEF NotYet
<1>4. /\ BudgetsKept' /\ counts' \in [{"blanket:", "ip:"} -> Nat]
      /\ passed' \in [Reply!Limiters -> SUBSET Arrivals]
      /\ \A m \in Reply!Limiters : IsFiniteSet(passed'[m])
      /\ \A m \in Reply!Limiters : \A q \in Arrivals :
           q \in passed'[m] => q \in passed[m] \/ (q = r /\ m = "route")
  <2>1. CASE Reply!Hit(r, "route")
    BY <1>1, <1>3, <2>1, HitCounts
  <2>2. CASE UNCHANGED <<counts, passed>>
    BY <1>1, <2>2 DEF ReplyTypes, BudgetsKept
  <2> QED BY <1>2, <2>1, <2>2
<1>5. ReplyTypes'
  BY <1>1, <1>2, <1>4 DEF ReplyTypes, Reply!Stages
<1>6. NotYet'
  BY <1>1, <1>2, <1>3, <1>4 DEF NotYet, ReplyTypes
<1>7. sent'[r] = <<>> \/ Told(r)'
  BY <1>1, <1>2, <1>3 DEF Told, ReplyTypes, Reply!Message, Reply!Body
<1>8. \A q \in Arrivals \ {r} : /\ result'[q] = result[q] /\ content'[q] = content[q] /\ sent'[q] = sent[q]
  BY <1>1, <1>2 DEF ReplyTypes
<1> QED BY <1>1, <1>2, <1>4, <1>5, <1>6, <1>7, <1>8, Replied

(* ETagMiddleware lets nothing go before it has all.                       *)
LEMMA AnswerKeeps ==
  ASSUME ReplyInv, NEW r \in Arrivals, Reply!Answer(r) \/ Reply!Raise(r)
  PROVE  ReplyInv'
<1>1. ReplyTypes /\ NotYet /\ BudgetsKept
  BY DEF ReplyInv
<1>2. /\ phase[r] = "running" /\ UNCHANGED <<outermost, asks, counts, passed, result, content>>
      /\ \/ UNCHANGED <<sent, phase>>
         \/ /\ sent' = [sent EXCEPT ![r] = Reply!Whole(r)]
            /\ phase' = [phase EXCEPT ![r] = "over"]
         \/ /\ sent' = [sent EXCEPT ![r] = <<Reply!Message(500, "none"), Reply!Body(Reply!Empty)>>]
            /\ phase' = [phase EXCEPT ![r] = "over"]
  BY DEF Reply!Answer, Reply!Raise, Reply!Leave
<1>3. ReplyTypes' /\ BudgetsKept'
  BY <1>1, <1>2 DEF ReplyTypes, BudgetsKept, Reply!Stages
<1>4. NotYet' /\ \A q \in Arrivals \ {r} : sent'[q] = sent[q]
  BY <1>1, <1>2 DEF NotYet, ReplyTypes
<1>5. sent'[r] = <<>> \/ Told(r)'
  <2>1. CASE UNCHANGED sent
    BY <1>1, <1>2, <2>1 DEF NotYet
  <2>2. CASE sent' = [sent EXCEPT ![r] = <<Reply!Message(500, "none"), Reply!Body(Reply!Empty)>>]
    BY <1>1, <2>2 DEF Told, ReplyTypes, Reply!Message, Reply!Body
  <2>3. CASE sent' = [sent EXCEPT ![r] = Reply!Whole(r)]
    <3>1. sent'[r] = Reply!Whole(r)
      BY <1>1, <2>3 DEF ReplyTypes
    <3>2. CASE asks[r] = content[r] /\ Reply!Whole(r) = Reply!NotModified(r)
      <4>1. PICK limits : (limits = result[r] \/ outermost)
              /\ Reply!NotModified(r) = <<Reply!Message(304, limits), Reply!Body(Reply!Empty)>>
        BY DEF Reply!NotModified, Reply!Stamped
      <4> QED BY <1>2, <3>1, <3>2, <4>1 DEF Told, Reply!Message, Reply!Body
    <3>3. CASE Reply!Whole(r) = <<Reply!Message(200, result[r]), Reply!Body(content[r])>>
      BY <1>2, <3>1, <3>3 DEF Told, Reply!Message, Reply!Body
    <3> QED BY <3>2, <3>3 DEF Reply!Whole, Reply!Tag, Reply!Stamped
  <2> QED BY <1>2, <2>1, <2>2, <2>3
<1> QED BY <1>1, <1>2, <1>3, <1>4, <1>5, Replied

LEMMA ReplyNext ==
  ASSUME ReplyInv, [Reply!Next]_(Reply!vars)
  PROVE  ReplyInv'
<1>1. CASE Reply!Write \/ UNCHANGED Reply!vars
  <2>1. UNCHANGED <<outermost, counts, phase, asks, result, content, sent, passed>>
    BY <1>1 DEF Reply!Write, Reply!vars
  <2> QED BY <2>1 DEF ReplyInv, ReplyTypes, NotYet, Told, BudgetsKept
<1>2. ASSUME NEW l \in Reply!Limiters, Reply!WindowEnds(l)  PROVE ReplyInv'
  <2>1. /\ UNCHANGED <<outermost, phase, asks, result, content, sent>>
        /\ counts' = [counts EXCEPT ![Reply!Key(l)] = 0] /\ passed' = [passed EXCEPT ![l] = {}]
    BY <1>2 DEF Reply!WindowEnds
  <2>2. /\ Reply!Key(l) \in {"blanket:", "ip:"}
        /\ \A m \in Reply!Limiters \ {l} : Reply!Key(m) # Reply!Key(l)
        /\ \A m \in Reply!Limiters : Reply!Key(m) \in {"blanket:", "ip:"}
    BY DEF Reply!Key, Reply!Limiters
  <2>3. /\ passed'[l] = {} /\ \A m \in Reply!Limiters \ {l} : passed'[m] = passed[m]
        /\ counts'[Reply!Key(l)] = 0
        /\ \A m \in Reply!Limiters \ {l} : counts'[Reply!Key(m)] = counts[Reply!Key(m)]
    BY <2>1, <2>2 DEF ReplyInv, ReplyTypes
  <2>4. ReplyTypes'
    BY <2>1, <2>2, <2>3, FS_EmptySet DEF ReplyInv, ReplyTypes
  <2>5. NotYet'
    BY <2>1, <2>3 DEF ReplyInv, NotYet, Reply!Limiters
  <2>6. BudgetsKept'
    BY <2>3, FS_EmptySet DEF ReplyInv, BudgetsKept, Reply!Key
  <2>7. \A r \in Arrivals : Told(r)' = Told(r)
    BY <2>1 DEF Told
  <2> QED BY <2>1, <2>4, <2>5, <2>6, <2>7 DEF ReplyInv
<1> QED BY <1>1, <1>2, ArriveKeeps, HandleKeeps, AnswerKeeps DEF Reply!Next

LEMMA ReplyHolds ==
  ASSUME ReplyInv
  PROVE  Reply!WholeAndTrue /\ Reply!BudgetsApart /\ Reply!LimitsAreTold
<1>1. \A S : Reply!Cardinality(S) = Cardinality(S)
  BY DEF Cardinality, Reply!Cardinality
<1>2. Reply!BudgetsApart
  BY <1>1 DEF ReplyInv, BudgetsKept, Reply!BudgetsApart
<1> QED BY <1>2 DEF ReplyInv, Told, Reply!WholeAndTrue, Reply!LimitsAreTold

LEMMA ReplySteps ==
  ASSUME view = "responses", [RequestNext]_requestVars
  PROVE  view' = "responses" /\ [Reply!Next]_(Reply!vars)
BY DEF RequestNext, requestVars, replyVars, Reply!vars

(***************************************************************************)
(* Localization                                                            *)
(***************************************************************************)

(* The entries that go before the i-th.                                    *)
Ahead(h, i) == {k \in DOMAIN h : Texts!Before(h, k, i)}

(* The sort by quality is stable and loses no entry: places are numbers,   *)
(* in the order of the entries, and each is some entry's.                  *)
LEMMA Places ==
  ASSUME NEW h \in Headers
  PROVE  /\ \A i \in DOMAIN h : Texts!Place(h, i) \in DOMAIN h
         /\ \A i, k \in DOMAIN h : Texts!Before(h, i, k) <=> Texts!Place(h, i) < Texts!Place(h, k)
         /\ \A i, k \in DOMAIN h : i = k \/ Texts!Before(h, i, k) \/ Texts!Before(h, k, i)
         /\ \A n \in DOMAIN h : \E i \in DOMAIN h : Texts!Place(h, i) = n
<1>1. /\ Len(h) \in Nat /\ DOMAIN h = 1 .. Len(h) /\ \A i \in DOMAIN h : h[i].q \in Int /\ i \in Int
      /\ IsFiniteSet(DOMAIN h) /\ Cardinality(DOMAIN h) = Len(h)
  <2>1. Len(h) \in Nat /\ DOMAIN h = 1 .. Len(h) /\ \A i \in DOMAIN h : h[i].q \in Int
    BY TextsAssumption
  <2>2. IsFiniteSet(1 .. Len(h)) /\ Cardinality(1 .. Len(h)) = Len(h)
    <3>1. 1 \in Int /\ Len(h) \in Int
      BY <2>1
    <3>2. IsFiniteSet(1 .. Len(h)) /\ Cardinality(1 .. Len(h)) = IF 1 > Len(h) THEN 0 ELSE Len(h) - 1 + 1
      BY <3>1, FS_Interval
    <3> QED BY <2>1, <3>2
  <2> QED BY <2>1, <2>2
<1>2. \A S : Texts!Cardinality(S) = Cardinality(S)
  BY DEF Cardinality, Texts!Cardinality
<1>3. \A i \in DOMAIN h : /\ Texts!Place(h, i) = 1 + Cardinality(Ahead(h, i))
                          /\ IsFiniteSet(Ahead(h, i)) /\ Cardinality(Ahead(h, i)) \in Nat
                          /\ Ahead(h, i) \in SUBSET DOMAIN h
  <2> TAKE i \in DOMAIN h
  <2>1. Ahead(h, i) \in SUBSET DOMAIN h /\ Texts!Place(h, i) = 1 + Cardinality(Ahead(h, i))
    BY <1>2 DEF Ahead, Texts!Place
  <2>2. IsFiniteSet(Ahead(h, i)) /\ Cardinality(Ahead(h, i)) \in Nat
    BY <1>1, <2>1, FS_Subset, FS_CardinalityType
  <2> QED BY <2>1, <2>2
<1>4. /\ \A i \in DOMAIN h : ~ Texts!Before(h, i, i)
      /\ \A i, k, m \in DOMAIN h : Texts!Before(h, i, k) /\ Texts!Before(h, k, m) => Texts!Before(h, i, m)
      /\ \A i, k \in DOMAIN h : i = k \/ Texts!Before(h, i, k) \/ Texts!Before(h, k, i)
  BY <1>1 DEF Texts!Before
<1>5. ASSUME NEW i \in DOMAIN h, NEW k \in DOMAIN h, Texts!Before(h, i, k)
      PROVE  Texts!Place(h, i) < Texts!Place(h, k)
  <2>1. Ahead(h, i) \cup {i} \in SUBSET Ahead(h, k) /\ i \notin Ahead(h, i)
    BY <1>4, <1>5 DEF Ahead
  <2>2. Cardinality(Ahead(h, i) \cup {i}) = Cardinality(Ahead(h, i)) + 1
    BY <1>3, <2>1, FS_AddElement
  <2>3. Cardinality(Ahead(h, i) \cup {i}) <= Cardinality(Ahead(h, k))
    BY <1>3, <2>1, FS_Subset
  <2> QED BY <1>3, <2>2, <2>3
<1>6. ASSUME NEW i \in DOMAIN h  PROVE Texts!Place(h, i) \in DOMAIN h
  <2>1. i \notin Ahead(h, i) /\ Ahead(h, i) \cup {i} \in SUBSET DOMAIN h
    BY <1>3, <1>4 DEF Ahead
  <2>2. Cardinality(Ahead(h, i) \cup {i}) = Cardinality(Ahead(h, i)) + 1
    BY <1>3, <2>1, FS_AddElement
  <2>3. Cardinality(Ahead(h, i) \cup {i}) <= Len(h)
    BY <1>1, <2>1, FS_Subset
  <2> QED BY <1>1, <1>3, <2>2, <2>3
<1>7. \A i, k \in DOMAIN h : Texts!Before(h, i, k) <=> Texts!Place(h, i) < Texts!Place(h, k)
  <2> TAKE i, k \in DOMAIN h
  <2>1. Texts!Place(h, i) \in Nat /\ Texts!Place(h, k) \in Nat
    BY <1>3
  <2>2. CASE Texts!Before(h, i, k)
    BY <1>5, <2>2
  <2>3. CASE ~ Texts!Before(h, i, k)
    <3>1. i = k \/ Texts!Place(h, k) < Texts!Place(h, i)
      BY <1>4, <1>5, <2>3
    <3> QED BY <2>1, <2>3, <3>1
  <2> QED BY <2>2, <2>3
<1>8. ASSUME NEW n \in DOMAIN h  PROVE \E i \in DOMAIN h : Texts!Place(h, i) = n
  <2> DEFINE f == [i \in DOMAIN h |-> Texts!Place(h, i)]
             T == {f[i] : i \in DOMAIN h}
  <2>1. \A i, k \in DOMAIN h : f[i] = f[k] => i = k
    <3> TAKE i, k \in DOMAIN h
    <3>1. Texts!Place(h, i) \in Nat /\ Texts!Place(h, k) \in Nat
      BY <1>3
    <3> QED BY <1>4, <1>5, <3>1
  <2>2. f \in Bijection(DOMAIN h, T)
    <3>1. f \in [DOMAIN h -> T]
      OBVIOUS
    <3>2. \A y \in T : \E i \in DOMAIN h : f[i] = y
      OBVIOUS
    <3> HIDE DEF f, T
    <3> QED BY <2>1, <3>1, <3>2 DEF Bijection, Injection, Surjection, IsInjective
  <2>3. T \in SUBSET DOMAIN h
    BY <1>6
  <2> HIDE DEF f, T
  <2>4. Cardinality(T) = Cardinality(DOMAIN h)
    BY <1>1, <2>2, FS_Bijection DEF ExistsBijection
  <2>5. T = DOMAIN h
    BY <1>1, <2>3, <2>4, FS_Subset
  <2> QED BY <2>5 DEF T, f
<1> QED BY <1>4, <1>6, <1>7, <1>8

(* The sorted header is the header, each entry in its place.               *)
LEMMA SortedIs ==
  ASSUME NEW h \in Headers
  PROVE  /\ DOMAIN Texts!Sorted(h) = DOMAIN h
         /\ \A i \in DOMAIN h : Texts!Sorted(h)[Texts!Place(h, i)] = h[i]
<1>1. \A i, k \in DOMAIN h : Texts!Place(h, i) = Texts!Place(h, k) => i = k
  <2> TAKE i, k \in DOMAIN h
  <2> HAVE Texts!Place(h, i) = Texts!Place(h, k)
  <2>1. Texts!Place(h, i) \in Int
    BY Places, TextsAssumption
  <2>2. ~ Texts!Before(h, i, k) /\ ~ Texts!Before(h, k, i)
    BY <2>1, Places
  <2> QED BY <2>2, Places
<1>2. ASSUME NEW i \in DOMAIN h  PROVE Texts!Sorted(h)[Texts!Place(h, i)] = h[i]
  <2>1. PICK n \in DOMAIN h : n = Texts!Place(h, i)
    BY Places
  <2>2. Texts!Sorted(h)[n] = h[CHOOSE k \in DOMAIN h : Texts!Place(h, k) = n]
    BY DEF Texts!Sorted
  <2>3. (CHOOSE k \in DOMAIN h : Texts!Place(h, k) = n) = i
    <3>1. \A k \in DOMAIN h : Texts!Place(h, k) = n <=> k = i
      BY <1>1, <2>1
    <3> QED BY <3>1
  <2> QED BY <2>1, <2>2, <2>3
<1> QED BY <1>2 DEF Texts!Sorted

(* Two candidates for each entry, those of an earlier place first.         *)
LEMMA CandidatesAre ==
  ASSUME NEW h \in Headers
  PROVE  /\ DOMAIN Texts!Candidates(h) = 1 .. 2 * Len(h)
         /\ \A n \in 1 .. 2 * Len(h) :
              \E i \in DOMAIN h : /\ Texts!Place(h, i) = (n + 1) \div 2
                                  /\ Texts!Candidates(h)[n] \in {h[i].tag, BaseOf(h[i].tag)}
         /\ \A i \in DOMAIN h : \A l \in {h[i].tag, BaseOf(h[i].tag)} :
              \E n \in 1 .. 2 * Len(h) : /\ Texts!Place(h, i) = (n + 1) \div 2
                                         /\ Texts!Candidates(h)[n] = l
<1>1. Len(h) \in Nat /\ DOMAIN h = 1 .. Len(h)
  BY TextsAssumption
<1>2. \A n \in 1 .. 2 * Len(h) :
        Texts!Candidates(h)[n] = IF n % 2 = 1 THEN Texts!Sorted(h)[(n + 1) \div 2].tag
                                 ELSE BaseOf(Texts!Sorted(h)[(n + 1) \div 2].tag)
  BY DEF Texts!Candidates
<1>3. ASSUME NEW n \in 1 .. 2 * Len(h)
      PROVE  \E i \in DOMAIN h : /\ Texts!Place(h, i) = (n + 1) \div 2
                                 /\ Texts!Candidates(h)[n] \in {h[i].tag, BaseOf(h[i].tag)}
  <2>1. (n + 1) \div 2 \in DOMAIN h
    BY <1>1
  <2>2. PICK i \in DOMAIN h : Texts!Place(h, i) = (n + 1) \div 2
    BY <2>1, Places
  <2>3. Texts!Sorted(h)[(n + 1) \div 2] = h[i]
    BY <2>2, SortedIs
  <2> QED BY <1>2, <2>2, <2>3
<1>4. ASSUME NEW i \in DOMAIN h, NEW l \in {h[i].tag, BaseOf(h[i].tag)}
      PROVE  \E n \in 1 .. 2 * Len(h) : /\ Texts!Place(h, i) = (n + 1) \div 2
                                        /\ Texts!Candidates(h)[n] = l
  <2>1. PICK p \in 1 .. Len(h) : p = Texts!Place(h, i)
    BY <1>1, Places
  <2>2. Texts!Sorted(h)[p] = h[i]
    BY <2>1, SortedIs
  <2>3. /\ 2 * p - 1 \in 1 .. 2 * Len(h) /\ (2 * p - 1 + 1) \div 2 = p /\ (2 * p - 1) % 2 = 1
        /\ 2 * p \in 1 .. 2 * Len(h) /\ (2 * p + 1) \div 2 = p /\ (2 * p) % 2 # 1
    BY <1>1
  <2>4. Texts!Candidates(h)[2 * p - 1] = h[i].tag
    BY <1>2, <2>2, <2>3
  <2>5. Texts!Candidates(h)[2 * p] = BaseOf(h[i].tag)
    BY <1>2, <2>2, <2>3
  <2> QED BY <2>1, <2>3, <2>4, <2>5
<1> QED BY <1>3, <1>4 DEF Texts!Candidates

LEMMA FirstIsBest ==
  ASSUME NEW h \in Headers, NEW locales
  PROVE  LET wanted == {l \in locales : Texts!Wanted(h, l) # {}}
             chosen == Texts!FirstOf(h, locales)
         IN  IF wanted = {} THEN chosen = DefaultTag
             ELSE /\ chosen \in wanted
                  /\ \A l \in wanted : Texts!AtLeast(Texts!Wanted(h, chosen), Texts!Wanted(h, l))
<1> DEFINE wanted == {l \in locales : Texts!Wanted(h, l) # {}}
           chosen == Texts!FirstOf(h, locales)
           fit == {n \in 1 .. 2 * Len(h) : Texts!Candidates(h)[n] \in locales}
<1>1. chosen = IF fit = {} THEN DefaultTag
               ELSE Texts!Candidates(h)[CHOOSE n \in fit : \A k \in fit : n <= k]
  <2> DEFINE raw == {n \in DOMAIN Texts!Candidates(h) : Texts!Candidates(h)[n] \in locales}
  <2>1. raw = fit
    BY CandidatesAre
  <2>2. chosen = IF raw = {} THEN DefaultTag
                 ELSE Texts!Candidates(h)[CHOOSE n \in raw : \A k \in raw : n <= k]
    BY DEF Texts!FirstOf
  <2> HIDE DEF raw, fit, chosen
  <2> QED BY <2>1, <2>2
<1>2. \A l : \A q \in Texts!Wanted(h, l) :
        \E i \in DOMAIN h : q = h[i].q /\ l \in {h[i].tag, BaseOf(h[i].tag)}
  BY DEF Texts!Wanted
<1>3. \A i \in DOMAIN h : \A l \in {h[i].tag, BaseOf(h[i].tag)} : h[i].q \in Texts!Wanted(h, l)
  BY DEF Texts!Wanted
<1>4. ASSUME NEW l \in wanted, NEW q \in Texts!Wanted(h, l)
      PROVE  \E n \in fit, i \in DOMAIN h : q = h[i].q /\ Texts!Place(h, i) = (n + 1) \div 2
  <2>1. PICK i \in DOMAIN h : q = h[i].q /\ l \in {h[i].tag, BaseOf(h[i].tag)}
    BY <1>2
  <2>2. PICK n \in 1 .. 2 * Len(h) : /\ Texts!Place(h, i) = (n + 1) \div 2
                                     /\ Texts!Candidates(h)[n] = l
    BY <2>1, CandidatesAre
  <2>3. n \in fit
    BY <2>2
  <2> QED BY <2>1, <2>2, <2>3
<1>5. CASE fit = {}
  <2>1. wanted = {}
    BY <1>4, <1>5
  <2> QED BY <1>1, <1>5, <2>1
<1>6. CASE fit # {}
  <2>1. PICK n \in fit : \A k \in fit : n <= k
    <3>1. fit \in SUBSET Nat
      OBVIOUS
    <3> QED BY <1>6, <3>1, Least
  <2>2. (CHOOSE m \in fit : \A k \in fit : m <= k) = n
    <3>1. \A m \in fit : (\A k \in fit : m <= k) => m = n
      BY <2>1
    <3> QED BY <2>1, <3>1
  <2>3. chosen = Texts!Candidates(h)[n] /\ chosen \in locales
    BY <1>1, <1>6, <2>2
  <2>4. PICK i \in DOMAIN h : /\ Texts!Place(h, i) = (n + 1) \div 2
                              /\ Texts!Candidates(h)[n] \in {h[i].tag, BaseOf(h[i].tag)}
    BY CandidatesAre
  <2>5. h[i].q \in Texts!Wanted(h, chosen) /\ chosen \in wanted
    BY <1>3, <2>3, <2>4
  <2>6. ASSUME NEW l \in wanted, NEW q \in Texts!Wanted(h, l)  PROVE h[i].q >= q
    <3>1. PICK k \in fit, j \in DOMAIN h : q = h[j].q /\ Texts!Place(h, j) = (k + 1) \div 2
      BY <1>4, <2>6
    <3>2. (n + 1) \div 2 <= (k + 1) \div 2
      <4>1. n \in Nat /\ k \in Nat /\ n <= k
        BY <2>1
      <4> HIDE DEF fit
      <4> QED BY <4>1
    <3>3. h[i].q \in Int /\ h[j].q \in Int /\ Texts!Place(h, i) \in Int /\ Texts!Place(h, j) \in Int
      <4>1. DOMAIN h = 1 .. Len(h) /\ Len(h) \in Nat /\ h[i].q \in Int /\ h[j].q \in Int
        BY TextsAssumption
      <4>2. Texts!Place(h, i) \in 1 .. Len(h) /\ Texts!Place(h, j) \in 1 .. Len(h)
        BY <4>1, Places
      <4> QED BY <4>1, <4>2
    <3>4. ~ Texts!Before(h, j, i)
      <4>1. ~ (Texts!Place(h, j) < Texts!Place(h, i))
        BY <2>4, <3>1, <3>2, <3>3
      <4> QED BY <4>1, Places
    <3>5. i = j \/ Texts!Before(h, i, j)
      BY <3>4, Places
    <3> QED BY <3>1, <3>3, <3>5 DEF Texts!Before
  <2>7. \A l \in wanted : Texts!AtLeast(Texts!Wanted(h, chosen), Texts!Wanted(h, l))
    BY <2>5, <2>6 DEF Texts!AtLeast
  <2> HIDE DEF chosen, wanted
  <2> QED BY <2>5, <2>7 DEF chosen, wanted
<1> QED BY <1>5, <1>6

Seen(l) == cache[l] # Texts!Unset

(* What t() said of a locale is what the files in the cache say.           *)
Answered(l) ==
  /\ Seen(l)
  /\ IF Texts!Has(cache, l) THEN heard[l] = Texts!TextIn(cache, l)
     ELSE Seen(FallbackTag) /\ heard[l] = Texts!TextIn(cache, FallbackTag)

TextInv ==
  /\ texts \in [Tags -> Texts!Editions \cup {Texts!NoFile}]
  /\ DOMAIN cache = Tags /\ DOMAIN heard = Tags
  /\ inRequest => locale = Texts!Resolve(asked, available) /\ asked.header \in Headers
  /\ inRequest => locale \in Tags
  /\ \A l \in Tags : heard[l] # <<>> => Answered(l)
  /\ constant

LEMMA TextInit ==
  ASSUME Texts!Init
  PROVE  TextInv
BY DEF Texts!Init, TextInv

(* Reading a file changes nothing about those that were read.              *)
LEMMA ReadKeeps ==
  ASSUME TextInv, NEW held, DOMAIN held = Tags, NEW l \in Tags
  PROVE  /\ DOMAIN Texts!Read(held, l) = Tags /\ Texts!Read(held, l)[l] # Texts!Unset
         /\ \A m \in Tags : held[m] # Texts!Unset => Texts!Read(held, l)[m] = held[m]
<1>1. texts[l] # Texts!Unset
  BY TextsAssumption DEF TextInv, Texts!Editions, Texts!Unset, Texts!NoFile
<1> QED BY <1>1 DEF Texts!Read

LEMMA TranslateKeeps ==
  ASSUME TextInv, NEW l \in Tags, Texts!Translate(l)
  PROVE  TextInv'
<1> DEFINE own == Texts!Read(cache, l)
           both == IF Texts!Has(own, l) \/ l = FallbackTag THEN own
                   ELSE Texts!Read(own, FallbackTag)
           text == IF Texts!Has(own, l) THEN Texts!TextIn(own, l)
                   ELSE Texts!TextIn(both, FallbackTag)
<1>1. /\ cache' = both
      /\ heard' = [heard EXCEPT ![l] = IF @ = <<>> THEN text ELSE @]
      /\ constant' = (constant /\ heard[l] \in {<<>>, text})
      /\ UNCHANGED <<texts, inRequest, asked, locale, available>>
  BY DEF Texts!Translate
<1>2. FallbackTag \in Tags
  BY TextsAssumption
<1>3. /\ DOMAIN own = Tags /\ own[l] # Texts!Unset
      /\ \A m \in Tags : Seen(m) => own[m] = cache[m]
  BY ReadKeeps DEF TextInv, Seen
<1>4. /\ DOMAIN both = Tags /\ both[l] = own[l]
      /\ \A m \in Tags : Seen(m) => both[m] = cache[m]
      /\ Texts!Has(own, l) \/ both[FallbackTag] # Texts!Unset
  BY <1>2, <1>3, ReadKeeps DEF Seen
<1> HIDE DEF own, both
<1>5. \A f, g : f[l] = g[l] => /\ Texts!Has(f, l) = Texts!Has(g, l)
                               /\ Texts!TextIn(f, l) = Texts!TextIn(g, l)
  BY DEF Texts!Has, Texts!TextIn
<1>6. \A m \in Tags : \A f, g : f[m] = g[m] => /\ Texts!Has(f, m) = Texts!Has(g, m)
                                               /\ Texts!TextIn(f, m) = Texts!TextIn(g, m)
  BY DEF Texts!Has, Texts!TextIn
<1>7. ASSUME NEW m \in Tags, Answered(m)
      PROVE  /\ both[m] # Texts!Unset
             /\ IF Texts!Has(both, m) THEN heard[m] = Texts!TextIn(both, m)
                ELSE both[FallbackTag] # Texts!Unset /\ heard[m] = Texts!TextIn(both, FallbackTag)
  <2>1. both[m] = cache[m] /\ (~ Texts!Has(cache, m) => both[FallbackTag] = cache[FallbackTag])
    BY <1>2, <1>4, <1>7 DEF Answered
  <2>2. Texts!Has(both, m) = Texts!Has(cache, m) /\ Texts!TextIn(both, m) = Texts!TextIn(cache, m)
    BY <1>6, <2>1
  <2>3. ~ Texts!Has(cache, m) => Texts!TextIn(both, FallbackTag) = Texts!TextIn(cache, FallbackTag)
    BY <1>2, <1>6, <2>1
  <2> QED BY <1>7, <2>1, <2>2, <2>3 DEF Answered, Seen
<1>8. /\ both[l] # Texts!Unset
      /\ IF Texts!Has(both, l) THEN text = Texts!TextIn(both, l)
         ELSE both[FallbackTag] # Texts!Unset /\ text = Texts!TextIn(both, FallbackTag)
  <2>1. Texts!Has(both, l) = Texts!Has(own, l) /\ Texts!TextIn(both, l) = Texts!TextIn(own, l)
    BY <1>4, <1>5
  <2> QED BY <1>3, <1>4, <2>1
<1>9. heard[l] \in {<<>>, text}
  BY <1>7, <1>8 DEF TextInv
<1> HIDE DEF text
<1>10. \A m \in Tags : heard'[m] # <<>> => Answered(m)'
  <2>1. cache' = both /\ DOMAIN heard = Tags
    BY <1>1 DEF TextInv
  <2>2. \A m \in Tags : heard'[m] = heard[m] \/ (m = l /\ heard[l] = <<>> /\ heard'[m] = text)
    BY <1>1, <2>1
  <2> SUFFICES ASSUME NEW m \in Tags, heard'[m] # <<>> PROVE Answered(m)'
    OBVIOUS
  <2>3. CASE heard'[m] = heard[m]
    <3>1. Answered(m)
      BY <2>3 DEF TextInv
    <3>2. /\ both[m] # Texts!Unset
          /\ IF Texts!Has(both, m) THEN heard[m] = Texts!TextIn(both, m)
             ELSE both[FallbackTag] # Texts!Unset /\ heard[m] = Texts!TextIn(both, FallbackTag)
      BY <1>7, <3>1
    <3> QED BY <2>1, <2>3, <3>2 DEF Answered, Seen, Texts!Has, Texts!TextIn
  <2>4. CASE m = l /\ heard'[m] = text
    BY <1>8, <2>1, <2>4 DEF Answered, Seen, Texts!Has, Texts!TextIn
  <2> QED BY <2>2, <2>3, <2>4
<1>11. locale' = locale /\ (inRequest => locale = Texts!Resolve(asked, available))
  BY <1>1 DEF TextInv
<1> QED BY <1>1, <1>4, <1>9, <1>10, <1>11 DEF TextInv

LEMMA TextNext ==
  ASSUME TextInv, [Texts!Next]_(Texts!vars)
  PROVE  TextInv'
<1>1. ASSUME NEW l \in Tags, NEW e \in Texts!Editions \cup {Texts!NoFile}, Texts!Deploy(l, e)
      PROVE  TextInv'
  BY <1>1 DEF TextInv, Texts!Deploy, Answered, Seen, Texts!Has, Texts!TextIn
<1>2. ASSUME NEW a \in Texts!Asked, Texts!Enter(a)  PROVE TextInv'
  <2>1. /\ inRequest' = TRUE /\ asked' = a /\ available' = Texts!Available
        /\ locale' = Texts!Resolve(a, Texts!Available) /\ UNCHANGED <<texts, cache, heard, constant>>
        /\ a.header \in Headers
    BY <1>2 DEF Texts!Enter, Texts!Asked
  <2>2. \A l : Answered(l)' = Answered(l)
    BY <2>1 DEF Answered, Seen, Texts!Has, Texts!TextIn
  <2>3. locale' \in Tags
    <3>1. Texts!Available \subseteq Tags
      BY DEF Texts!Available
    <3>2. Texts!FirstOf(a.header, Texts!Available) \in Texts!Available \cup {DefaultTag}
      BY <2>1, FirstIsBest
    <3> QED BY <2>1, <3>1, <3>2, TextsAssumption DEF Texts!Resolve
  <2> QED BY <2>1, <2>2, <2>3 DEF TextInv
<1>3. CASE Texts!Reset \/ UNCHANGED Texts!vars
  <2>1. /\ UNCHANGED <<texts, cache, heard, constant>>
        /\ ~ inRequest' \/ UNCHANGED <<inRequest, asked, available, locale>>
    BY <1>3 DEF Texts!Reset, Texts!vars
  <2>2. \A l : Answered(l)' = Answered(l)
    BY <2>1 DEF Answered, Seen, Texts!Has, Texts!TextIn
  <2> QED BY <2>1, <2>2 DEF TextInv
<1>4. CASE Texts!TranslateInRequest
  BY <1>4, TranslateKeeps DEF Texts!TranslateInRequest, TextInv
<1>5. CASE Texts!TranslateWithout
  BY <1>5, TranslateKeeps DEF Texts!TranslateWithout
<1> QED BY <1>1, <1>2, <1>3, <1>4, <1>5 DEF Texts!Next

LEMMA TextHolds ==
  ASSUME TextInv
  PROVE  Texts!BestAvailable /\ Texts!TextsAreConstant
<1> DEFINE h == asked.header
           wanted == {l \in available : Texts!Wanted(h, l) # {}}
<1> SUFFICES ASSUME inRequest
             PROVE  IF asked.lang \in available THEN locale = asked.lang
                    ELSE IF wanted = {} THEN locale = DefaultTag
                    ELSE /\ locale \in wanted
                         /\ \A l \in wanted : Texts!AtLeast(Texts!Wanted(h, locale), Texts!Wanted(h, l))
  BY DEF TextInv, Texts!BestAvailable, Texts!TextsAreConstant
<1>1. h \in Headers /\ locale = IF asked.lang \in available THEN asked.lang ELSE Texts!FirstOf(h, available)
  BY DEF TextInv, Texts!Resolve
<1>2. IF wanted = {} THEN Texts!FirstOf(h, available) = DefaultTag
      ELSE /\ Texts!FirstOf(h, available) \in wanted
           /\ \A l \in wanted : Texts!AtLeast(Texts!Wanted(h, Texts!FirstOf(h, available)), Texts!Wanted(h, l))
  BY <1>1, FirstIsBest
<1> HIDE DEF wanted, h
<1> QED BY <1>1, <1>2

LEMMA TextSteps ==
  ASSUME view = "texts", [RequestNext]_requestVars
  PROVE  view' = "texts" /\ [Texts!Next]_(Texts!vars)
BY DEF RequestNext, requestVars, textVars, Texts!vars

(***************************************************************************)
(* The parts together                                                      *)
(***************************************************************************)

(* AssemblyIsSound, which run Requests checks: whatever is bound and built *)
(* and raises, _resolving is the chain of make() calls in progress, what   *)
(* is shared is built once, and what make() returns is whole; however many *)
(* projects are loaded, each load finds its own; however versions, routes  *)
(* and an included router are mixed, a request reads the version of its    *)
(* own endpoint, and no version hides a route of another; and the samples  *)
(* of a metric tell exactly the calls of it (container.py:71-170,          *)
(* cli/loader.py:27-109, routing.py:83-102, 155-204, metrics.py:82-185,    *)
(* 195-240).                                                               *)
THEOREM AssemblyAlwaysSound == RequestSpec => []AssemblyIsSound
<1> DEFINE Inv == /\ view = "container" => ContainerInv
                  /\ view = "projects" => LoaderInv
                  /\ view = "routes" => RoutingInv
                  /\ view = "metrics" => MetricsInv
<1>1. RequestInit => Inv
  BY ContainerInit, LoaderInit, RoutingInit, MetricsInit DEF RequestInit
<1>2. Inv /\ [RequestNext]_requestVars => Inv'
  <2> SUFFICES ASSUME Inv, [RequestNext]_requestVars
               PROVE  Inv'
    OBVIOUS
  <2>1. view' = "container" => ContainerInv'
    BY OneView, ContainerSteps, ContainerNext
  <2>2. view' = "projects" => LoaderInv'
    BY OneView, LoaderSteps, LoaderNext
  <2>3. view' = "routes" => RoutingInv'
    BY OneView, RoutingSteps, RoutingNext
  <2>4. view' = "metrics" => MetricsInv'
    BY OneView, MetricsSteps, MetricsNext
  <2> QED BY <2>1, <2>2, <2>3, <2>4
<1>3. Inv => AssemblyIsSound
  BY ContainerHolds, MetricsHold DEF AssemblyIsSound, LoaderInv, RoutingInv
<1> QED BY <1>1, <1>2, <1>3, PTL DEF RequestSpec

(* RepliesAreSound, which run Requests checks for two concurrent requests  *)
(* and a locale that gains a translation: a client's copy is whole and the *)
(* one it was told is unchanged, the blanket limit and the route's count   *)
(* apart and answer with what is left, and a request speaks the best of    *)
(* the languages there were when it came, in texts that stay the same      *)
(* (etag.py:55-79, rate_limit.py:193-199, 236-251, 278-286,                *)
(* localization.py:99-182).                                                *)
THEOREM RepliesAreAlwaysSound == RequestSpec => []RepliesAreSound
<1> DEFINE Inv == (view = "responses" => ReplyInv) /\ (view = "texts" => TextInv)
<1>1. RequestInit => Inv
  BY ReplyInit, TextInit DEF RequestInit
<1>2. Inv /\ [RequestNext]_requestVars => Inv'
  <2> SUFFICES ASSUME Inv, [RequestNext]_requestVars
               PROVE  Inv'
    OBVIOUS
  <2>1. view' = "responses" => ReplyInv'
    BY OneView, ReplySteps, ReplyNext
  <2>2. view' = "texts" => TextInv'
    BY OneView, TextSteps, TextNext
  <2> QED BY <2>1, <2>2
<1>3. Inv => RepliesAreSound
  BY ReplyHolds, TextHolds DEF RepliesAreSound
<1> QED BY <1>1, <1>2, <1>3, PTL DEF RequestSpec
=============================================================================
