----------------------------- MODULE Container -----------------------------
(***************************************************************************)
(* Container (container.py): make() builds what a type hint names out of   *)
(* its binding, or out of the class itself, and call() finds the missing   *)
(* arguments of a function, so that the two call each other as deep as the *)
(* dependencies go.  The chain of these calls is the stack; what a call    *)
(* returns or raises is the signal that the frame below it receives.       *)
(***************************************************************************)
EXTENDS Naturals, SequencesExt

CONSTANTS Classes,    \* abstracts that are classes
          Strings,    \* abstracts that are strings
          MaxParams,  \* bound: parameters of a class's __init__
          MaxBinds    \* bound: bind() and instance() calls

Abstracts == Classes \cup Strings

(* What bind() is given: a function without parameters, good or raising    *)
(* a need to await, or nothing, so that the class is built.                *)
Factories == {"class", "function", "async function", "awaitable"}
Unbound == [factory |-> "none", shared |-> FALSE]

VARIABLES hints,      \* [Classes -> the parameters of __init__]
          binding,    \* _bindings
          instances,  \* the keys of _instances
          resolving,  \* _resolving
          stack,      \* the calls of call() in progress, outermost first
          signal,     \* what make() has just returned or raised
          built,      \* [Abstracts -> instances built since the last bind()]
          binds

tables == <<hints, binding, binds>>
vars == <<tables, instances, resolving, stack, signal, built>>

Nothing == [kind |-> "nothing"]
Value(a, whole) == [kind |-> "value", of |-> a, whole |-> whole]
BindingError == [kind |-> "error", binding |-> TRUE]
OtherError == [kind |-> "error", binding |-> FALSE]

Param == [on : Abstracts, optional : BOOLEAN]

Init ==
  /\ hints \in [Classes -> BoundedSeq(Param, MaxParams)]
  /\ binding = [a \in Abstracts |-> Unbound]
  /\ instances = {} /\ resolving = <<>> /\ stack = <<>> /\ signal = Nothing
  /\ built = [a \in Abstracts |-> 0] /\ binds = 0

Has(a) == a \in instances \/ binding[a] # Unbound

Idle == stack = <<>> /\ signal = Nothing

Bind(a) ==
  /\ Idle /\ binds < MaxBinds /\ binds' = binds + 1
  /\ \E factory \in Factories, shared \in BOOLEAN :
       /\ factory = "class" => a \in Classes
       /\ binding' = [binding EXCEPT ![a] =
                        [factory |-> factory, shared |-> shared]]
  /\ instances' = instances \ {a} /\ built' = [built EXCEPT ![a] = 0]
  /\ UNCHANGED <<hints, resolving, stack, signal>>

Instance(a) ==
  /\ Idle /\ binds < MaxBinds /\ binds' = binds + 1
  /\ instances' = instances \cup {a}
  /\ UNCHANGED <<hints, binding, resolving, stack, signal, built>>

ParamsOf(a) ==
  IF a \in Classes /\ binding[a].factory \in {"none", "class"}
  THEN hints[a] ELSE <<>>

Frame(a, params) == [of |-> a, left |-> params, given |-> {}]

(* A mutant: only a long chain is a circle.                                *)
NeverCircular(a) == Len(resolving) > 4

Circular(a) == a \in ToSet(resolving)

Callable(a) == binding[a] # Unbound \/ a \in Classes

(* make(a), up to its call() of the factory.                               *)
Enter(a) ==
  IF a \in instances
  THEN signal' = Value(a, TRUE) /\ UNCHANGED <<resolving, stack>>
  ELSE IF Circular(a) \/ ~Callable(a) \/ binding[a].factory = "async function"
  THEN signal' = BindingError /\ UNCHANGED <<resolving, stack>>
  ELSE /\ resolving' = Append(resolving, a)
       /\ stack' = Append(stack, Frame(a, ParamsOf(a)))
       /\ signal' = Nothing

Make(a) ==
  /\ Idle /\ Enter(a) /\ UNCHANGED <<tables, instances, built>>

(* call() of a function that is not a factory: a handle() of a job.        *)
Call ==
  /\ Idle
  /\ \E a \in Classes : stack' = <<Frame("call", hints[a])>>
  /\ UNCHANGED <<tables, instances, resolving, signal, built>>

Top == Last(stack)
NextParam == Head(Top.left)
SetTop(frame) == stack' = [stack EXCEPT ![Len(stack)] = frame]

(* The next parameter that call() has to find an argument for.             *)
Resolve ==
  /\ stack # <<>> /\ signal = Nothing /\ Top.left # <<>>
  /\ IF Has(NextParam.on) \/ NextParam.on \in Classes
     THEN Enter(NextParam.on)
     ELSE IF NextParam.optional
     THEN SetTop([Top EXCEPT !.left = Tail(@)]) /\ UNCHANGED <<resolving, signal>>
     ELSE signal' = BindingError /\ UNCHANGED <<resolving, stack>>
  /\ UNCHANGED <<tables, instances, built>>

Receive ==
  /\ stack # <<>> /\ signal.kind = "value"
  /\ SetTop([Top EXCEPT !.left = Tail(@), !.given = @ \cup {signal.of}])
  /\ signal' = Nothing
  /\ UNCHANGED <<tables, instances, resolving, built>>

(* A mutant: whatever has a default may be left out.                       *)
OptionalIfDefault == signal.binding /\ NextParam.optional

(* A class that nobody has bound and that cannot be built may be left out. *)
Optional == signal.binding /\ NextParam.optional /\ ~Has(NextParam.on)

LeaveOut ==
  /\ stack # <<>> /\ signal.kind = "error" /\ Optional
  /\ SetTop([Top EXCEPT !.left = Tail(@)]) /\ signal' = Nothing
  /\ UNCHANGED <<tables, instances, resolving, built>>

(* A mutant: there is no finally.                                          *)
LeftResolving ==
  resolving' = IF signal.kind = "error" \/ Top.of = "call" THEN resolving
               ELSE Front(resolving)

(* The finally of make(), which call() of a job has not.                   *)
PopResolving ==
  resolving' = IF Top.of = "call" THEN resolving ELSE Front(resolving)

Propagate ==
  /\ stack # <<>> /\ signal.kind = "error" /\ ~Optional
  /\ PopResolving /\ stack' = Front(stack)
  /\ UNCHANGED <<tables, instances, signal, built>>

(* Whether it was given all of its parameters that somebody has bound.     *)
Whole(frame) ==
  frame.of \in Classes =>
    \A k \in DOMAIN ParamsOf(frame.of) :
      LET p == ParamsOf(frame.of)[k] IN
        ~p.optional \/ Has(p.on) => p.on \in frame.given

(* A mutant: what is shared is built and not kept.                         *)
KeptNever(a) == instances

Kept(a) == IF binding[a].shared THEN instances \cup {a} ELSE instances

(* The factory returns, and make() keeps what is shared.                   *)
Build ==
  /\ stack # <<>> /\ signal = Nothing /\ Top.left = <<>> /\ Top.of # "call"
  /\ PopResolving /\ stack' = Front(stack)
  /\ IF binding[Top.of].factory = "awaitable"
     THEN signal' = BindingError /\ UNCHANGED <<instances, built>>
     ELSE /\ instances' = Kept(Top.of)
          /\ built' = [built EXCEPT ![Top.of] =
                         IF binding[Top.of].shared THEN @ + 1 ELSE @]
          /\ signal' = Value(Top.of, Whole(Top))
  /\ UNCHANGED tables

BuildRaises ==
  /\ stack # <<>> /\ signal = Nothing /\ Top.left = <<>>
  /\ PopResolving /\ stack' = Front(stack) /\ signal' = OtherError
  /\ UNCHANGED <<tables, instances, built>>

CallEnds ==
  /\ stack # <<>> /\ signal = Nothing /\ Top.left = <<>> /\ Top.of = "call"
  /\ stack' = <<>>
  /\ UNCHANGED <<tables, instances, resolving, signal, built>>

(* The outermost make() or call() is over.                                 *)
Return ==
  /\ stack = <<>> /\ signal # Nothing /\ signal' = Nothing
  /\ UNCHANGED <<tables, instances, resolving, stack, built>>

Next ==
  \/ \E a \in Abstracts : Bind(a) \/ Instance(a) \/ Make(a)
  \/ Call \/ Resolve \/ Receive \/ LeaveOut \/ Propagate
  \/ Build \/ BuildRaises \/ CallEnds \/ Return

Spec == Init /\ [][Next]_vars

-----------------------------------------------------------------------------
(* Parameters in their order, tables of known abstracts.                   *)
TypeOK ==
  /\ hints \in [Classes -> Seq(Param)] /\ instances \subseteq Abstracts
  /\ \A a \in Abstracts :
       binding[a] = Unbound \/ binding[a].factory \in Factories
  /\ resolving \in Seq(Abstracts)
  /\ \A k \in DOMAIN stack : stack[k].of \in Abstracts \cup {"call"}
  /\ built \in [Abstracts -> Nat]
  /\ binds \in 0 .. MaxBinds

(* The make() calls in progress; only the outermost call() may be a job's. *)
Makes == IF stack # <<>> /\ stack[1].of = "call" THEN Tail(stack) ELSE stack

(* _resolving is exactly the chain of make() calls in progress, whatever   *)
(* was raised before, and no abstract is in it twice: a circle is reported *)
(* if there is one and only then (container.py:78-80, 105-109).            *)
ChainIsTrue ==
  /\ resolving = [k \in DOMAIN Makes |-> Makes[k].of]
  /\ IsInjective(resolving)

(* A shared binding is built once between two bind() calls, also when it   *)
(* was asked for on the way to something that then failed, and nothing     *)
(* that make() returns lacks a dependency that is required or bound        *)
(* (container.py:75-76, 119-120, 158-167).                                 *)
SharedAndWhole ==
  /\ \A a \in Abstracts : built[a] <= 1
  /\ signal.kind = "value" => signal.whole

=============================================================================
