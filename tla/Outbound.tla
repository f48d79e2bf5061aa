------------------------------ MODULE Outbound ------------------------------
(***************************************************************************)
(* What one request sets off: the handler writes a row, emits an event and *)
(* answers 200.  events.py calls the event's listeners in order; a         *)
(* listener may write a row, send mail (mail.py), notify a user over       *)
(* several channels (notifications.py) or fire a webhook (webhooks.py).    *)
(* All of them work in the request's database session (db/session.py),     *)
(* which a failed flush leaves without a transaction until it ends, unless *)
(* it failed within a transaction() block.                                 *)
(***************************************************************************)
EXTENDS Naturals, Sequences

CONSTANT Applications  \* what listeners an event may have

VARIABLES
  listeners, \* the event's listeners, in order: each a sequence of calls
  at,        \* the listener that runs and the call that it is about to make
  healthy,   \* the session has a transaction
  stage,     \* of the request
  made,      \* the calls that succeeded
  raised,    \* the calls that raised
  broken     \* those that failed of themselves

vars == <<listeners, at, healthy, stage, made, raised, broken>>

Calls == UNION {{l} \X (1 .. Len(listeners[l])) : l \in 1 .. Len(listeners)}
Kind(c) == listeners[c[1]][c[2]].kind
UsesSession(c) == Kind(c) \in {"create", "record", "query"}
InSavepoint(c) == listeners[c[1]][c[2]].savepoint

(* notify() catches what a channel raises, fire() what push() raises; what *)
(* a listener's own calls and fire()'s query raise leaves the listener.    *)
Caught(c) == Kind(c) \in {"record", "mail", "broadcast", "unset", "push"}

TypeOK ==
  /\ listeners \in Applications
  /\ at \in Nat \X Nat
  /\ healthy \in BOOLEAN
  /\ stage \in {"dispatching", "answered", "committed", "failed"}
  /\ made \subseteq Calls /\ raised \subseteq Calls /\ broken \subseteq raised

Init ==
  /\ listeners \in Applications
  /\ at = <<1, 1>> /\ healthy = TRUE /\ stage = "dispatching"
  /\ made = {} /\ raised = {} /\ broken = {}

NextListener == <<at[1] + 1, 1>>
NextCall == IF at[2] < Len(listeners[at[1]]) THEN <<at[1], at[2] + 1>> ELSE NextListener

Advance(next) ==
  /\ stage' = IF next[1] > Len(listeners) THEN "answered" ELSE stage
  /\ at' = next

(***************************************************************************)
(* The calls                                                               *)
(***************************************************************************)

Works(c) == UsesSession(c) => healthy

Succeed ==
  /\ made' = made \cup {at}
  /\ Advance(NextCall)
  /\ UNCHANGED <<listeners, healthy, raised, broken>>

(* Mutant: what a listener raises leaves dispatch().                       *)
RaiseOut ==
  /\ raised' = raised \cup {at}
  /\ Advance(IF Caught(at) THEN NextCall ELSE <<Len(listeners) + 1, 1>>)
  /\ UNCHANGED <<listeners, made>>

(* dispatch() catches what left the listener, and calls the next one.      *)
Raise ==
  /\ raised' = raised \cup {at}
  /\ Advance(IF Caught(at) THEN NextCall ELSE NextListener)
  /\ UNCHANGED <<listeners, made>>

(* Mutant: also the savepoint's failure takes the transaction away.        *)
FlushFailsAll(c) == healthy' = FALSE

(* Model.create(): a flush that fails rolls back to the savepoint, or      *)
(* takes the session's whole transaction away.                             *)
FlushFails(c) == healthy' = InSavepoint(c)

Fail ==
  /\ Raise
  /\ broken' = broken \cup {at}

Create ==
  /\ Kind(at) = "create" /\ Works(at)
  /\ Succeed \/ (Fail /\ FlushFails(at))

(* WebhookManager.fire() looks its endpoints up.                           *)
Query == Kind(at) = "query" /\ Works(at) /\ Succeed

(* The session has no transaction any more: PendingRollbackError.          *)
Refuse ==
  /\ ~Works(at) /\ Raise
  /\ UNCHANGED <<healthy, broken>>

(* queue.push() of the job for one endpoint.                               *)
Push == Kind(at) = "push" /\ (Succeed \/ (Fail /\ UNCHANGED healthy))

(* Mailer.send()                                                           *)
SendMail == Kind(at) \in {"mail", "send"} /\ (Succeed \/ (Fail /\ UNCHANGED healthy))

(* The "database" channel.                                                 *)
Record ==
  /\ Kind(at) = "record" /\ Works(at)
  /\ Succeed \/ (Fail /\ FlushFails(at))

(* The "broadcast" channel.                                                *)
Broadcast == Kind(at) = "broadcast" /\ (Succeed \/ (Fail /\ UNCHANGED healthy))

(* A channel without its record model or hub: RuntimeError.                *)
NotSetUp == Kind(at) = "unset" /\ Fail /\ UNCHANGED healthy

Dispatch ==
  /\ stage = "dispatching"
  /\ \/ Create \/ Query \/ Push \/ SendMail \/ Record \/ Broadcast \/ NotSetUp
     \/ Refuse

(* The response, with status 200, is sent before the commit.               *)
Commit ==
  /\ stage = "answered"
  /\ stage' = IF healthy THEN "committed" ELSE "failed"
  /\ UNCHANGED <<listeners, at, healthy, made, raised, broken>>

Next == Dispatch \/ Commit

Spec == Init /\ [][Next]_vars

(***************************************************************************)
(* Properties                                                              *)
(***************************************************************************)

Before(c, d) == c[1] < d[1] \/ (c[1] = d[1] /\ c[2] < d[2])
TakesTransaction(c) == c \in broken /\ UsesSession(c) /\ ~InSavepoint(c)

(* Listeners, channels and subscribers do not stop one another             *)
(* (docs/events.md:120-128, docs/notifications.md:111-118,                 *)
(* docs/webhooks.md:195-199): when the request is answered every call was  *)
(* made, but those that follow an uncaught error in their own listener,    *)
(* and what raised is broken itself or comes after a flush that failed     *)
(* outside of transaction().                                               *)
Isolated ==
  stage # "dispatching" =>
    \A c \in Calls :
      \/ c \in made \cup broken
      \/ c \in raised /\ UsesSession(c) /\ \E d \in Calls : TakesTransaction(d) /\ Before(d, c)
      \/ \E d \in raised : d[1] = c[1] /\ Before(d, c) /\ ~Caught(d)

(* A request that was answered with 200 loses its work only when a flush   *)
(* outside of transaction() has failed in a listener.                      *)
ToldIsKept == stage = "failed" => \E c \in Calls : TakesTransaction(c)

(* Events "are for reactions that can fail independently of the thing that *)
(* triggered them" (docs/events.md:131-133): what triggered them is kept.  *)
ReactionsFailIndependently == stage # "failed"
=============================================================================
