------------------------------- MODULE Access -------------------------------
(***************************************************************************)
(* authorize() and the API's tokens: a handler reads a record, authorize() *)
(* or require_api_auth() reads the user that the session or the token      *)
(* names, and Gate.allows() decides on the two that were read, while other *)
(* requests change roles, hand the record on or remove a user.             *)
(***************************************************************************)
EXTENDS Naturals, SequencesExt

CONSTANTS Requests, Users,
          Gates,        \* ways to set up the Gate, see GateType
          ExpiresIn,    \* ticks that a token is good for
          MaxTime, MaxChanges

Roles == {"admin", "editor"}
Hooks == {"admins may", "the roleless may not"}

(* The before hooks in their order; whether the ability is the name of a   *)
(* closure, of a method of the record's policy, of both or of neither; and *)
(* the policy's own hook, if it has one.                                   *)
GateType == [before : Seq(Hooks), closure : BOOLEAN, policy : BOOLEAN,
             own : Hooks \cup {"none"}]

Claims == [by : {"nobody", "session", "token"}, user : Users,
           issued : 0 .. MaxTime]

VARIABLES
  gate,
  roles,        \* [Users -> SUBSET Roles], as committed
  author,       \* of the record
  users,        \* who still has a row
  now, changes,
  stage,        \* of a request
  claims,       \* the user and the time of issue that it presents
  post,         \* the author that its handler has read
  outcome,
  times         \* how its user and the record were since it began

vars == <<gate, roles, author, users, now, changes, stage, claims, post,
          outcome, times>>

TypeOK ==
  /\ gate \in Gates /\ \A g \in Gates : g \in GateType
  /\ roles \in [Users -> SUBSET Roles] /\ author \in Users
  /\ users \subseteq Users /\ now \in 0 .. MaxTime
  /\ changes \in 0 .. MaxChanges
  /\ stage \in [Requests -> {"new", "begun", "over"}]
  /\ claims \in [Requests -> Claims] /\ post \in [Requests -> Users]
  /\ \A r \in Requests :
       (stage[r] = "over") =
         (outcome[r] \in {"allowed", "forbidden", "unknown", "KeyError"})

-----------------------------------------------------------------------------
(* Who a request is, and the Gate                                          *)

(* A mutant: the age of a token is not asked for.                          *)
ValidForEver(c) == c.by # "nobody"

(* loads(token, max_age) refuses a token older than expires_in; a session  *)
(* names its user for as long as the cookie is there.                      *)
Valid(c) ==
  c.by = "session" \/ (c.by = "token" /\ now - c.issued <= ExpiresIn)

(* A mutant: the token carries the roles of its time.                      *)
HasWhenIssued(c) == IF c.by = "token" THEN {"editor"} ELSE roles[c.user]

(* What the user's row says.                                               *)
Has(c) == roles[c.user]

(* find() has a row for the id, or there is no user.                       *)
Identified(c) == Valid(c) /\ c.user \in users

Opinion(hook, has) ==
  CASE hook = "admins may" /\ "admin" \in has -> "yes"
    [] hook = "the roleless may not" /\ has = {} -> "no"
    [] OTHER -> "none"

(* The hooks that return something; no later one is asked than the first.  *)
Speakers(has) ==
  {i \in DOMAIN gate.before : Opinion(gate.before[i], has) # "none"}
FirstOpinion(has) == Opinion(gate.before[Min(Speakers(has))], has)

(* A mutant: the policy is asked before the closure.                       *)
PolicyFirst == IF gate.policy THEN "policy"
               ELSE IF gate.closure THEN "closure" ELSE "none"

(* A closure comes first: Gate.role("editor").                             *)
Source == IF gate.closure THEN "closure"
          ELSE IF gate.policy THEN "policy" ELSE "none"

(* The policy's method: the record's author may.                           *)
PolicyCheck(u, has, who) ==
  IF Opinion(gate.own, has) = "none" THEN who = u
  ELSE Opinion(gate.own, has) = "yes"

Allows(u, has, who) ==
  IF Speakers(has) # {} THEN FirstOpinion(has) = "yes"
  ELSE IF Source = "closure" THEN "editor" \in has
  ELSE PolicyCheck(u, has, who)

Decision(c, who) ==
  CASE ~ Identified(c) -> "unknown"
    [] Identified(c) /\ Speakers(Has(c)) = {} /\ Source = "none" -> "KeyError"
    [] OTHER -> IF Allows(c.user, Has(c), who) THEN "allowed" ELSE "forbidden"

-----------------------------------------------------------------------------
(* Requests                                                                *)

(* How things are with the user that a request names: history only.        *)
Known(c) == /\ c.by # "nobody" /\ c.user \in users
            /\ c.by = "token" => now <= c.issued + ExpiresIn
View(c) == [known |-> Known(c), has |-> roles[c.user], author |-> author]

Init ==
  /\ gate \in Gates
  /\ roles = [u \in Users |-> {"editor"}] /\ author \in Users /\ users = Users
  /\ now = 0 /\ changes = 0
  /\ stage = [r \in Requests |-> "new"]
  /\ claims \in [Requests -> Claims]
  /\ \A r \in Requests :
       claims[r].by # "token" => claims[r].issued = 0
  /\ post = [r \in Requests |-> author]
  /\ outcome = [r \in Requests |-> "none"]
  /\ times = [r \in Requests |-> {}]

(* The handler reads the record before it asks, as authorize()'s own       *)
(* example does.  issue() has signed the user's id and the time, no more.  *)
Begin(r) ==
  /\ stage[r] = "new" /\ claims[r].issued <= now
  /\ stage' = [stage EXCEPT ![r] = "begun"]
  /\ post' = [post EXCEPT ![r] = author]
  /\ times' = [times EXCEPT ![r] = {View(claims[r])}]
  /\ UNCHANGED <<gate, roles, author, users, now, changes, claims, outcome>>

(* 401, 403 or a KeyError is raised; "unknown" is the 401.                 *)
Authorize(r) ==
  /\ stage[r] = "begun"
  /\ stage' = [stage EXCEPT ![r] = "over"]
  /\ outcome' = [outcome EXCEPT ![r] = Decision(claims[r], post[r])]
  /\ UNCHANGED <<gate, roles, author, users, now, changes, claims, post, times>>

-----------------------------------------------------------------------------
(* What other requests commit, and time                                    *)

Remember ==
  times' = [r \in Requests |->
              times[r] \cup IF stage[r] = "begun" THEN {View(claims[r])'} ELSE {}]

Change ==
  /\ changes < MaxChanges /\ changes' = changes + 1
  /\ \/ \E u \in users, new \in SUBSET Roles :
          roles' = [roles EXCEPT ![u] = new] /\ UNCHANGED <<author, users>>
     \/ author' \in users /\ UNCHANGED <<roles, users>>
     \/ \E u \in users : users' = users \ {u} /\ UNCHANGED <<roles, author>>
  /\ UNCHANGED <<gate, now, stage, claims, post, outcome>>
  /\ Remember

Tick ==
  /\ now < MaxTime /\ now' = now + 1
  /\ UNCHANGED <<gate, roles, author, users, changes, stage, claims, post,
                 outcome>>
  /\ Remember

Next == Change \/ Tick \/ \E r \in Requests : Begin(r) \/ Authorize(r)

Spec == Init /\ [][Next]_vars

-----------------------------------------------------------------------------
(* Some hook says so, and none before it says anything.                    *)
FirstSays(has, said) ==
  \E i \in DOMAIN gate.before :
    /\ Opinion(gate.before[i], has) = said
    /\ \A j \in 1 .. i - 1 : Opinion(gate.before[j], has) = "none"

(* The rules of docs/authorization.md: a hook, the closure, the policy.    *)
Entitled(u, has, who) ==
  \/ FirstSays(has, "yes")
  \/ /\ ~ FirstSays(has, "no")
     /\ \/ gate.closure /\ "editor" \in has
        \/ /\ ~ gate.closure /\ gate.policy
           /\ Opinion(gate.own, has) # "no"
           /\ Opinion(gate.own, has) = "yes" \/ who = u

(* A decision is right for how things were while the request ran, however  *)
(* old its token or session is: who is let through was known, and entitled *)
(* by the roles of one moment and the record of another, since the request *)
(* began; who is refused was not known, or not entitled, or asked for an   *)
(* ability that does not exist (authorization.py:151-175, 223-240,         *)
(* api_auth.py:58-67).                                                     *)
DecidedOnThen ==
  \A r \in Requests : stage[r] = "over" =>
    \E then, before \in times[r] :
      LET right == Entitled(claims[r].user, then.has, before.author)
      IN  CASE outcome[r] = "allowed" -> then.known /\ right
            [] outcome[r] = "unknown" -> ~ then.known
            [] OTHER -> then.known /\ ~ right

=============================================================================
