------------------------------ MODULE Accounts ------------------------------
(***************************************************************************)
(* The accounts of a generated application: register() and                 *)
(* oauth_callback() of the starter's AuthController, each in the database  *)
(* session of its own request (db/session.py), on the users table with its *)
(* unique e-mail address, which User.saving() writes in one spelling.      *)
(* Deactivation is Model.delete() of a user, which is soft.                *)
(***************************************************************************)
CONSTANTS Requests,
          Spellings,   \* of e-mail addresses
          InLower(_)   \* address.strip().lower()

VARIABLES
  users,    \* of a stored address: its committed row
  request,
  session,  \* of a request: whom the cookie of its response logs in
  welcomed, \* the addresses for which SendWelcomeEmailJob was pushed
  lost      \* those whose row was rolled back after the push or the response

vars == <<users, request, session, welcomed, lost>>

Nobody == "nobody"
Idle == [stage |-> "idle", op |-> "none", typed |-> Nobody, own |-> Nobody, healthy |-> TRUE]

TypeOK ==
  /\ users \in [Spellings -> {"none", "live", "deleted"}]
  /\ request \in [Requests ->
       [stage : {"idle", "new", "saved", "pushed", "known", "answered", "done", "taken", "crashed"},
        op : {"none", "register", "oauth"}, typed : Spellings \cup {Nobody},
        own : Spellings \cup {Nobody}, healthy : BOOLEAN]]
  /\ session \in [Requests -> Spellings \cup {Nobody}]
  /\ welcomed \subseteq Spellings /\ lost \subseteq Spellings

Init ==
  /\ users = [e \in Spellings |-> "none"]
  /\ request = [r \in Requests |-> Idle]
  /\ session = [r \in Requests |-> Nobody]
  /\ welcomed = {} /\ lost = {}

At(r, stage) == request[r].stage = stage
Start(r, op, e, stage) ==
  request' = [request EXCEPT ![r] = [Idle EXCEPT !.stage = stage, !.op = op, !.typed = e]]
Goes(r, stage) == request' = [request EXCEPT ![r].stage = stage]

(* Mutant: the address is stored as it was typed.                          *)
AsTyped(e) == e

(* User.saving()                                                           *)
Stored(e) == InLower(e)

(***************************************************************************)
(* The handlers                                                            *)
(***************************************************************************)

(* register() has a password; a request without one changes nothing.       *)
Register(r, e) ==
  /\ At(r, "idle") /\ Start(r, "register", e, "new")
  /\ UNCHANGED <<users, session, welcomed, lost>>

(* oauth_callback(): first_where() finds the rows that are committed, not  *)
(* deleted and spelled as the provider spells the address.                 *)
OauthCallback(r, e) ==
  /\ At(r, "idle")
  /\ Start(r, "oauth", e, IF users[e] = "live" THEN "known" ELSE "new")
  /\ UNCHANGED <<users, session, welcomed, lost>>

(* user.save(): the unique index makes the INSERT wait for another one of  *)
(* the address that is not committed, and refuse it for one that is,       *)
(* deleted or not: IntegrityError, and the session is rolled back.         *)
Save(r) ==
  LET e == Stored(request[r].typed) IN
  /\ At(r, "new")
  /\ \A q \in Requests : request[q].own # e
  /\ IF users[e] # "none" THEN Goes(r, "taken")
     ELSE request' = [request EXCEPT ![r].own = e,
            ![r].stage = IF request[r].op = "register" THEN "saved" ELSE "known"]
  /\ UNCHANGED <<users, session, welcomed, lost>>

(* dispatch() of the welcome mail, which a worker may send at once.        *)
PushWelcome(r) ==
  /\ At(r, "saved") /\ Goes(r, "pushed")
  /\ welcomed' = welcomed \cup {request[r].own}
  /\ UNCHANGED <<users, session, lost>>

(* emit() and notify() raise nothing, but a row of theirs that cannot be   *)
(* flushed takes the session's transaction away.                           *)
React(r) ==
  /\ At(r, "pushed")
  /\ \E h \in BOOLEAN :
       request' = [request EXCEPT ![r].stage = "known", ![r].healthy = h]
  /\ UNCHANGED <<users, session, welcomed, lost>>

(* auth_login() and the response with the cookie.                          *)
Answer(r) ==
  /\ At(r, "known") /\ Goes(r, "answered")
  /\ session' = [session EXCEPT ![r] =
       IF request[r].own = Nobody THEN request[r].typed ELSE request[r].own]
  /\ UNCHANGED <<users, welcomed, lost>>

(***************************************************************************)
(* The end of the session                                                  *)
(***************************************************************************)

Lose(r) == lost' = IF request[r].own \in welcomed \/ At(r, "answered")
                   THEN lost \cup ({request[r].own} \ {Nobody}) ELSE lost

Commit(r) ==
  /\ At(r, "answered") /\ request[r].healthy
  /\ users' = IF request[r].own = Nobody THEN users
              ELSE [users EXCEPT ![request[r].own] = "live"]
  /\ request' = [request EXCEPT ![r].stage = "done", ![r].own = Nobody]
  /\ UNCHANGED <<session, welcomed, lost>>

(* push() or the handler raised, or the commit after the response failed,  *)
(* as it does without a transaction.                                       *)
RollBack(r) ==
  /\ request[r].stage \in {"new", "saved", "pushed", "known", "answered"}
  /\ request' = [request EXCEPT ![r].stage = "crashed", ![r].own = Nobody]
  /\ Lose(r)
  /\ UNCHANGED <<users, session, welcomed>>

Delete(e) ==
  /\ users[e] = "live" /\ users' = [users EXCEPT ![e] = "deleted"]
  /\ UNCHANGED <<request, session, welcomed, lost>>

Next ==
  \/ \E r \in Requests :
       \/ \E e \in Spellings : Register(r, e) \/ OauthCallback(r, e)
       \/ Save(r) \/ PushWelcome(r) \/ React(r) \/ Answer(r) \/ Commit(r) \/ RollBack(r)
  \/ \E e \in Spellings : Delete(e)

Spec == Init /\ [][Next]_vars

(***************************************************************************)
(* Properties                                                              *)
(***************************************************************************)

(* "ada@" and "Ada@" do not become two accounts (user.py:37-41), however   *)
(* requests for them overlap.                                              *)
OneAccountEach ==
  \A e, f \in Spellings :
    InLower(e) = InLower(f) /\ users[e] # "none" /\ users[f] # "none" => e = f

(* Who was welcomed, or logged in by a cookie, has an account, or its      *)
(* request has still to commit; but for those whose row was rolled back    *)
(* after the mail was pushed or the response was sent                      *)
(* (auth_controller.py:57-76, db/session.py:220-229).                      *)
WelcomedExist ==
  \A e \in welcomed \cup ({session[r] : r \in Requests} \ {Nobody}) :
    users[e] # "none" \/ e \in lost \/ \E r \in Requests : request[r].own = e

(* Who signs in over OAuth is only turned away by the unique index when    *)
(* the provider spells the address in another way, or the account was      *)
(* deleted, or another request has made it since the look-up               *)
(* (auth_controller.py:139-152).                                           *)
TakenForAReason ==
  \A r \in Requests : At(r, "taken") /\ request[r].op = "oauth" =>
    LET e == Stored(request[r].typed) IN
    \/ request[r].typed # e
    \/ users[e] = "deleted"
    \/ \E q \in Requests \ {r} : request[q].stage = "done" /\ InLower(request[q].typed) = e
=============================================================================
