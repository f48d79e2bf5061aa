---------------------------- MODULE MultiFactor ----------------------------
(***************************************************************************)
(* src/src/zeython/mfa.py on one user's row: requests that enroll, confirm,*)
(* disable and verify, each in a database session of its own.  A save()    *)
(* writes the columns that differ from what was loaded; a written or       *)
(* claimed row is locked till the session ends (READ COMMITTED).           *)
(*                                                                         *)
(* A TOTP code stands for the secret it was made from: the code is         *)
(* presented while it is live.                                             *)
(***************************************************************************)
EXTENDS Naturals, FiniteSets

CONSTANTS Requests,
          MaxSecrets,  \* bound on enrollments
          MaxBatches,  \* bound on confirmations, which issue recovery codes
          PerBatch     \* _RECOVERY_CODE_COUNT

VARIABLES
  row,        \* the committed columns mfa_secret, mfa_enabled, mfa_recovery_codes
  user,       \* of a request: its instance
  loaded,     \* of a request: what its session believes is stored
  stage,      \* of a request
  verdict,    \* of a request: what verify_and_consume() has returned
  claimed,    \* the requests that hold the row's lock (at most one)
  secrets,    \* how many secrets were generated
  batches,    \* how many batches of recovery codes were issued
  spent,      \* of a code: the committed requests that were granted for it
  proven,     \* the secrets that a committed confirm() has verified
  disturbed   \* changes overlapped, or an enabled user was enrolled again

vars == <<row, user, loaded, stage, verdict, claimed, secrets, batches, spent,
          proven, disturbed>>

NoSecret == 0
NoCode == <<0, 0>>
Codes == (1 .. MaxBatches) \X (1 .. PerBatch)
Columns == [secret : 0 .. MaxSecrets, enabled : BOOLEAN, codes : SUBSET Codes]
Changes == {"enroll", "confirm", "disable"}
Blank == [secret |-> NoSecret, enabled |-> FALSE, codes |-> {}]

TypeOK ==
  /\ row \in Columns
  /\ user \in [Requests -> Columns] /\ loaded \in [Requests -> Columns]
  /\ stage \in [Requests -> Changes \cup {"new", "verify", "locking", "saved", "done"}]
  /\ verdict \in [Requests -> {"none", "refused", "totp", "recovery"}]
  /\ claimed \in SUBSET Requests /\ Cardinality(claimed) <= 1
  /\ secrets \in 0 .. MaxSecrets /\ batches \in 0 .. MaxBatches
  /\ spent \in [Codes -> 0 .. Cardinality(Requests)] /\ proven \in SUBSET (1 .. MaxSecrets)
  /\ disturbed \in BOOLEAN

Init ==
  /\ row = Blank
  /\ user = [r \in Requests |-> Blank] /\ loaded = [r \in Requests |-> Blank]
  /\ stage = [r \in Requests |-> "new"]
  /\ verdict = [r \in Requests |-> "none"]
  /\ claimed = {} /\ secrets = 0 /\ batches = 0
  /\ spent = [c \in Codes |-> 0] /\ proven = {} /\ disturbed = FALSE

Changing(r) == \/ stage[r] \in Changes
               \/ stage[r] = "saved" /\ verdict[r] = "none"

(* A handler loads its user and is about to call one of the functions.     *)
(* Requests are numbered in the order in which they do.                    *)
Load(r, call) ==
  /\ stage[r] = "new" /\ \A q \in Requests : q < r => stage[q] # "new"
  /\ user' = [user EXCEPT ![r] = row] /\ loaded' = [loaded EXCEPT ![r] = row]
  /\ stage' = [stage EXCEPT ![r] = call]
  /\ disturbed' = (\/ disturbed
                   \/ call \in Changes /\ \E q \in Requests : Changing(q)
                   \/ call = "enroll" /\ row.enabled)
  /\ UNCHANGED <<row, verdict, claimed, secrets, batches, spent, proven>>

(* save(): the UPDATE, of columns that differ, waits for the row's lock.   *)
Save(r, columns) ==
  /\ IF columns = loaded[r] THEN UNCHANGED claimed
                            ELSE claimed \subseteq {r} /\ claimed' = {r}
  /\ user' = [user EXCEPT ![r] = columns]
  /\ stage' = [stage EXCEPT ![r] = "saved"]

Enroll(r) ==
  /\ stage[r] = "enroll" /\ secrets < MaxSecrets
  /\ secrets' = secrets + 1
  /\ Save(r, [user[r] EXCEPT !.secret = secrets + 1])
  /\ UNCHANGED <<row, loaded, verdict, batches, spent, proven, disturbed>>

(* ValidationException, or False: nothing is written.                      *)
Refuse(r) ==
  /\ stage' = [stage EXCEPT ![r] = "saved"]
  /\ verdict' = [verdict EXCEPT ![r] = "refused"]
  /\ UNCHANGED <<row, user, loaded, claimed, secrets, batches, spent, proven, disturbed>>

(* The code is one of the secret `s`, which some authenticator app has.    *)
Verifies(r, s) == user[r].secret # NoSecret /\ s = user[r].secret

Confirm(r, s) ==
  /\ stage[r] = "confirm" /\ s \in 1 .. secrets
  /\ \/ ~Verifies(r, s) /\ Refuse(r)
     \/ /\ Verifies(r, s) /\ batches < MaxBatches
        /\ batches' = batches + 1
        /\ Save(r, [user[r] EXCEPT !.enabled = TRUE,
                                   !.codes = {batches + 1} \X (1 .. PerBatch)])
        /\ UNCHANGED <<row, loaded, verdict, secrets, spent, proven, disturbed>>

(* Mutant: the flag is left on.                                            *)
DisableEnabled(r) ==
  /\ stage[r] = "disable"
  /\ Save(r, [Blank EXCEPT !.enabled = user[r].enabled])
  /\ UNCHANGED <<row, loaded, verdict, secrets, batches, spent, proven, disturbed>>

Disable(r) ==
  /\ stage[r] = "disable"
  /\ Save(r, Blank)
  /\ UNCHANGED <<row, loaded, verdict, secrets, batches, spent, proven, disturbed>>

(* verify_and_consume() up to the lock: a TOTP code, or else a recovery    *)
(* code, which is not looked for in what was loaded before.                *)
Verify(r, s) ==
  /\ stage[r] = "verify"
  /\ LET on == user[r].enabled /\ user[r].secret # NoSecret
     IN \/ ~on /\ Refuse(r)
        \/ /\ on /\ s = user[r].secret
           /\ stage' = [stage EXCEPT ![r] = "saved"]
           /\ verdict' = [verdict EXCEPT ![r] = "totp"]
           /\ UNCHANGED <<row, user, loaded, claimed, secrets, batches, spent,
                          proven, disturbed>>
        \/ /\ on /\ s # user[r].secret
           /\ stage' = [stage EXCEPT ![r] = "locking"]
           /\ UNCHANGED <<row, user, loaded, verdict, claimed, secrets, batches,
                          spent, proven, disturbed>>

(* Mutant: the instance that is loaded already is kept.                    *)
LockedStale(r) == user[r]

(* find(..., for_update=True) waits for the lock, then reads.              *)
Locked(r) == row

Consume(r, code) ==
  /\ stage[r] = "locking" /\ claimed = {} /\ claimed' = {r}
  /\ loaded' = [loaded EXCEPT ![r] = Locked(r)]
  /\ user' = [user EXCEPT ![r] = [Locked(r) EXCEPT !.codes = @ \ {code}]]
  /\ stage' = [stage EXCEPT ![r] = "saved"]
  /\ verdict' = [verdict EXCEPT ![r] =
                   IF code \in Locked(r).codes THEN "recovery" ELSE "refused"]
  /\ UNCHANGED <<row, secrets, batches, spent, proven, disturbed>>

Release(r) ==
  /\ claimed' = claimed \ {r}
  /\ stage' = [stage EXCEPT ![r] = "done"]

Merge(old, was, is) ==
  [column \in DOMAIN old |-> IF is[column] # was[column] THEN is[column] ELSE old[column]]

Commit(r) ==
  /\ stage[r] = "saved"
  /\ row' = Merge(row, loaded[r], user[r])
  /\ spent' = [c \in Codes |->
                 IF verdict[r] = "recovery" /\ c \in loaded[r].codes \ user[r].codes
                   THEN spent[c] + 1 ELSE spent[c]]
  /\ proven' = IF user[r].enabled /\ verdict[r] = "none"
               THEN proven \cup ({user[r].secret} \ {NoSecret}) ELSE proven
  /\ Release(r)
  /\ UNCHANGED <<user, loaded, verdict, secrets, batches, disturbed>>

(* The request fails before, or at, the commit.                            *)
Rollback(r) ==
  /\ stage[r] \notin {"new", "done"}
  /\ Release(r)
  /\ UNCHANGED <<row, user, loaded, verdict, secrets, batches, spent, proven, disturbed>>

Next ==
  \E r \in Requests :
    \/ \E call \in Changes \cup {"verify"} : Load(r, call)
    \/ Enroll(r) \/ Disable(r) \/ Commit(r) \/ Rollback(r)
    \/ \E s \in 0 .. secrets : Confirm(r, s) \/ Verify(r, s)
    \/ \E code \in Codes \cup {NoCode} : Consume(r, code)

Spec == Init /\ [][Next]_vars

(***************************************************************************)
(* Properties                                                              *)
(***************************************************************************)

(* A recovery code "works exactly once" (docs/mfa.md:143-146): no two      *)
(* requests are granted for it, also if one waits for the other's lock, nor *)
(* is it in a list again, whatever else is saved meanwhile                 *)
(* (mfa.py:166-173).                                                       *)
SpentIsGone ==
  \A c \in Codes : spent[c] > 0 => spent[c] = 1 /\ c \notin row.codes

(* A user whose second factor is on can pass it: the secret in the row is  *)
(* one that an app has shown a live code of (mfa.py:120-125, 132-148).     *)
(* Excepted are two changes at a time, of which each writes its own        *)
(* columns, and enroll() for an enabled user, which takes effect at once.  *)
EnabledCanPass == row.enabled => disturbed \/ row.secret \in proven
=============================================================================
