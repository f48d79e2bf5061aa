-------------------------- MODULE WebhookDelivery --------------------------
(***************************************************************************)
(* src/src/zeython/webhooks.py, DeliverWebhookJob: one delivery of one     *)
(* event to one endpoint, attempted by a queue (queue.py) in a database    *)
(* session per attempt.  deliver() writes its row of the delivery log in   *)
(* that session, and raises when the receiver did not answer 2xx.          *)
(***************************************************************************)
EXTENDS Naturals, Sequences

CONSTANTS Jobs,        \* the deliveries, each to an endpoint of its own
          MaxAttempts  \* DeliverWebhookJob.max_attempts

VARIABLES
  active,    \* of each endpoint: the committed row is there and active
  stage,     \* of a job
  attempts,  \* of a job
  answer,    \* of a job's attempt: what came of its POST
  log,       \* of a job: the committed rows of the delivery log
  posts,     \* of a job: the requests that were sent
  received   \* of a job: the requests that the receiver has got

vars == <<active, stage, attempts, answer, log, posts, received>>

Answers == {"none", "2xx", "error", "timeout"}
Stages == {"queued", "running", "posted", "succeeded", "raised", "done", "buried", "lost"}
Over == {"done", "buried", "lost"}

TypeOK ==
  /\ active \in [Jobs -> BOOLEAN]
  /\ stage \in [Jobs -> Stages] /\ attempts \in [Jobs -> 0 .. MaxAttempts]
  /\ answer \in [Jobs -> Answers]
  /\ log \in [Jobs -> Seq(Answers \ {"none"})]
  /\ posts \in [Jobs -> 0 .. MaxAttempts] /\ received \in [Jobs -> 0 .. MaxAttempts]

Init ==
  /\ active = [j \in Jobs |-> TRUE]
  /\ stage = [j \in Jobs |-> "queued"] /\ attempts = [j \in Jobs |-> 0]
  /\ answer = [j \in Jobs |-> "none"] /\ log = [j \in Jobs |-> <<>>]
  /\ posts = [j \in Jobs |-> 0] /\ received = [j \in Jobs |-> 0]

Become(j, s) == stage' = [stage EXCEPT ![j] = s]

(* An operator disables, deletes or enables the endpoint.                  *)
Toggle(j) ==
  /\ active' = [active EXCEPT ![j] = ~@]
  /\ UNCHANGED <<stage, attempts, answer, log, posts, received>>

(* deliver() fetches the endpoint again; one that is off is skipped.       *)
Fetch(j) ==
  /\ stage[j] = "queued"
  /\ attempts' = [attempts EXCEPT ![j] = @ + 1]
  /\ answer' = [answer EXCEPT ![j] = "none"]
  /\ Become(j, IF active[j] THEN "running" ELSE "succeeded")
  /\ UNCHANGED <<active, log, posts, received>>

(* client.post() and raise_for_status(): a request that timed out may have *)
(* arrived.                                                                *)
Post(j, a) ==
  /\ stage[j] = "running" /\ a # "none"
  /\ posts' = [posts EXCEPT ![j] = @ + 1]
  /\ answer' = [answer EXCEPT ![j] = a]
  /\ \E got \in IF a = "timeout" THEN {0, 1} ELSE {1} :
       received' = [received EXCEPT ![j] = @ + got]
  /\ Become(j, "posted")
  /\ UNCHANGED <<active, attempts, log>>

(* Mutant: the row is committed by itself.                                 *)
CreateRowApart(j) ==
  /\ stage[j] = "posted"
  /\ log' = [log EXCEPT ![j] = Append(@, answer[j])]
  /\ Become(j, IF answer[j] = "2xx" THEN "succeeded" ELSE "raised")
  /\ answer' = [answer EXCEPT ![j] = "none"]
  /\ UNCHANGED <<active, attempts, posts, received>>

(* `finally`: the row is flushed, and the error, if there was one, goes on.*)
CreateRow(j) ==
  /\ stage[j] = "posted"
  /\ Become(j, IF answer[j] = "2xx" THEN "succeeded" ELSE "raised")
  /\ UNCHANGED <<active, attempts, answer, log, posts, received>>

(* The row cannot be written: this error leaves deliver() in any case.     *)
CreateRowFails(j) ==
  /\ stage[j] = "posted"
  /\ Become(j, "raised")
  /\ UNCHANGED <<active, attempts, answer, log, posts, received>>

(* database.session() commits when handle() has returned.                  *)
Commit(j) ==
  /\ stage[j] = "succeeded"
  /\ log' = IF answer[j] = "none" THEN log ELSE [log EXCEPT ![j] = Append(@, answer[j])]
  /\ Become(j, "done")
  /\ UNCHANGED <<active, attempts, answer, posts, received>>

CommitFails(j) ==
  /\ stage[j] = "succeeded"
  /\ Become(j, "raised")
  /\ UNCHANGED <<active, attempts, answer, log, posts, received>>

(* The session is rolled back; the queue retries, or gives up.             *)
Retry(j) ==
  /\ stage[j] = "raised"
  /\ Become(j, IF attempts[j] < MaxAttempts THEN "queued" ELSE "buried")
  /\ UNCHANGED <<active, attempts, answer, log, posts, received>>

(* The worker dies with the job.                                           *)
Crash(j) ==
  /\ stage[j] \notin Over
  /\ Become(j, "lost")
  /\ UNCHANGED <<active, attempts, answer, log, posts, received>>

Next ==
  \E j \in Jobs :
    \/ Toggle(j) \/ Fetch(j) \/ CreateRow(j) \/ CreateRowFails(j)
    \/ \E a \in Answers : Post(j, a)
    \/ Commit(j) \/ CommitFails(j) \/ Retry(j) \/ Crash(j)

Spec == Init /\ [][Next]_vars

(***************************************************************************)
(* Properties                                                              *)
(***************************************************************************)

(* A delivery that the log calls successful was the last one: the row is   *)
(* committed together with the job, also when a commit fails after the     *)
(* receiver has answered, and nothing is sent after it.                    *)
LoggedIsLast ==
  [][\A j \in Jobs : (\E i \in DOMAIN log[j] : log[j][i] = "2xx") =>
       posts'[j] = posts[j] /\ Len(log'[j]) = Len(log[j])]_vars

(* "every attempt writes its own row, so you can see exactly when a        *)
(* subscriber started failing" (docs/webhooks.md:191-193).  The model      *)
(* leaves a crash out of account.                                          *)
AttemptsLogged ==
  \A j \in Jobs : stage[j] = "buried" => Len(log[j]) = posts[j]
=============================================================================
