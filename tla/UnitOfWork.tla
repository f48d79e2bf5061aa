----------------------------- MODULE UnitOfWork -----------------------------
(***************************************************************************)
(* src/src/zeython/db/session.py with Queue._invoke() of queue.py: which   *)
(* writes become visible.  A request runs in the session that              *)
(* DatabaseSessionMiddleware opens; transaction() sets savepoints in the   *)
(* current session; a job that SyncQueue runs inside the request has a     *)
(* session of its own.                                                     *)
(*                                                                         *)
(* `code` is what the text of the handler says: the blocks it is in, and   *)
(* what was written in each.  The program does not have it; it knows one   *)
(* ContextVar, the current session, and the sessions' own state.           *)
(*                                                                         *)
(* Assumption: close() (session.py:100, 231) does not raise.  The pool     *)
(* turns an error of the connection into its invalidation; what is left is *)
(* the cancellation of the task, which ends, and its context with it.      *)
(***************************************************************************)
EXTENDS Naturals, Sequences, FiniteSets, SequencesExt

CONSTANTS Requests,
          MaxWrites,    \* bound on the writes of a request and its jobs
          MaxDepth,     \* bound on nested blocks
          MaxFailures,  \* bound on commits that fail
          None

VARIABLES stage,    \* where each request is
          told,     \* the status the client was sent
          current,  \* _current_session in the request's context
          levels,   \* the writes of each session, a set per savepoint level
          visible,  \* the rows in the database
          code,     \* the blocks the handler's text is in, with their writes
          due,      \* the rows the text of the finished blocks has committed
          writes, failures

vars == <<stage, told, current, levels, visible, code, due, writes, failures>>

Writes == Requests \X (1 .. MaxWrites)
SessionNames == {"request", "job"}
Kinds == SessionNames \cup {"savepoint"}
KindsOf(r) == {code[r][i].kind : i \in DOMAIN code[r]}

TypeOK ==
  /\ stage \in [Requests -> {"new", "running", "raising", "answered", "closed"}]
  /\ told \in [Requests -> {"nothing", "ok", "error"}]
  /\ current \in [Requests -> SessionNames \cup {None}]
  /\ levels \in [Requests -> [SessionNames -> Seq(SUBSET Writes)]]
  /\ \A r \in Requests : \A s \in SessionNames : levels[r][s] # <<>> => s \in KindsOf(r)
  /\ visible \in SUBSET Writes
  /\ code \in [Requests -> Seq([kind : Kinds, rows : SUBSET Writes])]
  /\ \A r \in Requests : code[r] = <<>> <=> stage[r] \in {"new", "closed"}
  /\ due \in SUBSET Writes
  /\ writes \in [Requests -> 0 .. MaxWrites]
  /\ failures \in 0 .. MaxFailures

Init ==
  /\ stage = [r \in Requests |-> "new"]
  /\ told = [r \in Requests |-> "nothing"]
  /\ current = [r \in Requests |-> None]
  /\ levels = [r \in Requests |-> [s \in SessionNames |-> <<>>]]
  /\ visible = {}
  /\ code = [r \in Requests |-> <<>>]
  /\ due = {}
  /\ writes = [r \in Requests |-> 0]
  /\ failures = 0

Block(kind) == [kind |-> kind, rows |-> {}]
Innermost(r) == Last(code[r])

(* The rows of a set of levels or of blocks.                               *)
All(sets) == UNION {sets[i] : i \in DOMAIN sets}

SetLevels(r, s, sets) == levels' = [levels EXCEPT ![r][s] = sets]

(***************************************************************************)
(* The handler                                                             *)
(***************************************************************************)

(* session_factory(), _current_session.set()                               *)
Begin(r) ==
  /\ stage[r] = "new"
  /\ stage' = [stage EXCEPT ![r] = "running"]
  /\ code' = [code EXCEPT ![r] = <<Block("request")>>]
  /\ current' = [current EXCEPT ![r] = "request"]
  /\ SetLevels(r, "request", <<{}>>)
  /\ UNCHANGED <<told, visible, due, writes, failures>>

(* A Model method writes in current_session(), the background task of a    *)
(* response included.  A session that was closed takes the write and never *)
(* commits it (queue.py:100-103).                                          *)
Write(r) ==
  /\ stage[r] \in {"running", "answered"} /\ writes[r] < MaxWrites
  /\ writes' = [writes EXCEPT ![r] = @ + 1]
  /\ LET row == <<r, writes'[r]>>
         s == current[r]
         n == Len(levels[r][s])
     IN /\ IF n = 0 THEN UNCHANGED levels
                    ELSE levels' = [levels EXCEPT ![r][s][n] = @ \cup {row}]
        /\ code' = [code EXCEPT ![r][Len(code[r])].rows = @ \cup {row}]
  /\ UNCHANGED <<stage, told, current, visible, due, failures>>

(* async with transaction(): session.begin_nested()                        *)
EnterTransaction(r) ==
  /\ stage[r] = "running" /\ Len(code[r]) < MaxDepth
  /\ code' = [code EXCEPT ![r] = Append(@, Block("savepoint"))]
  /\ SetLevels(r, current[r], Append(levels[r][current[r]], {}))
  /\ UNCHANGED <<stage, told, current, visible, due, writes, failures>>

(* The savepoint is released: its writes are now those around it.          *)
LeaveTransaction(r) ==
  /\ stage[r] = "running" /\ Innermost(r).kind = "savepoint"
  /\ LET s == current[r]
         sets == levels[r][s]
         n == Len(sets)
         outer == Len(code[r]) - 1
     IN /\ SetLevels(r, s, [Front(sets) EXCEPT ![n - 1] = @ \cup sets[n]])
        /\ code' = [code EXCEPT ![r] =
             [Front(code[r]) EXCEPT ![outer].rows = @ \cup Innermost(r).rows]]
  /\ UNCHANGED <<stage, told, current, visible, due, writes, failures>>

(* SyncQueue.push(): _invoke() enters database.session().                  *)
EnterJob(r) ==
  /\ stage[r] = "running" /\ Len(code[r]) < MaxDepth /\ "job" \notin KindsOf(r)
  /\ code' = [code EXCEPT ![r] = Append(@, Block("job"))]
  /\ current' = [current EXCEPT ![r] = "job"]
  /\ SetLevels(r, "job", <<{}>>)
  /\ UNCHANGED <<stage, told, visible, due, writes, failures>>

(* Mutant: the ContextVar keeps the session that was closed.               *)
CloseJobUnreset(r) ==
  /\ SetLevels(r, "job", <<>>)
  /\ UNCHANGED current

(* `finally`: session.close(), _current_session.reset(token)               *)
CloseJob(r) ==
  /\ SetLevels(r, "job", <<>>)
  /\ current' = [current EXCEPT ![r] = "request"]

(* The job's handle() has returned: commit, or a commit that raises.       *)
LeaveJob(r) ==
  /\ stage[r] = "running" /\ Innermost(r).kind = "job"
  /\ \/ /\ visible' = visible \cup All(levels[r]["job"])
        /\ due' = due \cup Innermost(r).rows
        /\ UNCHANGED <<stage, failures>>
     \/ /\ failures < MaxFailures /\ failures' = failures + 1
        /\ stage' = [stage EXCEPT ![r] = "raising"]
        /\ UNCHANGED <<visible, due>>
  /\ code' = [code EXCEPT ![r] = Front(@)]
  /\ CloseJob(r)
  /\ UNCHANGED <<told, writes>>

(***************************************************************************)
(* Exceptions                                                              *)
(***************************************************************************)

Raise(r) ==
  /\ stage[r] \in {"running", "answered"}
  /\ stage' = [stage EXCEPT ![r] = "raising"]
  /\ UNCHANGED <<told, current, levels, visible, code, due, writes, failures>>

(* The handler, or the job, catches it between two blocks.                 *)
Catch(r) ==
  /\ stage[r] = "raising" /\ told[r] = "nothing"
  /\ stage' = [stage EXCEPT ![r] = "running"]
  /\ UNCHANGED <<told, current, levels, visible, code, due, writes, failures>>

(* ROLLBACK TO SAVEPOINT; the exception goes on.                           *)
TransactionRaises(r) ==
  /\ stage[r] = "raising" /\ Innermost(r).kind = "savepoint"
  /\ SetLevels(r, current[r], Front(levels[r][current[r]]))
  /\ code' = [code EXCEPT ![r] = Front(@)]
  /\ UNCHANGED <<stage, told, current, visible, due, writes, failures>>

(* database.session(): rollback; SyncQueue lets the exception through.     *)
JobRaises(r) ==
  /\ stage[r] = "raising" /\ Innermost(r).kind = "job"
  /\ code' = [code EXCEPT ![r] = Front(@)]
  /\ CloseJob(r)
  /\ UNCHANGED <<stage, told, visible, due, writes, failures>>

(***************************************************************************)
(* DatabaseSessionMiddleware                                               *)
(***************************************************************************)

(* The handler returns a response, below 400 or not, and it is sent.       *)
Respond(r, status) ==
  /\ stage[r] = "running" /\ Innermost(r).kind = "request"
  /\ stage' = [stage EXCEPT ![r] = "answered"]
  /\ told' = [told EXCEPT ![r] = status]
  /\ UNCHANGED <<current, levels, visible, code, due, writes, failures>>

(* Starlette's ExceptionMiddleware, inside this one, answers an            *)
(* HTTPException: nothing is raised any more.                              *)
RespondHandled(r) ==
  /\ stage[r] = "raising" /\ Innermost(r).kind = "request" /\ told[r] = "nothing"
  /\ stage' = [stage EXCEPT ![r] = "answered"]
  /\ told' = [told EXCEPT ![r] = "error"]
  /\ UNCHANGED <<current, levels, visible, code, due, writes, failures>>

(* Mutant: "commit unless an exception propagates".                        *)
CommitsAlways(r) == TRUE

(* status_code < 400                                                       *)
Commits(r) == told[r] = "ok"

(* Mutant: the session is not closed.                                      *)
CloseLeaks(r) ==
  /\ stage' = [stage EXCEPT ![r] = "closed"]
  /\ code' = [code EXCEPT ![r] = <<>>]
  /\ current' = [current EXCEPT ![r] = None]
  /\ UNCHANGED levels

Close(r) ==
  /\ stage' = [stage EXCEPT ![r] = "closed"]
  /\ code' = [code EXCEPT ![r] = <<>>]
  /\ current' = [current EXCEPT ![r] = None]
  /\ SetLevels(r, "request", <<>>)

End(r) ==
  /\ stage[r] = "answered"
  /\ visible' = IF Commits(r) THEN visible \cup All(levels[r]["request"]) ELSE visible
  /\ due' = IF told[r] = "ok" THEN due \cup Innermost(r).rows ELSE due
  /\ Close(r)
  /\ UNCHANGED <<told, writes, failures>>

(* An exception, or one of session.commit(), leaves the middleware.        *)
EndRaises(r) ==
  /\ \/ stage[r] = "raising" /\ Innermost(r).kind = "request"
        /\ UNCHANGED failures
     \/ stage[r] = "answered" /\ Commits(r)
        /\ failures < MaxFailures /\ failures' = failures + 1
  /\ told' = [told EXCEPT ![r] = IF @ = "nothing" THEN "error" ELSE @]
  /\ Close(r)
  /\ UNCHANGED <<visible, due, writes>>

Next == \E r \in Requests :
          \/ Begin(r) \/ Write(r) \/ EnterTransaction(r) \/ LeaveTransaction(r)
          \/ EnterJob(r) \/ LeaveJob(r) \/ Raise(r) \/ Catch(r)
          \/ TransactionRaises(r) \/ JobRaises(r)
          \/ \E status \in {"ok", "error"} : Respond(r, status)
          \/ RespondHandled(r) \/ End(r) \/ EndRaises(r)

Spec == Init /\ [][Next]_vars

(***************************************************************************)
(* Properties                                                              *)
(***************************************************************************)

(* What is in the database is what the text of the handlers says: each     *)
(* request's own writes if its status was below 400, each job's if the job *)
(* succeeded, without those of a transaction() block that raised, and      *)
(* nothing of a request that goes on (session.py:148-178, 181-232;         *)
(* queue.py:93-109).                                                       *)
VisibleAsWritten == visible = due

(* Between its blocks a request has the session it had before them, and    *)
(* none when it is over (session.py:92-101, 219-232).                      *)
OwnSession ==
  \A r \in Requests :
    IF stage[r] \in {"new", "closed"} THEN current[r] = None
    ELSE current[r] = IF "job" \in KindsOf(r) THEN "job" ELSE "request"
=============================================================================
