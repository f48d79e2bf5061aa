---------------------------- MODULE RequestStack ----------------------------
(***************************************************************************)
(* application.py and the ASGI middleware the framework's providers add: a *)
(* request goes down the layers to the routed handler and back up, or an   *)
(* exception does.  Layers pass facts to the code inside them in           *)
(* ContextVars.  A ContextVar belongs to an asyncio task: a server gives   *)
(* each request a task, testing.client() runs many in one, and a task      *)
(* starts with a copy of its creator's context.                            *)
(*                                                                         *)
(* A layer has the name of its module.  The value r of a ContextVar is the *)
(* one request r put there: its ID, its tenant, its list of queries.       *)
(***************************************************************************)
EXTENDS Naturals, Sequences, FiniteSets, SequencesExt

CONSTANTS Requests, Tasks,
          Providers,        \* the providers that add a layer, as registered
          MaxBootFailures,  \* bound on the boots that raise
          MaxDowns,         \* bound on `zeython down`
          MaxJobs,          \* bound on the jobs pushed to InMemoryQueue
          Staff,            \* the requests from an address that is let through
          Worker,           \* the task of the queue's worker
          Torn,             \* a maintenance file that does not parse
          None

(* The layers that bind a ContextVar, and those that may bind None to it.  *)
ContextLayers == {"request_id", "audit_log", "session", "profiler", "tenancy",
                  "localization", "n_plus_one", "tracing"}
Unresolved == {"audit_log", "tenancy"}

Layers == Range(Providers)
Vars == ContextLayers \cap Layers
Jobs == 1 .. MaxJobs

ASSUME StackAssumption ==
  /\ \A i, j \in DOMAIN Providers : Providers[i] = Providers[j] => i = j
  /\ Layers \subseteq ContextLayers \cup {"metrics", "maintenance"}
  /\ {"request_id", "profiler"} \subseteq Layers
  /\ Worker \notin Tasks /\ None \notin Requests \cup Tasks \cup Jobs \cup {Torn}

ASSUME LayersAssumption ==
  /\ Providers \in Seq(Layers) /\ "metrics" \in Layers
  /\ \A i \in DOMAIN Providers : Providers[i] = "maintenance" => i = Len(Providers)
  /\ IsFiniteSet(Requests) /\ MaxJobs \in Nat /\ Requests \cap Jobs = {}
  /\ \A S \in SUBSET (Requests \cup Jobs) : S # None
  /\ None \notin {"ok", "error", "crash", "down", "redirect"}

VARIABLES
  booted, bootFailures, \* _booted_provider_count, the boots that raised
  middleware,           \* Application._middleware, the outermost layer first
  built,                \* _asgi is not None
  flag, downs,          \* the maintenance file, the `zeython down`s so far
  cookie,               \* the visitors' bypass cookie
  stage, at, task,      \* of a request: what goes on, in which layer, where
  context,              \* the ContextVars of each task
  token,                \* what each of a request's layers found in its own
  queries,              \* the list of queries of each request: who ran them
  told,                 \* the status its client got
  stash,                \* what the layers left on its exception
  raisedIn,             \* the layer it was raised in, the handler's is the last
  report,               \* what the crash report said
  gauge, counted,       \* http_requests_in_progress, http_requests_total
  jobs, pushed          \* the jobs that wait, the number of all of them

application == <<booted, bootFailures, middleware, built>>
maintenance == <<flag, downs, cookie>>
exception == <<stash, raisedIn, report>>
metrics == <<gauge, counted>>
worker == <<jobs, pushed>>
vars == <<application, maintenance, stage, at, task, context, token, queries,
          told, exception, metrics, worker>>

Blank == [v \in Vars |-> None]
Nothing == [id |-> None, queries |-> None]

Facts == [id : Requests \cup {None},
          queries : (SUBSET (Requests \cup Jobs)) \cup {None}]

TypeOK ==
  /\ booted \in 0 .. Len(Providers) /\ bootFailures \in 0 .. MaxBootFailures
  /\ middleware \in Seq(Layers) /\ built \in BOOLEAN
  /\ flag \in {None, Torn} \cup 1 .. MaxDowns /\ downs \in 0 .. MaxDowns
  /\ cookie \in {None} \cup 1 .. MaxDowns
  /\ stage \in [Requests -> {"new", "down", "handler", "up", "raising",
                             "cancelled", "done"}]
  /\ at \in [Requests -> 0 .. Len(Providers) + 1]
  /\ task \in [Requests -> Tasks \cup {None}]
  /\ context \in [Tasks \cup {Worker} -> [Vars -> Requests \cup {None}]]
  /\ token \in [Requests -> [Vars -> Requests \cup {None}]]
  /\ queries \in [Requests -> SUBSET (Requests \cup Jobs)]
  /\ told \in [Requests -> {None, "ok", "error", "crash", "down", "redirect"}]
  /\ stash \in [Requests -> Facts]
  /\ report \in [Requests -> Facts \cup {None}]
  /\ raisedIn \in [Requests -> 0 .. Len(Providers) + 1]
  /\ gauge \in Int /\ counted \in [Requests -> Seq({"ok", "error", "crash"})]
  /\ jobs \in Seq(Jobs) /\ pushed \in 0 .. MaxJobs

Init ==
  /\ booted = 0 /\ bootFailures = 0 /\ middleware = <<>> /\ built = FALSE
  /\ flag = None /\ downs = 0 /\ cookie = None
  /\ stage = [r \in Requests |-> "new"]
  /\ at = [r \in Requests |-> 0]
  /\ task = [r \in Requests |-> None]
  /\ context = [t \in Tasks \cup {Worker} |-> Blank]
  /\ token = [r \in Requests |-> Blank]
  /\ queries = [r \in Requests |-> {}]
  /\ told = [r \in Requests |-> None]
  /\ stash = [r \in Requests |-> Nothing]
  /\ raisedIn = [r \in Requests |-> 0]
  /\ report = [r \in Requests |-> None]
  /\ gauge = 0 /\ counted = [r \in Requests |-> <<>>]
  /\ jobs = <<>> /\ pushed = 0

(***************************************************************************)
(* Application                                                             *)
(***************************************************************************)

(* Mutant: add_middleware() appends.                                       *)
WithLayersInside(providers) == middleware \o providers

(* add_middleware() of the boot() of each of these providers in turn.      *)
WithLayersOf(providers) == Reverse(providers) \o middleware

(* Mutant: a retry boots every provider again.                             *)
BootAgain(last) ==
  /\ middleware' = WithLayersOf(SubSeq(Providers, 1, last))
  /\ booted' = last
  /\ built' = (last = Len(Providers))

(* Mutant: the provider is counted before it boots.                        *)
BootCountedFirst(last) ==
  /\ middleware' = WithLayersOf(SubSeq(Providers, booted + 1, last))
  /\ booted' = last + 1
  /\ built' = (last = Len(Providers))

(* _build_asgi() boots the providers that have not booted.  One may raise; *)
(* the next request goes on with it.                                       *)
Boot(last) ==
  /\ middleware' = WithLayersOf(SubSeq(Providers, booted + 1, last))
  /\ booted' = last
  /\ built' = (last = Len(Providers))

(* __call__(): the first request builds the app, in one step for all       *)
(* others.  Where a boot raises, the server has no app to answer with.     *)
Call(r, t) ==
  /\ stage[r] = "new" /\ \A q \in Requests : task[q] # t
  /\ \/ /\ built
        /\ stage' = [stage EXCEPT ![r] = "down"]
        /\ task' = [task EXCEPT ![r] = t] /\ at' = [at EXCEPT ![r] = 1]
        /\ UNCHANGED <<application, told>>
     \/ /\ ~built /\ Boot(Len(Providers)) /\ UNCHANGED bootFailures
        /\ stage' = [stage EXCEPT ![r] = "down"]
        /\ task' = [task EXCEPT ![r] = t] /\ at' = [at EXCEPT ![r] = 1]
        /\ UNCHANGED told
     \/ /\ ~built /\ bootFailures < MaxBootFailures
        /\ \E last \in booted .. Len(Providers) - 1 : Boot(last)
        /\ bootFailures' = bootFailures + 1
        /\ stage' = [stage EXCEPT ![r] = "done"]
        /\ told' = [told EXCEPT ![r] = "crash"]
        /\ UNCHANGED <<at, task>>
  /\ UNCHANGED <<maintenance, context, token, queries, exception,
                 metrics, worker>>

(***************************************************************************)
(* Maintenance mode, from a console                                        *)
(***************************************************************************)

(* write_text() empties the file before it writes it.                      *)
StartDown ==
  /\ downs < MaxDowns /\ flag # Torn
  /\ downs' = downs + 1 /\ flag' = Torn
  /\ UNCHANGED <<application, cookie, stage, at, task, context, token, queries,
                 told, exception, metrics, worker>>

(* Each maintenance has a secret of its own.                               *)
FinishDown ==
  /\ flag = Torn /\ flag' = downs
  /\ UNCHANGED <<application, downs, cookie, stage, at, task, context, token,
                 queries, told, exception, metrics, worker>>

Up ==
  /\ flag \in 1 .. MaxDowns /\ flag' = None
  /\ UNCHANGED <<application, downs, cookie, stage, at, task, context, token,
                 queries, told, exception, metrics, worker>>

(***************************************************************************)
(* Down the layers                                                         *)
(***************************************************************************)

Layer(r) == middleware[at[r]]
OnTheWayDown(r) == stage[r] = "down" /\ at[r] <= Len(middleware)
Inwards(r) == at' = [at EXCEPT ![r] = @ + 1] /\ UNCHANGED stage

Bind(r, v, value) ==
  /\ token' = [token EXCEPT ![r][v] = context[task[r]][v]]
  /\ context' = [context EXCEPT ![task[r]][v] = value]

(* __call__() of the middleware that binds a ContextVar: the resolver of a *)
(* tenant, and that of the actor, may find none.                           *)
EnterContext(r) ==
  /\ OnTheWayDown(r) /\ Layer(r) \in Vars
  /\ \/ Bind(r, Layer(r), r)
     \/ Layer(r) \in Unresolved /\ Bind(r, Layer(r), None)
  /\ Inwards(r)
  /\ UNCHANGED <<application, maintenance, task, queries, told, exception,
                 metrics, worker>>

(* The app's resolver of tenants raises before anything is bound.          *)
ResolverRaises(r) ==
  /\ OnTheWayDown(r) /\ Layer(r) = "tenancy"
  /\ stage' = [stage EXCEPT ![r] = "raising"]
  /\ raisedIn' = [raisedIn EXCEPT ![r] = at[r]]
  /\ at' = [at EXCEPT ![r] = @ - 1]
  /\ UNCHANGED <<application, maintenance, task, context, token, queries, told,
                 stash, report, metrics, worker>>

EnterMetrics(r) ==
  /\ OnTheWayDown(r) /\ Layer(r) = "metrics"
  /\ gauge' = gauge + 1
  /\ Inwards(r)
  /\ UNCHANGED <<application, maintenance, task, context, token, queries, told,
                 exception, counted, worker>>

(* The response starts: every send() outside this layer sees the status.   *)
Respond(r, status) == told' = [told EXCEPT ![r] = status]

Answer(r, status) ==
  /\ Respond(r, status)
  /\ stage' = [stage EXCEPT ![r] = "up"] /\ at' = [at EXCEPT ![r] = @ - 1]

(* MaintenanceModeMiddleware: a file that is absent, or does not parse,    *)
(* stops nobody.                                                           *)
EnterMaintenance(r) ==
  /\ OnTheWayDown(r) /\ Layer(r) = "maintenance"
  /\ \/ /\ flag \in {None, Torn, cookie} \/ r \in Staff
        /\ Inwards(r) /\ UNCHANGED <<told, cookie>>
     \/ /\ flag \in 1 .. MaxDowns \ {cookie} /\ r \notin Staff
        /\ Answer(r, "down") /\ UNCHANGED cookie
     \/ /\ flag \in 1 .. MaxDowns
        /\ Answer(r, "redirect") /\ cookie' = flag
  /\ UNCHANGED <<application, flag, downs, task, context, token, queries,
                 exception, metrics, worker>>

(***************************************************************************)
(* The handler                                                             *)
(***************************************************************************)

Dispatch(r) ==
  /\ stage[r] = "down" /\ at[r] = Len(middleware) + 1
  /\ stage' = [stage EXCEPT ![r] = "handler"]
  /\ UNCHANGED <<application, maintenance, at, task, context, token, queries,
                 told, exception, metrics, worker>>

(* _after_cursor_execute() in the context c.                               *)
Profile(c, who) ==
  IF c["profiler"] = None THEN UNCHANGED queries
  ELSE queries' = [queries EXCEPT ![c["profiler"]] = @ \cup {who}]

Query(r) ==
  /\ stage[r] = "handler"
  /\ Profile(context[task[r]], r)
  /\ UNCHANGED <<application, maintenance, stage, at, task, context, token,
                 told, exception, metrics, worker>>

(* InMemoryQueue.push(): the first push creates the worker's task, with a  *)
(* copy of the pushing request's context.                                  *)
Push(r) ==
  /\ stage[r] = "handler" /\ pushed < MaxJobs
  /\ pushed' = pushed + 1 /\ jobs' = Append(jobs, pushed')
  /\ IF pushed = 0 THEN context' = [context EXCEPT ![Worker] = context[task[r]]]
                   ELSE UNCHANGED context
  /\ UNCHANGED <<application, maintenance, stage, at, task, token, queries,
                 told, exception, metrics>>

(* A job that queries runs in the worker's context.                        *)
RunJob ==
  /\ jobs # <<>>
  /\ jobs' = Tail(jobs)
  /\ Profile(context[Worker], Head(jobs))
  /\ UNCHANGED <<application, maintenance, stage, at, task, context, token,
                 told, exception, metrics, pushed>>

(* The handler returns, or raises an HTTPException, which Starlette's      *)
(* ExceptionMiddleware answers inside every layer.                         *)
Return(r) ==
  /\ stage[r] = "handler" /\ told[r] = None
  /\ \E status \in {"ok", "error"} : Answer(r, status)
  /\ UNCHANGED <<application, maintenance, task, context, token, queries,
                 exception, metrics, worker>>

(* It starts a response whose background task then goes on.                *)
StartResponse(r) ==
  /\ stage[r] = "handler" /\ told[r] = None
  /\ Respond(r, "ok")
  /\ UNCHANGED <<application, maintenance, stage, at, task, context, token,
                 queries, exception, metrics, worker>>

FinishResponse(r) ==
  /\ stage[r] = "handler" /\ told[r] # None
  /\ stage' = [stage EXCEPT ![r] = "up"] /\ at' = [at EXCEPT ![r] = @ - 1]
  /\ UNCHANGED <<application, maintenance, task, context, token, queries, told,
                 exception, metrics, worker>>

(* It raises any other exception, or is cancelled.                         *)
Raise(r) ==
  /\ stage[r] = "handler"
  /\ \E how \in {"raising", "cancelled"} : stage' = [stage EXCEPT ![r] = how]
  /\ raisedIn' = [raisedIn EXCEPT ![r] = at[r]]
  /\ at' = [at EXCEPT ![r] = @ - 1]
  /\ UNCHANGED <<application, maintenance, task, context, token, queries, told,
                 stash, report, metrics, worker>>

(***************************************************************************)
(* Up the layers                                                           *)
(***************************************************************************)

Leaving(r) == stage[r] \in {"up", "raising", "cancelled"} /\ at[r] > 0
Raising(r) == stage[r] \in {"raising", "cancelled"}
Outwards(r) == at' = [at EXCEPT ![r] = @ - 1]

(* Mutant: a crash leaves the ContextVar bound, for the report to read.    *)
UnbindUnlessRaising(r, v) ==
  /\ token' = [token EXCEPT ![r][v] = None]
  /\ IF Raising(r) THEN UNCHANGED context
                    ELSE context' = [context EXCEPT ![task[r]][v] = token[r][v]]

(* ContextVar.reset(), in a finally.                                       *)
Unbind(r, v) ==
  /\ context' = [context EXCEPT ![task[r]][v] = token[r][v]]
  /\ token' = [token EXCEPT ![r][v] = None]

(* Mutant: nothing is left on the exception.                               *)
StashNothing(r) == UNCHANGED stash

(* The layers that leave a fact on the exception, as the code that reads   *)
(* it is outside them all.                                                 *)
Stash(r) ==
  stash' = [stash EXCEPT ![r] =
              IF ~Raising(r) THEN @
              ELSE IF Layer(r) = "request_id" THEN [stash[r] EXCEPT !.id = r]
              ELSE IF Layer(r) = "profiler"
                     THEN [stash[r] EXCEPT !.queries = queries[r]]
              ELSE @]

(* The session's commit may fail on the way out, the response already sent.*)
(* Its close() does not raise, as in UnitOfWork.                           *)
LeaveContext(r) ==
  /\ Leaving(r) /\ Layer(r) \in Vars
  /\ Unbind(r, Layer(r)) /\ Stash(r) /\ Outwards(r)
  /\ \/ UNCHANGED <<stage, raisedIn>>
     \/ /\ Layer(r) = "session" /\ stage[r] = "up" /\ told[r] = "ok"
        /\ stage' = [stage EXCEPT ![r] = "raising"]
        /\ raisedIn' = [raisedIn EXCEPT ![r] = at[r]]
  /\ UNCHANGED <<application, maintenance, task, queries, told, report,
                 metrics, worker>>

(* Mutant: not in a finally.                                               *)
LeaveMetricsInOrder(r) ==
  /\ Leaving(r) /\ Layer(r) = "metrics"
  /\ IF Raising(r) THEN UNCHANGED metrics
     ELSE /\ gauge' = gauge - 1
          /\ counted' = [counted EXCEPT ![r] = Append(@, told[r])]
  /\ Outwards(r)
  /\ UNCHANGED <<application, maintenance, stage, task, context, token, queries,
                 told, exception, worker>>

(* In a finally: 500 where no response has started.                        *)
LeaveMetrics(r) ==
  /\ Leaving(r) /\ Layer(r) = "metrics"
  /\ gauge' = gauge - 1
  /\ counted' = [counted EXCEPT
       ![r] = Append(@, IF told[r] = None THEN "crash" ELSE told[r])]
  /\ Outwards(r)
  /\ UNCHANGED <<application, maintenance, stage, task, context, token, queries,
                 told, exception, worker>>

LeaveMaintenance(r) ==
  /\ Leaving(r) /\ Layer(r) = "maintenance"
  /\ Outwards(r)
  /\ UNCHANGED <<application, maintenance, stage, task, context, token, queries,
                 told, exception, metrics, worker>>

(* Starlette's ServerErrorMiddleware, outside every layer, with            *)
(* unhandled_exception_handler(): what the layers did not leave on the     *)
(* exception is read from the ContextVar.                                  *)
ReportCrash(r) ==
  LET c == context[task[r]]
  IN report' = [report EXCEPT ![r] =
       [id |-> IF stash[r].id # None THEN stash[r].id ELSE c["request_id"],
        queries |-> IF stash[r].queries # None \/ c["profiler"] = None
                    THEN stash[r].queries ELSE queries[c["profiler"]]]]

(* Its lists are garbage from here on.                                     *)
Finish(r) ==
  /\ at[r] = 0 /\ stage[r] \in {"up", "raising", "cancelled"}
  /\ IF stage[r] = "raising"
     THEN /\ ReportCrash(r)
          /\ IF told[r] = None THEN Respond(r, "crash") ELSE UNCHANGED told
     ELSE UNCHANGED <<report, told>>
  /\ stage' = [stage EXCEPT ![r] = "done"] /\ task' = [task EXCEPT ![r] = None]
  /\ queries' = [queries EXCEPT ![r] = {}]
  /\ stash' = [stash EXCEPT ![r] = Nothing]
  /\ raisedIn' = [raisedIn EXCEPT ![r] = IF stage[r] = "raising" THEN @ ELSE 0]
  /\ UNCHANGED <<application, maintenance, at, context, token, metrics, worker>>

(* The event loop turns to another task only where a layer waits: for a    *)
(* resolver, for the handler, for the session to end, for the client.      *)
Waits(r) ==
  \/ stage[r] \in {"new", "handler", "done"}
  \/ stage[r] = "down" /\ at[r] <= Len(middleware) /\ Layer(r) \in Unresolved
  \/ Leaving(r) /\ Layer(r) = "session"
  \/ at[r] = 0

Idle(others) == \A q \in others : Waits(q)

Next ==
  \/ StartDown \/ FinishDown \/ Up
  \/ Idle(Requests) /\ RunJob
  \/ \E r \in Requests :
       /\ Idle(Requests \ {r})
       /\ \/ \E t \in Tasks : Call(r, t)
          \/ EnterContext(r) \/ ResolverRaises(r) \/ EnterMetrics(r)
          \/ EnterMaintenance(r) \/ Dispatch(r)
          \/ Query(r) \/ Push(r) \/ Return(r) \/ StartResponse(r)
          \/ FinishResponse(r) \/ Raise(r)
          \/ LeaveContext(r) \/ LeaveMetrics(r) \/ LeaveMaintenance(r) \/ Finish(r)

Spec == Init /\ [][Next]_vars

(***************************************************************************)
(* Properties                                                              *)
(***************************************************************************)

Depth(layer) == Len(Providers) + 1 -
                (CHOOSE i \in DOMAIN Providers : Providers[i] = layer)
Inside(r, layer) ==
  task[r] # None /\ at[r] >= Depth(layer) + (IF Leaving(r) THEN 0 ELSE 1)

(* boot() resumes after the provider that raised and adds no layer twice,  *)
(* and the layers are the providers' in reverse (application.py:98-109,    *)
(* 112-125).                                                               *)
BootedOnce ==
  /\ Range(middleware) = Range(SubSeq(Providers, 1, booted))
  /\ Len(middleware) = booted
  /\ built => middleware = Reverse(Providers)

(* Whatever was raised on the way, a task between two requests has the     *)
(* context it began with, and the code of a request finds its own facts    *)
(* (request_id.py:93-100, profiler.py:108-117).                            *)
ContextIsOwn ==
  \A t \in Tasks : \A v \in Vars :
    LET inside == {r \in Requests : task[r] = t /\ stage[r] = "handler"}
    IN /\ (\A r \in Requests : task[r] # t) => context[t][v] = None
       /\ \A r \in inside :
            \/ context[t][v] = r
            \/ v \in Unresolved /\ context[t][v] = None

(* A crash report names its own request, if the exception came through the *)
(* layer that knows its ID, and no other; the same of its queries          *)
(* (exceptions.py:153-170).                                                *)
ReportIsOwn ==
  \A r \in Requests : report[r] # None =>
    /\ report[r].id = IF raisedIn[r] > Depth("request_id") THEN r ELSE None
    /\ IF raisedIn[r] > Depth("profiler")
       THEN report[r].queries # None /\ report[r].queries \cap Requests \subseteq {r}
       ELSE report[r].queries = None

(* http_requests_in_progress is the number of requests inside the layer,   *)
(* and a request that was inside is counted once, under the status its     *)
(* client was told (metrics.py:278-303).                                   *)
MetricsAgree ==
  /\ gauge = Cardinality({r \in Requests : Inside(r, "metrics")})
  /\ \A r \in Requests :
       /\ Len(counted[r]) <= 1
       /\ counted[r] # <<>> /\ told[r] # None => counted[r] = <<told[r]>>
       /\ stage[r] = "done" /\ told[r] \in {"ok", "error"} => counted[r] # <<>>

(* Maintenance mode, registered last, refuses a request before anything    *)
(* else of it has run (maintenance.py:144-149).                            *)
RefusedFirst ==
  [][\A r \in Requests :
       told'[r] \in {"down", "redirect"} /\ told[r] = None => at[r] = 1]_vars

(* request_id() is None outside of a request (request_id.py:31), so is     *)
(* current_tenant_id() (tenancy.py:51).  A job of InMemoryQueue is not     *)
(* part of a request.                                                      *)
JobsOutsideRequests ==
  [][jobs # <<>> /\ jobs' = Tail(jobs) =>
       \A v \in Vars : context[Worker][v] = None]_vars
=============================================================================
