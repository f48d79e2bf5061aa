----------------------------- MODULE MCRequests -----------------------------
(***************************************************************************)
(* What one server or process does around the handlers, for TLC: requests  *)
(* on their way through the layers, their hits of a rate limiter, the      *)
(* cookies of a browser, callbacks of SAML, decisions of the Gate,         *)
(* responses and their headers, files, the container, the import of        *)
(* projects, routes, translations and metrics. A behaviour takes the steps *)
(* of one of them; the others stay as they began.                          *)
(***************************************************************************)
EXTENDS RequestStack, TLC

CONSTANTS
  r1, r2, t1, t2, p1, p2, p3, k1, k2, k3,
  Callers, HitLimit, Window, Second, MaxClock, MaxCount,
  MaxCrashes,                                        \* RedisRateLimit
  Calls, MaxTracked, MaxLogged, MaxHits,             \* RateLimit
  Tabs, Users, WithSecondFactor, MaxIssued,
  MaxTokens,                                         \* SessionLogin
  Callbacks, Processes, ProcessOf, MaxFaults,        \* SamlReplay
  Askers, People, Gates, ExpiresIn, MaxAge,
  MaxChanges,                                        \* Access
  Arrivals, BlanketLimit, RouteLimit, MaxVersion,    \* Responses
  Uploads, MaxFileAge, Lifetimes,                    \* Storage
  Tags, BaseOf(_), Headers, Catalogs, TextKey,
  DefaultTag, FallbackTag, MaxDeploys,               \* Localization
  AppClasses, AppStrings, MaxHints, MaxRebinds,
  Defaulting,                                        \* Container
  Projects, Holds, Tables,                           \* Loader
  AppVersions, AppPrefixes, AppTemplates, AppNumbers,
  AppPaths, MaxRoutes,                               \* Routing
  MetricNames, MetricLabels, MetricBounds,
  MetricAmounts, NotFinite, MaxRecorded              \* Metrics

VARIABLES
  view,  \* which of them
  count, deadline, now, hit, seen, granted, crashes,  \* RedisRateLimit
  bucket, order, clock, allowed, last, calls,         \* RateLimit
  session, csrf, response, form, callback, issued,
  tokens, over, shared, split,                        \* SessionLogin
  replayLock, lockFound, step, presented, locks,
  faults,                                             \* SamlReplay
  gate, roles, author, users, age, changes, asking,
  claims, post, outcome, times,                       \* Access
  outermost, version, copy, counts, phase,
  throttled, asks, result, content, chunks, sent,
  passed,                                             \* Responses
  backend, file, pc, key, thread, read, given,
  links, time, replaced, deleted,                     \* Storage
  hints, binding, instances, resolving, stack,
  signal, made, binds,                                \* Container
  path, current, module, defined, broken, answer,
  scanned,                                            \* Loader
  routes, block, registered, late, served, frozen,
  request, apiVersion,                                \* Routing
  texts, cache, inRequest, asked, locale, available,
  heard, constant, deploys,                           \* Localization
  metric, values, recorded, scraped                   \* Metrics

redisVars ==
  <<count, deadline, now, hit, seen, granted, crashes>>
memoryVars ==
  <<bucket, order, clock, allowed, last, calls>>
browserVars ==
  <<session, csrf, response, form, callback, issued, tokens,
  over, shared, split>>
samlVars ==
  <<replayLock, lockFound, step, presented, locks, faults>>
gateVars ==
  <<gate, roles, author, users, age, changes, asking, claims,
  post, outcome, times>>
replyVars ==
  <<outermost, version, copy, counts, phase, throttled, asks,
  result, content, chunks, sent, passed>>
fileVars ==
  <<backend, file, pc, key, thread, read, given, links, time,
  replaced, deleted>>
containerVars ==
  <<hints, binding, instances, resolving, stack, signal,
  made, binds>>
pythonVars ==
  <<path, current, module, defined, broken, answer, scanned>>
routeVars ==
  <<routes, block, registered, late, served, frozen, request, apiVersion>>
textVars ==
  <<texts, cache, inRequest, asked, locale, available, heard,
  constant, deploys>>
metricVars ==
  <<metric, values, recorded, scraped>>

(* The tenants' layer is the application's own choice; maintenance mode's  *)
(* is the last, as its provider asks for.                                  *)
Registered == <<"request_id", "profiler", "session", "tenancy", "metrics",
                "maintenance">>

(* Tasks differ in name alone, and a new one is free: the one that r1 may  *)
(* have is called t1.                                                      *)
TasksAreAlike == task'[r1] # t2

(* A bound: jobs and a maintenance, which meet nowhere, not in one run.    *)
JobsOrMaintenance == pushed' = 0 \/ downs' = 0

Redis ==
  INSTANCE RedisRateLimit
    WITH Limit <- HitLimit, MaxTime <- MaxClock, stage <- hit

ASSUME RedisAssumption ==
  {HitLimit, Window, Second} \subseteq Nat \ {0} /\ None \notin Nat

(* Three keys, each with one limit and window.                             *)
OnePerKey == {[key |-> k1, limit |-> 2, window |-> 3],
              [key |-> k2, limit |-> 1, window |-> 2],
              [key |-> k3, limit |-> 2, window |-> 2]}

Memory ==
  INSTANCE RateLimit
    WITH MaxTime <- MaxLogged, now <- clock, granted <- allowed

(* Whoever limits a key does it one way.                                   *)
ASSUME MemoryAssumption ==
  /\ MaxTracked \in Nat \ {0}
  /\ \A c \in Calls : {c.limit, c.window} \subseteq Nat \ {0}
  /\ \A c, d \in Calls : c.key = d.key => c = d

Browser == INSTANCE SessionLogin WITH token <- csrf

ASSUME BrowserAssumption == {MaxIssued, MaxTokens} \subseteq Nat

(* Three callbacks reach one process, one the other.                       *)
ThreeAndOne == <<1, 1, 1, 2>>

Saml == INSTANCE SamlReplay WITH seen <- presented

ASSUME SamlAssumption ==
  /\ IsFiniteSet(Callbacks) /\ IsFiniteSet(Processes)
  /\ ProcessOf \in [Callbacks -> Processes]

(* A policy with a hook of its own, two hooks and nothing behind them, and *)
(* a hook before a closure and a policy.                                   *)
GateSetups ==
  {[before |-> <<>>, closure |-> FALSE, policy |-> TRUE, own |-> "admins may"],
   [before |-> <<"the roleless may not", "admins may">>,
    closure |-> FALSE, policy |-> FALSE, own |-> "none"],
   [before |-> <<"admins may">>, closure |-> TRUE, policy |-> TRUE,
    own |-> "none"]}

(* Where the other behaviours leave it.                                    *)
PlainAccess ==
  /\ author = (CHOOSE u \in People : TRUE) /\ gate = (CHOOSE g \in Gates : TRUE)
  /\ claims = [q \in Askers |-> [by |-> "nobody", user |-> author, issued |-> 0]]

Gate ==
  INSTANCE Access
    WITH Requests <- Askers, Users <- People, MaxTime <- MaxAge, now <- age,
         stage <- asking

ASSUME GateAssumption ==
  {ExpiresIn, MaxAge, MaxChanges} \subseteq Nat /\ Gates \subseteq Gate!GateType

Reply ==
  INSTANCE Responses
    WITH Requests <- Arrivals, stage <- phase, granted <- passed

Files ==
  INSTANCE Storage
    WITH Tasks <- Uploads, MaxTime <- MaxFileAge, told <- given, now <- time

Build ==
  INSTANCE Container
    WITH Classes <- AppClasses, Strings <- AppStrings, MaxParams <- MaxHints,
         MaxBinds <- MaxRebinds, built <- made

ASSUME ContainerAssumption ==
  "call" \notin AppClasses \cup AppStrings /\ MaxHints \in Nat

(* A bound: only some classes have parameters with a default.              *)
FewDefaults ==
  \A c \in AppClasses \ Defaulting : \A k \in DOMAIN hints[c] : ~hints[c][k].optional

(* Two projects with a main.py, and one that is a mere package.            *)
HeldBy == [p \in {"a", "b", "c"} |->
             IF p = "c" THEN {"app"} ELSE {"main", "app", "routes"}]
TablesOf == [p \in {"a", "b", "c"} |-> {p}]

Python == INSTANCE Loader

ASSUME LoaderAssumption == Python!Nobody \notin Projects

(* Two versions, one of them perhaps without a prefix, and a router that   *)
(* is included at "/" or under the prefix of a version.                    *)
RootOrV2 == {<<>>, <<"v2">>}
ItemOfA == {<<"a", "{id:int}">>}
SomePaths == {<<"a", "7">>, <<"v1", "a", "7">>, <<"v2", "a", "7">>, <<"v2", "a", "x">>}

Routes ==
  INSTANCE Routing
    WITH Versions <- AppVersions, PathPrefixes <- AppPrefixes,
         Templates <- AppTemplates, Numbers <- AppNumbers, Paths <- AppPaths,
         made <- registered, built <- frozen, current <- apiVersion

ASSUME RoutingAssumption ==
  /\ AppVersions \subseteq STRING \ {"app", "part", "unset", "later", "over"}
  /\ AppPrefixes \cup AppTemplates \cup AppPaths \subseteq Seq(STRING)
  /\ {<<"later">>, <<"over">>} \cap AppPrefixes = {}
  /\ MaxRoutes \in Nat

(* A language, the same in one country, and another one.                   *)
Languages == {"en", "en-US", "es"}
BaseLanguage(tag) == IF tag = "en-US" THEN "en" ELSE tag
Wish(tag, q) == [tag |-> tag, q |-> q]
AcceptLanguage ==
  {<<>>, <<Wish("en-US", 1), Wish("es", 2)>>,
   <<Wish("en", 1), Wish("en-US", 2), Wish("es", 2)>>}
FullOrEmpty == "full" :> {"k"} @@ "empty" :> {}

Texts ==
  INSTANCE Localization
    WITH Texts <- Catalogs, Key <- TextKey, Default <- DefaultTag,
         Fallback <- FallbackTag,
         files <- texts, current <- locale, told <- heard

(* A header is a list of tags with their qualities.                        *)
ASSUME TextsAssumption ==
  /\ {DefaultTag, FallbackTag} \subseteq Tags /\ Texts!Unset \notin DOMAIN Catalogs
  /\ \A h \in Headers : /\ Len(h) \in Nat /\ DOMAIN h = 1 .. Len(h)
                        /\ \A i \in DOMAIN h : h[i].q \in Int

OneOrTwoBounds == {{1}, {0, 2}}
FallOrRise == {-1, 2, NotFinite}

Measures ==
  INSTANCE Metrics
    WITH Names <- MetricNames, Labels <- MetricLabels, Bounds <- MetricBounds,
         Amounts <- MetricAmounts, MaxCalls <- MaxRecorded, calls <- recorded

ASSUME MetricsAssumption ==
  /\ NotFinite \notin Int /\ MetricAmounts \subseteq Int \cup {NotFinite}
  /\ MetricBounds \subseteq SUBSET Int

RequestInit ==
  /\ view \in {"layers", "redis", "memory", "cookies", "saml", "access",
               "responses", "files", "container", "projects", "routes",
               "texts", "metrics"}
  /\ Init
  /\ Redis!Init
  /\ Memory!Init
  /\ Browser!Init
  /\ Saml!Init
  /\ Gate!Init
  /\ view = "access" \/ PlainAccess
  /\ Reply!Init
  /\ view = "responses" \/ outermost
  /\ Files!Init
  /\ view = "files" \/ backend = "local"
  /\ Build!Init
  /\ FewDefaults
  /\ view = "container" \/ \A c \in AppClasses : hints[c] = <<>>
  /\ Python!Init
  /\ Routes!Init
  /\ Texts!Init
  /\ view = "texts" \/ texts = [l \in Tags |-> Texts!NoFile]
  /\ Measures!Init

RequestNext ==
  \/ /\ view = "layers" /\ Next /\ TasksAreAlike /\ JobsOrMaintenance
     /\ UNCHANGED <<view, redisVars, memoryVars, browserVars, samlVars, gateVars,
                  replyVars, fileVars, containerVars, pythonVars, routeVars,
                  textVars, metricVars>>
  \/ /\ view = "redis" /\ Redis!Next
     /\ UNCHANGED <<view, vars, memoryVars, browserVars, samlVars, gateVars,
                  replyVars, fileVars, containerVars, pythonVars, routeVars,
                  textVars, metricVars>>
  \/ /\ view = "memory" /\ Memory!Next
     /\ UNCHANGED <<view, vars, redisVars, browserVars, samlVars, gateVars,
                  replyVars, fileVars, containerVars, pythonVars, routeVars,
                  textVars, metricVars>>
  \/ /\ view = "cookies" /\ Browser!Next
     /\ UNCHANGED <<view, vars, redisVars, memoryVars, samlVars, gateVars,
                  replyVars, fileVars, containerVars, pythonVars, routeVars,
                  textVars, metricVars>>
  \/ /\ view = "saml" /\ Saml!Next
     /\ UNCHANGED <<view, vars, redisVars, memoryVars, browserVars, gateVars,
                  replyVars, fileVars, containerVars, pythonVars, routeVars,
                  textVars, metricVars>>
  \/ /\ view = "access" /\ Gate!Next
     /\ UNCHANGED <<view, vars, redisVars, memoryVars, browserVars, samlVars,
                  replyVars, fileVars, containerVars, pythonVars, routeVars,
                  textVars, metricVars>>
  \/ /\ view = "responses" /\ Reply!Next
     /\ UNCHANGED <<view, vars, redisVars, memoryVars, browserVars, samlVars,
                  gateVars, fileVars, containerVars, pythonVars, routeVars,
                  textVars, metricVars>>
  \/ /\ view = "files" /\ Files!Next
     /\ UNCHANGED <<view, vars, redisVars, memoryVars, browserVars, samlVars,
                  gateVars, replyVars, containerVars, pythonVars, routeVars,
                  textVars, metricVars>>
  \/ /\ view = "container" /\ Build!Next
     /\ UNCHANGED <<view, vars, redisVars, memoryVars, browserVars, samlVars,
                  gateVars, replyVars, fileVars, pythonVars, routeVars,
                  textVars, metricVars>>
  \/ /\ view = "projects" /\ Python!Next
     /\ UNCHANGED <<view, vars, redisVars, memoryVars, browserVars, samlVars,
                  gateVars, replyVars, fileVars, containerVars, routeVars,
                  textVars, metricVars>>
  \/ /\ view = "routes" /\ Routes!Next
     /\ UNCHANGED <<view, vars, redisVars, memoryVars, browserVars, samlVars,
                  gateVars, replyVars, fileVars, containerVars, pythonVars,
                  textVars, metricVars>>
  \/ /\ view = "texts" /\ Texts!Next
     /\ UNCHANGED <<view, vars, redisVars, memoryVars, browserVars, samlVars,
                  gateVars, replyVars, fileVars, containerVars, pythonVars,
                  routeVars, metricVars>>
  \/ /\ view = "metrics" /\ Measures!Next
     /\ UNCHANGED <<view, vars, redisVars, memoryVars, browserVars, samlVars,
                  gateVars, replyVars, fileVars, containerVars, pythonVars,
                  routeVars, textVars>>

requestVars ==
  <<view, vars, redisVars, memoryVars, browserVars, samlVars, gateVars,
    replyVars, fileVars, containerVars, pythonVars, routeVars, textVars,
    metricVars>>

RequestSpec == RequestInit /\ [][RequestNext]_requestVars

(* What does not change is as good as in the initial state: each property  *)
(* below looks at the parts that move.                                     *)
AllTypeOK ==
  CASE view = "layers" -> TypeOK
    [] view = "redis" -> Redis!TypeOK
    [] view = "memory" -> Memory!TypeOK
    [] view = "cookies" -> Browser!TypeOK
    [] view = "saml" -> Saml!TypeOK
    [] view = "access" -> Gate!TypeOK
    [] view = "responses" -> Reply!TypeOK
    [] view = "files" -> Files!TypeOK
    [] view = "container" -> Build!TypeOK
    [] view = "projects" -> Python!TypeOK
    [] view = "routes" -> Routes!TypeOK
    [] view = "texts" -> Texts!TypeOK
    [] view = "metrics" -> Measures!TypeOK

(* RequestStack's properties of boots, of what a request's code and its    *)
(* crash report find in ContextVars, and of what the metrics count         *)
(* (application.py:98-136, request_id.py:67-105, profiler.py:91-141,       *)
(* metrics.py:278-303).                                                    *)
PassageHolds ==
  view = "layers" => BootedOnce /\ ContextIsOwn /\ ReportIsOwn /\ MetricsAgree

(* The rate limiters': RedisRateLimit's of the hits that are granted, and  *)
(* that no key stays for ever, and RateLimit's of hit(): within the limit  *)
(* in each window, exact about when to retry (rate_limit.py:79-102,        *)
(* 112-117, 136-143).                                                      *)
LimitsHold ==
  /\ view = "redis" => Redis!FewerThanTwice /\ Redis!ExpiryOnItsWay
  /\ view = "memory" => Memory!LimitHolds /\ Memory!RetryAfterExact

(* SessionLogin's properties of what a browser is told is over, and of its *)
(* forms, and SamlReplay's of an assertion that comes twice                *)
(* (mfa.py:222-241, oauth.py:272-323, csrf.py:85-129, saml.py:268-280).    *)
LoginsAreSound ==
  /\ view = "cookies" => Browser!OverIsOver /\ Browser!FormsPass
  /\ view = "saml" => Saml!AcceptedOnce

(* Access' property of decisions (authorization.py:151-175, 223-240,       *)
(* api_auth.py:58-67).                                                     *)
DecidedOnThen == view = "access" => Gate!DecidedOnThen

(* Responses' properties of what leaves the application, and               *)
(* Localization's of the language it is in (etag.py:55-79,                 *)
(* rate_limit.py:193-199, 236-251, 278-286, localization.py:99-182).       *)
RepliesAreSound ==
  /\ view = "responses" =>
       Reply!WholeAndTrue /\ Reply!BudgetsApart /\ Reply!LimitsAreTold
  /\ view = "texts" => Texts!BestAvailable /\ Texts!TextsAreConstant

(* Storage's property of files (storage.py:91-101, 304-306, 350-354).      *)
UploadsAreWhole == view = "files" => Files!UploadsAreWhole

(* Container's properties of make() and call(), Loader's of load_app(),    *)
(* Routing's of versions, and Metrics' of what the samples tell and a      *)
(* scrape finds (container.py:71-170, cli/loader.py:27-109,                *)
(* routing.py:159-204, metrics.py:82-185, 195-240).                        *)
AssemblyIsSound ==
  /\ view = "container" => Build!ChainIsTrue /\ Build!SharedAndWhole
  /\ view = "projects" => Python!LoadsKeepApart
  /\ view = "routes" => Routes!VersionsKeepApart
  /\ view = "metrics" =>
       Measures!SamplesTellCalls /\ Measures!ScrapesFailForAReason

=============================================================================
