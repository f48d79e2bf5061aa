------------------------------ MODULE Routing ------------------------------
(***************************************************************************)
(* The routes of an application (routing.py): main.py and the providers    *)
(* register them on app.router, in `with version(...)` blocks and on       *)
(* routers of their own that they include; the first request copies the    *)
(* list into Starlette, and openapi.py describes whatever the router holds.*)
(* Starlette matches the routes in their order.                            *)
(***************************************************************************)
EXTENDS Naturals, SequencesExt

CONSTANTS Versions,
          PathPrefixes, \* given to version() and include(): sequences
          Templates,  \* of paths: sequences of segments, of which Id matches
          Numbers,    \* ... these
          Paths,      \* that are requested
          MaxRoutes   \* bound: registrations and includes

Id == "{id:int}"
Methods == {"GET", "POST"}
Routers == {"app", "part"} \cup Versions
Unset == "unset"
Later == "later"        \* a block that has not been entered
Over == "over"

VARIABLES
  routes,     \* of each router: Router.routes
  block,      \* of each version: Later, the prefix of the open block, or Over
  made,       \* how many routes there are
  late,       \* those that were registered when it was too late
  served,     \* what Starlette has copied
  built,
  request,    \* the last one, the endpoint that answered, its metrics' label
  current     \* _current_api_version while an endpoint runs

vars == <<routes, block, made, late, served, built, request, current>>

Route(path, method, version, endpoint) ==
  [path |-> path, method |-> method, version |-> version,
   endpoint |-> endpoint, mounted |-> <<>>]
Mount(prefix, inner) ==
  [path |-> prefix, method |-> "mount", version |-> Unset, endpoint |-> 0,
   mounted |-> inner]
Unmatched == <<>>       \* a label is no path, or one
NoRequest == [path |-> <<>>, method |-> Unset, status |-> 0, endpoint |-> 0,
              label |-> Unmatched]

TypeOK ==
  /\ DOMAIN routes = Routers /\ DOMAIN block = Versions
  /\ made \in 0 .. MaxRoutes /\ late \subseteq 1 .. made
  /\ built \in BOOLEAN /\ (~built => served = <<>> /\ request = NoRequest)
  /\ current \in Versions \cup {Unset}
  /\ request.status \in {0, 200, 404, 405}
  /\ (request.status = 200) = (request.endpoint > 0)

Init ==
  /\ routes = [r \in Routers |-> <<>>]
  /\ block = [v \in Versions |-> <<Later>>]
  /\ made = 0 /\ late = {}
  /\ served = <<>> /\ built = FALSE
  /\ request = NoRequest /\ current = Unset

(***************************************************************************)
(* Router                                                                  *)
(***************************************************************************)

Open(v) == block[v] \notin {<<Later>>, <<Over>>}

(* A version's router has the prefix baked in, also for late routes.       *)
PrefixOf(r) ==
  IF r \in Versions /\ Open(r) THEN block[r]
  ELSE IF r \in Versions THEN <<r>> ELSE <<>>
VersionOf(r) == IF r \in Versions THEN r ELSE Unset

(* The last request is of no more interest when a table changes.           *)
Forget == request' = NoRequest /\ current' = Unset

(* get(), post() and each action of resource().  `late` are those that are *)
(* registered after what would have taken them: the build, the end of the  *)
(* block, or an include(), which copies.                                   *)
Register(r, template, method) ==
  /\ made < MaxRoutes /\ made' = made + 1
  /\ r \in Versions => block[r] # <<Later>>
  /\ routes' = [routes EXCEPT ![r] =
       Append(@, Route(PrefixOf(r) \o template, method, VersionOf(r), made'))]
  /\ late' = IF built \/ (r \in Versions /\ ~Open(r)) \/ r = "part"
               THEN late \cup {made'} ELSE late
  /\ Forget
  /\ UNCHANGED <<block, served, built>>

(* version(): its prefix, or the version's own name.                       *)
Enter(v, prefix) ==
  /\ block[v] = <<Later>>
  /\ block' = [block EXCEPT ![v] = prefix]
  /\ Forget
  /\ UNCHANGED <<routes, made, late, served, built>>

(* Mutant: each version is mounted at "/".                                 *)
FoldMounted(list, group) == Append(list, Mount(<<>>, group))

(* The block's routes come flat after those that are there.                *)
Fold(list, group) == list \o group

Exit(v) ==
  /\ Open(v)
  /\ block' = [block EXCEPT ![v] = <<Over>>]
  /\ routes' = [routes EXCEPT !["app"] = Fold(@, routes[v])]
  /\ late' = IF built THEN late \cup {e.endpoint : e \in ToSet(routes[v])}
                      ELSE late
  /\ Forget
  /\ UNCHANGED <<made, served, built>>

(* include() of the router "part", once; Mount copies its routes.          *)
Include(prefix) ==
  /\ ~built /\ \A e \in ToSet(routes["app"]) : e.method # "mount"
  /\ routes["part"] # <<>>
  /\ routes' = [routes EXCEPT !["app"] = Append(@, Mount(prefix, routes["part"]))]
  /\ late' = late \ {e.endpoint : e \in ToSet(routes["part"])}
  /\ Forget
  /\ UNCHANGED <<block, made, served, built>>

(* _build_asgi(), by the first request.                                    *)
Build ==
  /\ ~built /\ built' = TRUE
  /\ served' = routes["app"]
  /\ UNCHANGED <<routes, block, made, late, request, current>>

(***************************************************************************)
(* Starlette, and the endpoint's wrapper                                   *)
(***************************************************************************)

Fits(template, path) ==
  /\ Len(template) = Len(path)
  /\ \A i \in DOMAIN path : \/ template[i] = path[i]
                            \/ template[i] = Id /\ path[i] \in Numbers
Under(prefix, path) == IsStrictPrefix(prefix, path)

Earliest(found) == CHOOSE i \in found : \A k \in found : i <= k

(* The route that takes the request, or the status that refuses it.        *)
Among(list, path, method) ==
  LET fit  == {i \in DOMAIN list : /\ list[i].method # "mount"
                                   /\ Fits(list[i].path, path)}
      full == {i \in fit : list[i].method = method}
  IN  IF full # {} THEN [status |-> 200, route |-> list[Earliest(full)]]
      ELSE IF fit # {} THEN [status |-> 405, route |-> list[Earliest(fit)]]
      ELSE [status |-> 404, route |-> Mount(<<>>, <<>>)]

(* A mount takes all that is under it, from the routes after it.           *)
Answer(list, path, method) ==
  LET takes == {i \in DOMAIN list : /\ list[i].method = "mount"
                                    /\ Under(list[i].path, path)}
      mount == Earliest(takes)
      before == Among(SubSeq(list, 1, mount - 1), path, method)
  IN  IF takes = {} THEN Among(list, path, method)
      ELSE IF before.status = 200 THEN before
      ELSE Among(list[mount].mounted,
                 SubSeq(path, Len(list[mount].path) + 1, Len(path)), method)

(* Mutant: the version of the last request is left.                        *)
SetVersionLeft(route) == IF route.version = Unset THEN current ELSE route.version

(* _versioned(): an endpoint without a version has no wrapper.             *)
SetVersion(route) == route.version

(* MetricsMiddleware's _path_by_endpoint: a refused method has found its   *)
(* endpoint, and what is mounted is not in the map.                        *)
Label(route) ==
  IF \E e \in ToSet(served) : e.method # "mount" /\ e.endpoint = route.endpoint
  THEN <<route.path>> ELSE Unmatched

Call(path, method) ==
  /\ built
  /\ LET found == Answer(served, path, method)
         runs  == found.status = 200
     IN  /\ request' = [path |-> path, method |-> method,
                        status |-> found.status,
                        endpoint |-> IF runs THEN found.route.endpoint ELSE 0,
                        label |-> Label(found.route)]
         /\ current' = IF runs THEN SetVersion(found.route) ELSE Unset
  /\ UNCHANGED <<routes, block, made, late, served, built>>

(* generate_openapi() of the router as it is; what is mounted is left out. *)
Documented ==
  {<<e.path, e.method>> : e \in {d \in ToSet(routes["app"]) : d.method # "mount"}}

Next ==
  \/ \E r \in Routers, t \in Templates, m \in Methods : Register(r, t, m)
  \/ \E v \in Versions : \E p \in PathPrefixes \cup {<<v>>} : Enter(v, p)
  \/ \E v \in Versions : Exit(v)
  \/ \E p \in PathPrefixes : Include(p)
  \/ Build
  \/ \E p \in Paths, m \in Methods : Call(p, m)

Spec == Init /\ [][Next]_vars

(***************************************************************************)
(* Properties                                                              *)
(***************************************************************************)

Mounts == {e \in ToSet(routes["app"]) : e.method = "mount"}
Folded == {v \in Versions : block[v] = <<Over>>}

(* Every registration of an endpoint that was in time, at the path that it *)
(* is to have for the client.                                              *)
Direct ==
  {e \in ToSet(routes["app"]) \cup UNION {ToSet(routes[v]) : v \in Folded} :
     e.method # "mount" /\ e.endpoint \notin late}
Prefixed(prefix, e) == [e EXCEPT !.path = prefix \o @]
Included ==
  {Prefixed(m.path, e) :
     m \in Mounts, e \in {d \in ToSet(routes["part"]) : d.endpoint \notin late}}

Labelled == request.label # Unmatched
Asks(e) == e.method = request.method /\ Fits(e.path, request.path)

(* However versions, plain routes and an included router are mixed: an     *)
(* endpoint answers only requests of its own path and method, and reads    *)
(* its own version; a route of one version is never hidden by the routes   *)
(* of another; the OpenAPI document has every route that is not in a       *)
(* mount; and the metrics call a request by the path of such a route, or   *)
(* unmatched if there is none (routing.py:83-102, 155-179,                 *)
(* openapi.py:157-194, metrics.py:243-250, 300-302).                       *)
VersionsKeepApart ==
  /\ request.status = 200 =>
       \E e \in Direct \cup Included :
         /\ e.endpoint = request.endpoint /\ Asks(e)
         /\ current = e.version
  /\ request.status # 0 /\ ~(\E m \in Mounts : Under(m.path, request.path)) =>
       /\ (\E e \in Direct : Asks(e)) => request.status = 200
       /\ (\E e \in Direct : Fits(e.path, request.path)) = Labelled
  /\ Labelled => Fits(request.label[1], request.path)
  /\ \A e \in Direct : <<e.path, e.method>> \in Documented

=============================================================================
