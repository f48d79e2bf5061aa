------------------------------- MODULE Loader -------------------------------
(***************************************************************************)
(* How one process imports projects (cli/loader.py): `zeython mcp` lives   *)
(* on and is asked about several, by load_app() for list_routes and        *)
(* app_info, and by a scan of a package (list_models here, discover_       *)
(* commands() and discover_seeders() alike), which puts its root on        *)
(* sys.path by itself.  Python keeps what it imported in sys.modules, and  *)
(* SQLAlchemy every table that a class body ever defined.                  *)
(* A starter main.py imports app.Models, creates the Application and       *)
(* registers RouteServiceProvider, which imports routes.web, whose body    *)
(* adds its routes to the app of `main`.                                   *)
(***************************************************************************)
EXTENDS Naturals, SequencesExt

CONSTANTS Projects,
          Holds,      \* [Projects -> SUBSET {"main", "app", "routes"}]
          Tables      \* [Projects -> sets of table names]

VARIABLES path,       \* the roots on sys.path
          current,    \* _current_project_root
          module,     \* sys.modules: whose module is cached
          defined,    \* tables in SQLAlchemy's MetaData
          broken,     \* the projects whose main.py raises, as it stands
          answer,     \* what the last call returned
          scanned     \* a scan has been made in this process

pythonVars == <<path, current, module, defined>>
vars == <<pythonVars, broken, answer, scanned>>

Nobody == "nobody"
Names == {"main", "app", "routes"}
Tracked == {"main", "app"}                    \* _TRACKED_PACKAGES

Raised == [kind |-> "raised"]

Init ==
  /\ path = <<>> /\ current = Nobody /\ module = [n \in Names |-> Nobody]
  /\ defined = {}
  /\ broken = {} /\ answer = [kind |-> "none"] /\ scanned = FALSE

Inserted(roots, p) == IF p \in ToSet(roots) THEN roots ELSE <<p>> \o roots

(* A mutant: the other project's root stays on the path.                   *)
KeepRoots(p) == path

Dropped(p) == IF current \notin {Nobody, p} THEN RemoveFirst(path, current) ELSE path

(* sync_project_modules(): forget the tracked modules of another project.  *)
Purged(p) ==
  IF current = p THEN module
  ELSE [n \in Names |-> IF n \in Tracked THEN Nobody ELSE module[n]]

(* The import system: the first root on the path that has such a module.   *)
Found(name, roots) ==
  LET having == {i \in DOMAIN roots : name \in Holds[roots[i]]}
  IN  IF having = {} THEN Nobody
      ELSE roots[CHOOSE i \in having : \A k \in having : i <= k]

(* import name: whose module it is, executed unless it was cached.         *)
Import(name, roots, modules) ==
  IF modules[name] # Nobody THEN modules[name] ELSE Found(name, roots)

Executes(name, roots, modules) ==
  modules[name] = Nobody /\ Found(name, roots) # Nobody

(* The class bodies of app.Models: a table cannot be defined twice.        *)
Redefines(owner) == Tables[owner] \cap defined # {}

ModelsImportable(roots, modules) ==
  Import("app", roots, modules) # Nobody
    /\ (Executes("app", roots, modules) => ~Redefines(Found("app", roots)))

DefinedBy(roots, modules) ==
  IF Executes("app", roots, modules)
  THEN defined \cup Tables[Found("app", roots)] ELSE defined

(* _import_main() looks main.py up on the path again when it reloads it.   *)
Main(roots) == Found("main", roots)

MainRuns(roots, modules) ==
  /\ Main(roots) # Nobody /\ Main(roots) \notin broken
  /\ ModelsImportable(roots, modules)

(* load_app(p), of a main.py that can be executed: RouteServiceProvider    *)
(* imports routes.web, which adds its routes when it is executed, and not  *)
(* when it is cached.                                                      *)
LoadApp(p) ==
  LET roots == Inserted(Dropped(p), p) IN
  LET kept == Purged(p) IN
  /\ MainRuns(roots, kept)
  /\ path' = roots /\ current' = p
  /\ module' = [kept EXCEPT !["main"] = Main(roots),
                            !["app"] = Import("app", roots, kept),
                            !["routes"] = Import("routes", roots, kept)]
  /\ defined' = DefinedBy(roots, kept)
  /\ answer' = [kind |-> "app", asked |-> p, of |-> Main(roots),
                routes |-> IF Executes("routes", roots, kept)
                           THEN Found("routes", roots) ELSE Nobody]
  /\ UNCHANGED <<broken, scanned>>

(* load_app(p) raises: a first import that fails leaves no main behind, a  *)
(* reload keeps the old one.  What main.py had imported when it raised     *)
(* stays imported, its tables defined.                                     *)
LoadAppRaises(p) ==
  LET roots == Inserted(Dropped(p), p) IN
  LET kept == Purged(p) IN
  /\ ~MainRuns(roots, kept)
  /\ path' = roots /\ current' = p /\ answer' = Raised
  /\ \/ module' = kept /\ UNCHANGED defined
     \/ /\ Main(roots) \in broken /\ ModelsImportable(roots, kept)
        /\ \E names \in {{"app"}, {"app", "routes"}} :
             module' = [n \in Names |-> IF n \in names THEN Import(n, roots, kept) ELSE kept[n]]
        /\ defined' = DefinedBy(roots, kept)
  /\ UNCHANGED <<broken, scanned>>

(* describe_models(p): its root stays where it is, or comes first, and the *)
(* roots of other projects stay too.                                       *)
ScanPath(p) == Inserted(path, p)

Scan(p) ==
  LET kept == Purged(p) IN
  LET owner == Import("app", ScanPath(p), kept) IN
  /\ path' = ScanPath(p) /\ current' = p /\ scanned' = TRUE
  /\ IF ModelsImportable(ScanPath(p), kept)
     THEN /\ module' = [kept EXCEPT !["app"] = owner]
          /\ defined' = DefinedBy(ScanPath(p), kept)
          /\ answer' = [kind |-> "models", asked |-> p, of |-> owner]
     ELSE module' = kept /\ answer' = Raised /\ UNCHANGED defined
  /\ UNCHANGED broken

(* Somebody breaks or mends main.py between two calls.                    *)
Edit(p) ==
  /\ broken' = IF p \in broken THEN broken \ {p} ELSE broken \cup {p}
  /\ UNCHANGED <<pythonVars, answer, scanned>>

Next == \E p \in Projects :
          LoadApp(p) \/ LoadAppRaises(p) \/ Scan(p) \/ Edit(p)

Spec == Init /\ [][Next]_vars

-----------------------------------------------------------------------------
(* Projects listed once on the path, modules of projects that have them.   *)
TypeOK ==
  /\ path \in Seq(Projects) /\ IsInjective(path)
  /\ current \in Projects \cup {Nobody}
  /\ module \in [Names -> Projects \cup {Nobody}]
  /\ \A n \in Names : module[n] # Nobody => n \in Holds[module[n]]
  /\ defined \subseteq UNION {Tables[p] : p \in Projects}
  /\ broken \subseteq Projects /\ scanned \in BOOLEAN

(* As long as projects are only loaded, load_app() keeps them apart: one   *)
(* root on the path, and no app of a project that was not asked for, also  *)
(* after loads that failed (cli/loader.py:77-91).                          *)
LoadsKeepApart ==
  ~scanned =>
    /\ path = IF current = Nobody THEN <<>> ELSE <<current>>
    /\ answer.kind = "app" => answer.of = answer.asked

(* What the documentation says and the code does not do: the app that      *)
(* load_app() returns is that of the project, with the routes that the     *)
(* project registers (mcp/server.py:40-41, cli/loader.py:77-83).           *)
LoadedIsAsked ==
  answer.kind = "app" =>
    answer.of = answer.asked /\ answer.routes = answer.asked

=============================================================================
