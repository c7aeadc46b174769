---------------------------- MODULE EchoRuntime -----------------------------
(***************************************************************************)
(* The web server's runtime: the phases of Run, the hooks between them, a  *)
(* stop from any side, and the requests, each in a scope of its own, that  *)
(* are routed to the handlers found in the container.                      *)
(***************************************************************************)
EXTENDS Naturals, Sequences, FiniteSets

CONSTANTS HandlerLists,  \* the handlers an application may register, in order
          Requests,      \* requests at work at once
          Stoppers,      \* signals and calls of Stop
          Nobody         \* no request, no handler

\* Lists.
ASSUME EchoAssumption == \A hs \in HandlerLists : Len(hs) \in Nat /\ DOMAIN hs = 1 .. Len(hs)

VARIABLES run,        \* where Run is
          handlers,   \* the handlers of the container
          routes,     \* what RegisterHandlers made of them
          echoServer, \* the goroutine that serves
          cancel,     \* s.cancel: "nil", "set", "called"
          waitChannel,\* signals in the channel, one at most
          stopper,    \* per caller of Stop
          visit,      \* per request: where it is, what it asked and got
          scope,      \* per request: "none", "open", "disposed"
          accessor    \* per scope: the request its context accessor points to

echoVars == <<run, handlers, routes, echoServer, cancel, waitChannel, stopper, visit, scope, accessor>>

Spellings == {"/a", "/A"}
Verbs == {"GET", "POST"}
ToLower(path) == IF path = "/A" THEN "/a" ELSE path
Handler(id, path, verbs) == [id |-> id, path |-> path, verbs |-> verbs]
Visit(at, path, verb, by, saw) == [at |-> at, path |-> path, verb |-> verb, by |-> by, saw |-> saw]
NotAsked == Visit("idle", "/a", "GET", Nobody, Nobody)

EchoInit ==
    /\ run = "new"
    /\ handlers \in HandlerLists
    /\ routes = {}
    /\ echoServer = "none" /\ cancel = "nil" /\ waitChannel = 0
    /\ stopper = [s \in Stoppers |-> "idle"]
    /\ visit = [r \in Requests |-> NotAsked]
    /\ scope = [r \in Requests |-> "none"]
    /\ accessor = [r \in Requests |-> Nobody]

-----------------------------------------------------------------------------
(* Run.                                                                    *)

\* A phase ends in the next one or, on its own error or a hook's, in "failed".
Phase(from, to) ==
    /\ run = from /\ run' \in {to, "failed"}
    /\ UNCHANGED <<handlers, echoServer, cancel, waitChannel, stopper, visit, scope, accessor>>

phase1 == Phase("new", "configured") /\ UNCHANGED routes
phase2 == Phase("configured", "built") /\ UNCHANGED routes

\* Mutant: paths are told apart by their spelling only.
SamePathBySpelling(p, q) == p = q

SamePath(p, q) == ToLower(p) = ToLower(q)

\* Of the handlers with the same path, whatever its spelling, the last counts;
\* its own spelling and verbs are registered.
RegisterHandlers ==
    LET Overridden(k) == \E j \in DOMAIN handlers : j > k /\ SamePath(handlers[j].path, handlers[k].path)
        kept == {k \in DOMAIN handlers : ~Overridden(k)}
    IN  UNION {{[path |-> handlers[k].path, verb |-> v] : v \in handlers[k].verbs} : k \in kept}

phase3 ==
    /\ Phase("built", "routed")
    /\ routes' = IF run' = "routed" THEN RegisterHandlers ELSE {}

\* finalPhase: the PreStartHooks, and the goroutine that serves.
Launch ==
    /\ run = "routed"
    /\ \/ run' = "failed" /\ UNCHANGED echoServer
       \/ run' = "waiting" /\ echoServer' = "spawned"
    /\ UNCHANGED <<handlers, routes, cancel, waitChannel, stopper, visit, scope, accessor>>

ServeGoroutine ==
    /\ echoServer = "spawned" /\ cancel' = "set" /\ echoServer' = "starting"
    /\ UNCHANGED <<run, handlers, routes, waitChannel, stopper, visit, scope, accessor>>

\* Start listens, or fails at once (the port is taken).
Start ==
    /\ echoServer = "starting" /\ echoServer' \in {"serving", "down"}
    /\ UNCHANGED <<run, handlers, routes, cancel, waitChannel, stopper, visit, scope, accessor>>

\* Start returns once it is cancelled; it waits for the requests, but not for
\* longer than its grace.
ShutDown ==
    /\ echoServer = "serving" /\ cancel = "called" /\ echoServer' = "down"
    /\ UNCHANGED <<run, handlers, routes, cancel, waitChannel, stopper, visit, scope, accessor>>

Wait ==
    /\ run = "waiting" /\ waitChannel > 0
    /\ waitChannel' = waitChannel - 1 /\ run' = "hooks"
    /\ UNCHANGED <<handlers, routes, echoServer, cancel, stopper, visit, scope, accessor>>

\* The PreShutdownHooks, whose errors are only logged, then the cancel, if the
\* goroutine has set it by then.
Cancel ==
    /\ run = "hooks" /\ run' = "joining"
    /\ cancel' = IF cancel = "nil" THEN "nil" ELSE "called"
    /\ UNCHANGED <<handlers, routes, echoServer, waitChannel, stopper, visit, scope, accessor>>

Join ==
    /\ run = "joining" /\ echoServer = "down" /\ run' = "returned"
    /\ UNCHANGED <<handlers, routes, echoServer, cancel, waitChannel, stopper, visit, scope, accessor>>

\* Stop puts a signal into the channel and blocks while that is full.
StopRuntime(s) ==
    /\ stopper[s] = "idle" /\ waitChannel < 1
    /\ waitChannel' = waitChannel + 1 /\ stopper' = [stopper EXCEPT ![s] = "done"]
    /\ UNCHANGED <<run, handlers, routes, echoServer, cancel, visit, scope, accessor>>

-----------------------------------------------------------------------------
(* Requests.                                                               *)

Arrive(r, path, verb) ==
    /\ echoServer = "serving" /\ cancel # "called" /\ visit[r].at = "idle"
    /\ visit' = [visit EXCEPT ![r] = Visit("scoping", path, verb, Nobody, Nobody)]
    /\ UNCHANGED <<run, handlers, routes, echoServer, cancel, waitChannel, stopper, scope, accessor>>

\* A request goes on; what it asked stays.
GoesOn(r, at, by, saw) == visit' = [visit EXCEPT ![r] = Visit(at, visit[r].path, visit[r].verb, by, saw)]

\* SetContext of the scope's own context accessor.
AccessorOfScope(r) == [accessor EXCEPT ![r] = r]

EnsureScopedContainer(r) ==
    /\ visit[r].at = "scoping"
    /\ GoesOn(r, "routing", Nobody, Nobody)
    /\ scope' = [scope EXCEPT ![r] = "open"]
    /\ accessor' = AccessorOfScope(r)
    /\ UNCHANGED <<run, handlers, routes, echoServer, cancel, waitChannel, stopper>>

\* The handler is looked up in the request's scope by the path; of several
\* with one key the container gives the last.
GetByLookupKey(path) ==
    LET here == {i \in DOMAIN handlers : handlers[i].path = path}
    IN  handlers[CHOOSE i \in here : \A j \in here : j <= i].id

HandlerFor(path, verb) == IF [path |-> path, verb |-> verb] \in routes THEN GetByLookupKey(path) ELSE Nobody

\* Do, which may panic, sees its request through the accessor.
Do(r) ==
    /\ visit[r].at = "routing"
    /\ GoesOn(r, "handled", HandlerFor(visit[r].path, visit[r].verb), accessor[r])
    /\ UNCHANGED <<run, handlers, routes, echoServer, cancel, waitChannel, stopper, scope, accessor>>

\* The deferred Dispose; a panic is recovered above it.
Dispose(r) ==
    /\ visit[r].at = "handled"
    /\ GoesOn(r, "answered", visit[r].by, visit[r].saw)
    /\ scope' = [scope EXCEPT ![r] = "disposed"]
    /\ UNCHANGED <<run, handlers, routes, echoServer, cancel, waitChannel, stopper, accessor>>

EchoNext ==
    \/ phase1 \/ phase2 \/ phase3 \/ Launch \/ ServeGoroutine \/ Start \/ ShutDown
    \/ Wait \/ Cancel \/ Join
    \/ \E s \in Stoppers : StopRuntime(s)
    \/ \E r \in Requests :
         \/ \E p \in Spellings, v \in Verbs : Arrive(r, p, v)
         \/ EnsureScopedContainer(r) \/ Do(r) \/ Dispose(r)

EchoSpec == EchoInit /\ [][EchoNext]_echoVars

-----------------------------------------------------------------------------
(* Properties                                                              *)

\* A request is handled by the handler that was registered last for its path,
\* if that has its verb, and by nobody if another spelling of the path was
\* registered later; and the handler sees its own request, whichever requests
\* run beside it (RegisterHandlers, EnsureScopedContainer).
HandledByTheLast ==
    \A r \in Requests :
      visit[r].at \in {"handled", "answered"} =>
        LET rivals == {i \in DOMAIN handlers : ToLower(handlers[i].path) = ToLower(visit[r].path)}
            winner == CHOOSE i \in rivals : \A j \in rivals : j <= i
            meant == rivals # {} /\ handlers[winner].path = visit[r].path
                       /\ visit[r].verb \in handlers[winner].verbs
        IN  /\ visit[r].by = IF meant THEN handlers[winner].id ELSE Nobody
            /\ visit[r].saw = r
=============================================================================
