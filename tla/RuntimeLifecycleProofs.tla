----------------------- MODULE RuntimeLifecycleProofs -----------------------
(***************************************************************************)
(* The shutdown order of RuntimeLifecycle is right for every number of     *)
(* calls, streams and stop requests.  The three invariants (what a call    *)
(* uses outlives it, the gateway's requests find the server, health speaks *)
(* before the doors close) are not inductive: that no call runs when the   *)
(* exporters or the container are torn down follows from what the main     *)
(* goroutine waited for several steps before.  PhaseInv keeps what is up   *)
(* at each of its positions, ServerInv what holds beside it.               *)
(***************************************************************************)
EXTENDS RuntimeLifecycle, TLAPS

\* The parts of the invariant and the names they use, for every leaf.
USE DEF LifeInv, LifeOK, PhaseInv, ServerInv, DrainedBeforeTeardown,
        GatewayOutlivedByServer, HealthBeforeDrain, NotServing, InFlight,
        Starting, Stopping, Ended, Ways, mainVars, svcVars, srvVars

\* The state NewRuntime makes satisfies the invariant.
LEMMA InitLife == Init => LifeInv
<1> SUFFICES ASSUME Init PROVE LifeInv
  OBVIOUS
<1>1. LifeOK
  <2>1. /\ health \in [status : {"SERVING", "NOT_SERVING"}, stopped : BOOLEAN]
        /\ waitChannel \in BOOLEAN /\ sched \in BOOLEAN /\ serveErr \in BOOLEAN
    BY Zenon DEF Init
  <2>2. /\ stops \in [Callers -> {"idle", "calling", "returned"}]
        /\ watch \in [Watches -> {"idle", "open", "ended"}]
        /\ req \in [Requests -> [way : Ways, st : {"idle", "queued", "running",
                                             "ok", "refused", "lost"}]]
    BY DEF Init
  <2> QED
    BY <2>1, <2>2 DEF Init
<1>2. PhaseInv
  BY DEF Init
<1>3. ServerInv
  BY DEF Init
<1>4. DrainedBeforeTeardown /\ GatewayOutlivedByServer /\ HealthBeforeDrain
  BY DEF Init
<1> QED
  BY <1>1, <1>2, <1>3, <1>4

\* Every step of StartWithListenter keeps the invariant.
LEMMA MainStep == LifeInv /\ Main => LifeInv'
<1> SUFFICES ASSUME LifeInv, Main PROVE LifeInv'
  OBVIOUS
<1>1. CASE StartControl
  BY <1>1 DEF StartControl
<1>2. CASE BuildContainer
  BY <1>2 DEF BuildContainer
<1>3. CASE StartScheduler
  BY <1>3 DEF StartScheduler
<1>4. CASE ConfigureServer
  BY <1>4 DEF ConfigureServer
<1>5. CASE PreServerStartup
  BY <1>5 DEF PreServerStartup
<1>6. CASE ListenAndServeGRPC
  <2>1. LifeOK'
    <3>1. waitChannel' \in BOOLEAN /\ sched' \in BOOLEAN /\ serveErr' \in BOOLEAN
      BY <1>6, Zenon DEF ListenAndServeGRPC
    <3> QED
      BY <1>6, <3>1 DEF ListenAndServeGRPC
  <2>2. PhaseInv'
    BY <1>6 DEF ListenAndServeGRPC
  <2>3. ServerInv'
    BY <1>6 DEF ListenAndServeGRPC
  <2>4. DrainedBeforeTeardown'
    BY <1>6 DEF ListenAndServeGRPC
  <2>5. GatewayOutlivedByServer'
    BY <1>6 DEF ListenAndServeGRPC
  <2>6. HealthBeforeDrain'
    BY <1>6 DEF ListenAndServeGRPC
  <2> QED
    BY <2>1, <2>2, <2>3, <2>4, <2>5, <2>6
<1>7. CASE DialLoopback
  BY <1>7 DEF DialLoopback
<1>8. CASE StartNATSHandlerGateway
  BY <1>8 DEF StartNATSHandlerGateway
<1>9. CASE StartGateway
  BY <1>9 DEF StartGateway
<1>10. CASE Notify
  BY <1>10 DEF Notify
<1>11. CASE Wait
  <2>1. LifeOK'
    <3>1. waitChannel' \in BOOLEAN /\ sched' \in BOOLEAN /\ serveErr' \in BOOLEAN
      BY <1>11, Zenon DEF Wait
    <3> QED
      BY <1>11, <3>1 DEF Wait
  <2>2. PhaseInv'
    BY <1>11 DEF Wait
  <2>3. ServerInv'
    BY <1>11 DEF Wait
  <2>4. DrainedBeforeTeardown'
    BY <1>11 DEF Wait
  <2>5. GatewayOutlivedByServer'
    BY <1>11 DEF Wait
  <2>6. HealthBeforeDrain'
    BY <1>11 DEF Wait
  <2> QED
    BY <2>1, <2>2, <2>3, <2>4, <2>5, <2>6
<1>12. CASE HealthShutdown
  BY <1>12 DEF HealthShutdown
<1>13. CASE NatsShutdown
  BY <1>13 DEF NatsShutdown
<1>14. CASE GatewayShutdown
  BY <1>14 DEF GatewayShutdown
<1>15. CASE GatewayDrained
  BY <1>15 DEF GatewayDrained
<1>16. CASE StopScheduler
  <2>1. LifeOK'
    <3>1. waitChannel' \in BOOLEAN /\ sched' \in BOOLEAN /\ serveErr' \in BOOLEAN
      BY <1>16, Zenon DEF StopScheduler
    <3> QED
      BY <1>16, <3>1 DEF StopScheduler
  <2>2. PhaseInv'
    BY <1>16 DEF StopScheduler
  <2>3. ServerInv'
    BY <1>16 DEF StopScheduler
  <2>4. DrainedBeforeTeardown'
    BY <1>16 DEF StopScheduler
  <2>5. GatewayOutlivedByServer'
    BY <1>16 DEF StopScheduler
  <2>6. HealthBeforeDrain'
    BY <1>16 DEF StopScheduler
  <2> QED
    BY <2>1, <2>2, <2>3, <2>4, <2>5, <2>6
<1>17. CASE GracefulStop
  BY <1>17 DEF GracefulStop
<1>18. CASE Drained
  BY <1>18 DEF Drained
<1>19. CASE PostServerShutdown
  BY <1>19 DEF PostServerShutdown
<1>20. CASE JoinGateway
  BY <1>20 DEF JoinGateway
<1>21. CASE JoinGRPC
  BY <1>21 DEF JoinGRPC
<1>22. CASE CloseLoopback
  BY <1>22 DEF CloseLoopback
<1>23. CASE DisposeContainer
  BY <1>23 DEF DisposeContainer
<1>24. CASE StopControl
  BY <1>24 DEF StopControl
<1> QED
  BY <1>1, <1>2, <1>3, <1>4, <1>5, <1>6, <1>7, <1>8, <1>9, <1>10, <1>11, <1>12, <1>13, <1>14, <1>15, <1>16, <1>17, <1>18, <1>19, <1>20, <1>21, <1>22, <1>23, <1>24 DEF Main

\* The Serve goroutines and the NATS registration keep the invariant.
LEMMA GoroutineStep == LifeInv /\ Goroutines => LifeInv'
<1> SUFFICES ASSUME LifeInv, Goroutines PROVE LifeInv'
  OBVIOUS
<1>1. CASE ServeGRPC
  BY <1>1 DEF ServeGRPC
<1>2. CASE ServeReturns
  BY <1>2 DEF ServeReturns
<1>3. CASE ServeGateway
  BY <1>3 DEF ServeGateway
<1>4. CASE GatewayReturns
  BY <1>4 DEF GatewayReturns
<1>5. CASE NatsResolve
  BY <1>5 DEF NatsResolve
<1>6. CASE NatsConnect
  BY <1>6 DEF NatsConnect
<1>7. CASE NatsRegister
  BY <1>7 DEF NatsRegister
<1>8. CASE SetNATSMicroServicesContainer
  BY <1>8 DEF SetNATSMicroServicesContainer
<1> QED
  BY <1>1, <1>2, <1>3, <1>4, <1>5, <1>6, <1>7, <1>8 DEF Goroutines

\* The steps that end the process or ask it to end keep the invariant.
LEMMA StopStep ==
  ASSUME LifeInv, Fatal \/ Signal \/ \E c \in Callers : PostStop(c) \/ Stop(c)
  PROVE  LifeInv'
<1>1. CASE Fatal
  BY <1>1 DEF Fatal
<1>2. CASE Signal
  <2>1. LifeOK'
    <3>1. waitChannel' \in BOOLEAN /\ sched' \in BOOLEAN /\ serveErr' \in BOOLEAN
      BY <1>2, Zenon DEF Signal
    <3> QED
      BY <1>2, <3>1 DEF Signal
  <2>2. PhaseInv'
    BY <1>2 DEF Signal
  <2>3. ServerInv'
    BY <1>2 DEF Signal
  <2>4. DrainedBeforeTeardown'
    BY <1>2 DEF Signal
  <2>5. GatewayOutlivedByServer'
    BY <1>2 DEF Signal
  <2>6. HealthBeforeDrain'
    BY <1>2 DEF Signal
  <2> QED
    BY <2>1, <2>2, <2>3, <2>4, <2>5, <2>6
<1>3. ASSUME NEW c \in Callers, PostStop(c) PROVE LifeInv'
  BY <1>3 DEF PostStop
<1>4. ASSUME NEW c \in Callers, Stop(c) PROVE LifeInv'
  BY <1>4 DEF Stop
<1> QED
  BY <1>1, <1>2, <1>3, <1>4

\* Every step of a call keeps the invariant.
LEMMA CallStep ==
  ASSUME LifeInv, NEW r \in Requests,
         DirectCall(r) \/ GatewayCall(r) \/ NatsCall(r)
         \/ Forward(r) \/ Unavailable(r) \/ Finish(r)
  PROVE  LifeInv'
<1>1. CASE DirectCall(r)
  BY <1>1 DEF DirectCall, Accepts
<1>2. CASE GatewayCall(r)
  BY <1>2 DEF GatewayCall
<1>3. CASE NatsCall(r)
  BY <1>3 DEF NatsCall, NatsListens
<1>4. CASE Forward(r)
  BY <1>4 DEF Forward, Accepts
<1>5. CASE Unavailable(r)
  BY <1>5 DEF Unavailable
<1>6. CASE Finish(r)
  BY <1>6 DEF Finish
<1> QED
  BY <1>1, <1>2, <1>3, <1>4, <1>5, <1>6

\* The steps of the health service's clients keep the invariant.
LEMMA HealthStep ==
  ASSUME LifeInv,
         \/ \E w \in Watches : OpenWatch(w) \/ EndWatch(w) \/ LeaveWatch(w)
         \/ \E s \in {"SERVING", "NOT_SERVING"} : SetServingStatus(s)
  PROVE  LifeInv'
<1>1. ASSUME NEW w \in Watches, OpenWatch(w) PROVE LifeInv'
  BY <1>1 DEF OpenWatch, Accepts
<1>2. ASSUME NEW w \in Watches, EndWatch(w) PROVE LifeInv'
  BY <1>2 DEF EndWatch
<1>3. ASSUME NEW w \in Watches, LeaveWatch(w) PROVE LifeInv'
  BY <1>3 DEF LeaveWatch
<1>4. ASSUME NEW s \in {"SERVING", "NOT_SERVING"}, SetServingStatus(s)
      PROVE  LifeInv'
  BY <1>4 DEF SetServingStatus
<1> QED
  BY <1>1, <1>2, <1>3, <1>4

HIDE DEF LifeInv, LifeOK, PhaseInv, ServerInv, DrainedBeforeTeardown,
         GatewayOutlivedByServer, HealthBeforeDrain

\* The process always satisfies the inductive invariant.
THEOREM LifeInvariant == Spec => []LifeInv
<1>1. ASSUME LifeInv, [Next]_vars PROVE LifeInv'
  <2>1. CASE Main
    BY <1>1, <2>1, MainStep
  <2>2. CASE Goroutines
    BY <1>1, <2>2, GoroutineStep
  <2>3. CASE Fatal \/ Signal \/ \E c \in Callers : PostStop(c) \/ Stop(c)
    BY <1>1, <2>3, StopStep
  <2>4. ASSUME NEW r \in Requests,
               \/ DirectCall(r) \/ GatewayCall(r) \/ NatsCall(r)
               \/ Forward(r) \/ Unavailable(r) \/ Finish(r)
        PROVE  LifeInv'
    BY <1>1, <2>4, CallStep
  <2>5. CASE \/ \E w \in Watches : OpenWatch(w) \/ EndWatch(w) \/ LeaveWatch(w)
             \/ \E s \in {"SERVING", "NOT_SERVING"} : SetServingStatus(s)
    BY <1>1, <2>5, HealthStep
  <2>6. CASE Gone \/ UNCHANGED vars
    BY <1>1, <2>6 DEF Gone, vars, LifeInv, LifeOK, PhaseInv, ServerInv,
         DrainedBeforeTeardown, GatewayOutlivedByServer, HealthBeforeDrain
  <2> QED
    BY <1>1, <2>1, <2>2, <2>3, <2>4, <2>5, <2>6 DEF Next
<1> QED
  BY InitLife, <1>1, PTL DEF Spec

\* Nothing a call uses (container, exporters, server) is torn down while the
\* call runs, for any number of calls: the order of StartWithListenter's
\* shutdown and of its deferred calls.
THEOREM DrainFirst == Spec => []DrainedBeforeTeardown
<1>1. LifeInv => DrainedBeforeTeardown
  BY DEF LifeInv
<1> QED
  BY <1>1, LifeInvariant, PTL

\* A request the gateway accepted is never refused because of a shutdown.
THEOREM GatewaySafe == Spec => []GatewayOutlivedByServer
<1>1. LifeInv => GatewayOutlivedByServer
  BY DEF LifeInv
<1> QED
  BY <1>1, LifeInvariant, PTL

\* Health reports NOT_SERVING before, and throughout, the drain.
THEOREM HealthFirst == Spec => []HealthBeforeDrain
<1>1. LifeInv => HealthBeforeDrain
  BY DEF LifeInv
<1> QED
  BY <1>1, LifeInvariant, PTL
=============================================================================
