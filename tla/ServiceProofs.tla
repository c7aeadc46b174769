---------------------------- MODULE ServiceProofs ---------------------------
(***************************************************************************)
(* What is proved, for any number of goroutines, of four services: the     *)
(* gate before the forced refreshes of a JWKS, the task scheduler, the     *)
(* accessors of the gRPC clients and the memory cache.                     *)
(***************************************************************************)
EXTENDS MemoryCache, JwksRefreshGate, TaskScheduler, GrpcClients, TLAPS

-----------------------------------------------------------------------------
(* The refresh gate.  gate.last is the age of the last forced refresh      *)
(* because it is set before the attempt, and gate.mu is held by whoever    *)
(* fetches.                                                                *)

GateInv ==
    /\ last \in 0..Interval /\ last = sinceForced
    /\ DOMAIN point = Validators
    /\ mu \in Validators \union {NoValidator}
    /\ \A c \in Validators : Fetching(c) <=> mu = c

\* Steps in which nobody fetches or stops to and the gate keeps its age.
LEMMA GateRests ==
  ASSUME GateInv, UNCHANGED <<last, sinceForced, mu>>, DOMAIN point' = Validators,
         \A c \in Validators : Fetching(c)' <=> Fetching(c)
  PROVE  GateInv' /\ ~ \E c \in Validators : ~Fetching(c) /\ Fetching(c)'
BY DEF GateInv

\* A validator goes from one place without a fetch to another.
LEMMA ValidatorMoves ==
  ASSUME GateInv, NEW c \in Validators, ~Fetching(c), UNCHANGED <<last, sinceForced, mu>>,
         NEW step, step \notin {"fetch", "fetchKid"}, At(c, step)
  PROVE  GateInv' /\ ~ \E d \in Validators : ~Fetching(d) /\ Fetching(d)'
<1>1. /\ DOMAIN point' = Validators
      /\ \A d \in Validators : point'[d] = IF d = c THEN step ELSE point[d]
  BY DEF At, GateInv
<1>2. \A d \in Validators : Fetching(d)' <=> Fetching(d)
  BY <1>1 DEF Fetching
<1> QED
  BY <1>1, <1>2, GateRests

\* A validator that looks its kid up moves like that.
LEMMA TryKidMoves ==
  ASSUME GateInv, NEW c \in Validators, ~Fetching(c), UNCHANGED <<last, sinceForced, mu>>,
         NEW s, TryKid(c, s)
  PROVE  GateInv' /\ ~ \E d \in Validators : ~Fetching(d) /\ Fetching(d)'
<1>1. At(c, "idle") \/ At(c, "kidGate")
  BY DEF TryKid, Return
<1> QED
  BY <1>1, ValidatorMoves

\* A forced refresh begins with the gate free and old enough.
LEMMA RefreshBegins ==
  ASSUME GateInv, NEW c \in Validators, ~Fetching(c), mu = NoValidator, ~recent,
         NEW step \in {"fetch", "fetchKid"}, At(c, step), BeginRefresh(c)
  PROVE  GateInv' /\ sinceForced >= Interval
<1>1. /\ DOMAIN point' = Validators
      /\ \A d \in Validators : point'[d] = IF d = c THEN step ELSE point[d]
  BY DEF At, GateInv
<1>2. \A d \in Validators : Fetching(d)' <=> d = c
  BY <1>1, GateAssumption DEF GateInv, Fetching
<1>3. last' = 0 /\ sinceForced' = 0 /\ mu' = c
  BY DEF BeginRefresh
<1>4. last >= Interval
  BY GateAssumption DEF GateInv, recent
<1> QED
  BY <1>1, <1>2, <1>3, <1>4, GateAssumption DEF GateInv

\* It ends with the gate free.
LEMMA RefreshEnds ==
  ASSUME GateInv, NEW c \in Validators, Fetching(c), UNCHANGED <<last, sinceForced>>,
         mu' = NoValidator, NEW step, step \notin {"fetch", "fetchKid"}, At(c, step)
  PROVE  GateInv' /\ ~ \E d \in Validators : ~Fetching(d) /\ Fetching(d)'
<1>1. /\ DOMAIN point' = Validators
      /\ \A d \in Validators : point'[d] = IF d = c THEN step ELSE point[d]
  BY DEF At, GateInv
<1>2. \A d \in Validators : ~Fetching(d)'
  BY <1>1 DEF GateInv, Fetching
<1> QED
  BY <1>1, <1>2, GateAssumption DEF GateInv

\* Every step keeps the gate in order and forces a refresh only when it may.
LEMMA GateStep ==
  ASSUME GateInv, [GateNext]_gateVars
  PROVE  GateInv' /\ ((\E c \in Validators : ~Fetching(c) /\ Fetching(c)') => sinceForced >= Interval)
<1>1. CASE GateTick
  <2>1. last' \in 0..Interval /\ last' = sinceForced' /\ UNCHANGED <<mu, point>>
    BY <1>1, GateAssumption DEF GateTick, GateInv, Older
  <2> QED
    BY <2>1 DEF GateInv, Fetching
<1>2. ASSUME UNCHANGED <<last, sinceForced, mu, point>>
      PROVE  GateInv' /\ ~ \E c \in Validators : ~Fetching(c) /\ Fetching(c)'
  BY <1>2 DEF GateInv, Fetching
<1>3. CASE Rollover \/ Outage \/ Recover \/ BackgroundBegin \/ BackgroundEnd
  BY <1>2, <1>3 DEF Rollover, Outage, Recover, BackgroundBegin, BackgroundEnd
<1>4. ASSUME NEW c \in Validators, NEW k \in Kids, KeySetForKid(c, k)
      PROVE  GateInv' /\ ~ \E d \in Validators : ~Fetching(d) /\ Fetching(d)'
  <2>1. At(c, "lookup") /\ ~Fetching(c) /\ UNCHANGED <<last, sinceForced, mu>>
    BY <1>4 DEF KeySetForKid, Fetching
  <2> QED
    BY <2>1, ValidatorMoves
<1>5. ASSUME NEW c \in Validators, LookUpKid(c) \/ ReadyOrTimeout(c) \/ LoadKeySet(c)
      PROVE  GateInv' /\ ~ \E d \in Validators : ~Fetching(d) /\ Fetching(d)'
  <2>1. ~Fetching(c) /\ UNCHANGED <<last, sinceForced, mu>>
    BY <1>5 DEF LookUpKid, ReadyOrTimeout, LoadKeySet, Fetching, Keep
  <2>2. \/ TryKid(c, cached)
        \/ At(c, "load") \/ At(c, "loadGate") \/ At(c, "wait") \/ At(c, "idle")
    BY <1>5 DEF LookUpKid, ReadyOrTimeout, LoadKeySet, Return
  <2> QED
    BY <2>1, <2>2, TryKidMoves, ValidatorMoves
<1>6. ASSUME NEW c \in Validators, LoadGate(c) \/ KidGate(c)
      PROVE  GateInv' /\ ((\E d \in Validators : ~Fetching(d) /\ Fetching(d)') => sinceForced >= Interval)
  <2>1. ~Fetching(c) /\ mu = NoValidator
    BY <1>6 DEF LoadGate, KidGate, Fetching
  <2>2. \/ UNCHANGED <<last, sinceForced, mu>> /\ (TryKid(c, cached) \/ At(c, "idle"))
        \/ ~recent /\ BeginRefresh(c) /\ (At(c, "fetch") \/ At(c, "fetchKid"))
    BY <1>6 DEF LoadGate, KidGate, Return
  <2>3. CASE UNCHANGED <<last, sinceForced, mu>> /\ (TryKid(c, cached) \/ At(c, "idle"))
    BY <2>1, <2>3, TryKidMoves, ValidatorMoves
  <2>4. CASE ~recent /\ BeginRefresh(c) /\ (At(c, "fetch") \/ At(c, "fetchKid"))
    BY <2>1, <2>4, RefreshBegins
  <2> QED
    BY <2>2, <2>3, <2>4
<1>7. ASSUME NEW c \in Validators, RefreshOk(c) \/ RefreshFails(c)
      PROVE  GateInv' /\ ~ \E d \in Validators : ~Fetching(d) /\ Fetching(d)'
  <2>1. /\ Fetching(c) /\ UNCHANGED <<last, sinceForced>> /\ mu' = NoValidator
        /\ At(c, "idle") \/ At(c, "kidGate")
    BY <1>7 DEF RefreshOk, RefreshFails, Fetching, Return
  <2> QED
    BY <2>1, RefreshEnds
<1>8. CASE UNCHANGED gateVars
  BY <1>2, <1>8 DEF gateVars
<1> QED
  BY <1>1, <1>3, <1>4, <1>5, <1>6, <1>7, <1>8 DEF GateNext, Environment, Step

\* gate.last never lags behind what was forced, and one validator fetches at a
\* time, with the gate's mutex.
LEMMA GateInvariant == GateSpec => []GateInv
<1>1. GateInit => GateInv
  BY GateAssumption DEF GateInit, GateInv, Fetching
<1> QED
  BY <1>1, GateStep, PTL DEF GateSpec

\* However many requests carry unknown kids or find no keys, a refresh of the
\* key set is forced at most once per interval (keySetForKid, loadKeySet).
THEOREM ForcedRefreshTheorem == GateSpec => OneForcedRefreshPerInterval
BY GateInvariant, GateStep, PTL DEF GateSpec, OneForcedRefreshPerInterval

\* No two of them refresh at once: the gate's mutex is held across the fetch.
THEOREM OneFetchAtATimeTheorem ==
  GateSpec => [](\A c, d \in Validators : Fetching(c) /\ Fetching(d) => c = d)
<1>1. GateInv => \A c, d \in Validators : Fetching(c) /\ Fetching(d) => c = d
  BY DEF GateInv
<1> QED
  BY <1>1, GateInvariant, PTL

-----------------------------------------------------------------------------
(* The task scheduler.  Whoever has fetched a scheduler holds the current  *)
(* one or one that was stopped under its hands.                            *)

UserOK(u) ==
    \/ tuser[u].op = "idle" /\ tuser[u].sch = 0
    \/ /\ tuser[u].sch \in DOMAIN scheduled
       /\ tuser[u].sch = current \/ tuser[u].sch \in raced

TaskInv ==
    /\ scheduled \in Seq(SUBSET (TaskIDs \union {"none"}))
    /\ current \in 0..Len(scheduled)
    /\ DOMAIN tuser = TaskUsers
    /\ \A u \in TaskUsers : tuser[u].id \in TaskIDs \union {"none"} /\ UserOK(u)
    /\ NoStrayTask

\* A call on a scheduler that the service has or that was stopped meanwhile.
LEMMA TaskCallOK ==
  ASSUME TaskInv, NEW u \in TaskUsers, tuser[u].op # "idle",
         NEW S \in SUBSET (TaskIDs \union {"none"}), NEW err,
         scheduled' = [scheduled EXCEPT ![tuser[u].sch] = S] \/ scheduled' = scheduled,
         Finish(u, err), UNCHANGED <<current, raced>>
  PROVE  TaskInv'
<1> DEFINE s == tuser[u].sch
           IDs == TaskIDs \union {"none"}
<1>1. s \in DOMAIN scheduled /\ (s = current \/ s \in raced) /\ scheduled \in Seq(SUBSET IDs)
  BY DEF TaskInv, UserOK
<1>2. scheduled' \in Seq(SUBSET IDs) /\ Len(scheduled') = Len(scheduled) /\ DOMAIN scheduled' = DOMAIN scheduled
  BY <1>1
<1>3. \A i \in DOMAIN scheduled : i # s => scheduled'[i] = scheduled[i]
  BY <1>1
<1>4. NoStrayTask'
  BY <1>1, <1>2, <1>3 DEF TaskInv, NoStrayTask
<1>5. /\ DOMAIN tuser' = TaskUsers
      /\ tuser'[u].op = "idle" /\ tuser'[u].sch = 0 /\ tuser'[u].id = "none"
      /\ \A v \in TaskUsers : v # u => tuser'[v] = tuser[v]
  BY DEF Finish, IdleUser, TaskInv
<1>6. \A v \in TaskUsers : tuser'[v].id \in IDs /\ UserOK(v)'
  BY <1>2, <1>5 DEF TaskInv, UserOK
<1> QED
  BY <1>2, <1>4, <1>5, <1>6 DEF TaskInv

\* Every call, and every start and stop, keeps that.
LEMMA TaskInvariant == TaskSpec => []TaskInv
<1> DEFINE IDs == TaskIDs \union {"none"}
<1>1. TaskInit => TaskInv
  BY DEF TaskInit, TaskInv, UserOK, NoStrayTask, IdleUser
<1>2. ASSUME TaskInv, [TaskNext]_taskVars PROVE TaskInv'
  <2>0. /\ scheduled \in Seq(SUBSET IDs) /\ current \in 0..Len(scheduled) /\ NoStrayTask
        /\ Len(scheduled) \in Nat /\ DOMAIN scheduled = 1..Len(scheduled)
    BY <1>2 DEF TaskInv
  <2>1. CASE Start
    <3>1. CASE UNCHANGED taskVars
      BY <1>2, <3>1 DEF taskVars, TaskInv, UserOK, NoStrayTask
    <3>2. CASE current = 0 /\ current' = Len(scheduled) + 1 /\ scheduled' = Append(scheduled, {}) /\ UNCHANGED <<raced, tuser>>
      <4>1. /\ scheduled' \in Seq(SUBSET IDs) /\ Len(scheduled') = Len(scheduled) + 1
            /\ \A i \in 1..Len(scheduled) : scheduled'[i] = scheduled[i]
            /\ scheduled'[Len(scheduled) + 1] = {}
        BY <2>0, <3>2
      <4>2. NoStrayTask'
        BY <2>0, <3>2, <4>1 DEF NoStrayTask
      <4>3. \A u \in TaskUsers : UserOK(u)'
        <5>1. \A u \in TaskUsers : UserOK(u)
          BY <1>2 DEF TaskInv
        <5> QED
          BY <2>0, <3>2, <4>1, <5>1 DEF UserOK
      <4> QED
        BY <1>2, <2>0, <3>2, <4>1, <4>2, <4>3 DEF TaskInv
    <3> QED
      BY <2>1, <3>1, <3>2 DEF Start, taskVars
  <2>2. CASE Stop
    <3>1. /\ scheduled' \in Seq(SUBSET IDs) /\ Len(scheduled') = Len(scheduled)
          /\ scheduled'[current] = {}
          /\ \A i \in 1..Len(scheduled) : i # current => scheduled'[i] = scheduled[i]
      BY <2>0, <2>2 DEF Stop
    <3>2. raced \subseteq raced' /\ current' = 0 /\ tuser' = tuser
      BY <2>2 DEF Stop
    <3>3. NoStrayTask'
      BY <2>0, <3>1, <3>2 DEF NoStrayTask
    <3>4. ASSUME NEW u \in TaskUsers PROVE UserOK(u)'
      <4>1. UserOK(u)
        BY <1>2 DEF TaskInv
      <4>2. tuser[u].sch = current => current \in raced'
        BY <2>2 DEF Stop
      <4> QED
        BY <2>0, <3>1, <3>2, <4>1, <4>2 DEF UserOK
    <3> QED
      BY <1>2, <2>0, <3>1, <3>2, <3>3, <3>4 DEF TaskInv
  <2>3. ASSUME NEW u \in TaskUsers, NEW op, NEW id \in TaskIDs, Fetch(u, op, id) PROVE TaskInv'
    <3>1. DOMAIN tuser' = TaskUsers /\ \A v \in TaskUsers : v # u => tuser'[v] = tuser[v]
      BY <1>2, <2>3 DEF Fetch, TaskInv
    <3>2. \/ current # 0 /\ tuser'[u].sch = current /\ tuser'[u].id = id
          \/ tuser'[u].op = "idle" /\ tuser'[u].sch = 0 /\ tuser'[u].id = "none"
      <4>1. CASE current # 0
        <5>1. tuser'[u] = [op |-> op, sch |-> current, id |-> id, err |-> "none"]
          BY <1>2, <2>3, <4>1 DEF Fetch, TaskInv
        <5> QED
          BY <4>1, <5>1
      <4>2. CASE current = 0
        <5>1. \E err : tuser'[u] = [op |-> "idle", sch |-> 0, id |-> "none", err |-> err]
          BY <1>2, <2>3, <4>2 DEF Fetch, TaskInv, IdleUser
        <5> QED
          BY <5>1
      <4> QED
        BY <4>1, <4>2
    <3>3. UNCHANGED <<current, scheduled, raced>>
      BY <2>3 DEF Fetch
    <3>4. \A v \in TaskUsers : tuser'[v].id \in IDs /\ UserOK(v)'
      BY <1>2, <2>0, <3>1, <3>2, <3>3 DEF TaskInv, UserOK
    <3> QED
      BY <1>2, <3>1, <3>3, <3>4 DEF TaskInv, NoStrayTask
  <2>4. ASSUME NEW u \in TaskUsers, AddWithID(u) PROVE TaskInv'
    <3>1. scheduled[tuser[u].sch] \union {tuser[u].id} \in SUBSET IDs
      BY <1>2, <2>0, <2>4 DEF TaskInv, UserOK, AddWithID
    <3> QED
      BY <1>2, <2>4, <3>1, TaskCallOK DEF AddWithID
  <2>5. ASSUME NEW u \in TaskUsers, Del(u) PROVE TaskInv'
    <3>1. scheduled[tuser[u].sch] \ {tuser[u].id} \in SUBSET IDs
      BY <1>2, <2>0, <2>5 DEF TaskInv, UserOK, Del
    <3> QED
      BY <1>2, <2>5, <3>1, TaskCallOK DEF Del
  <2>6. ASSUME NEW u \in TaskUsers, Lookup(u) PROVE TaskInv'
    BY <1>2, <2>6, TaskCallOK DEF Lookup
  <2>7. CASE UNCHANGED taskVars
    BY <1>2, <2>7 DEF taskVars, TaskInv, UserOK, NoStrayTask
  <2> QED
    BY <1>2, <2>1, <2>2, <2>3, <2>4, <2>5, <2>6, <2>7 DEF TaskNext
<1> QED
  BY <1>1, <1>2, PTL DEF TaskSpec

\* Tasks run on the service's scheduler unless a Stop came between a call's
\* look at the scheduler and its use.
THEOREM NoStrayTaskTheorem == TaskSpec => []NoStrayTask
<1>1. TaskInv => NoStrayTask
  BY DEF TaskInv
<1> QED
  BY <1>1, TaskInvariant, PTL

-----------------------------------------------------------------------------
(* The clients.  A connection that was made respects what was asked for,   *)
(* and an accessor's client, once there, is the one everybody gets.        *)

ConnectionOK(c) ==
    c.given.bundle # "none" \/ c.given.certs > 0 =>
      /\ ~c.plaintext /\ c.tls.certs = c.given.certs
      /\ c.given.bundle # "none" => c.tls.roots = "bundle"

AccessorOK(a) ==
    accessor[a].client # 0 =>
      /\ accessor[a].client \in DOMAIN conns
      /\ conns[accessor[a].client].client = a.service /\ conns[accessor[a].client].url = a.url

GotOK(u) == user[u].got # 0 => user[u].of \in Accessors /\ user[u].got = accessor[user[u].of].client

Dialled == {NewGrpcClient(a) : a \in UNION Programs} \union {OwnClient(opts) : opts \in OptionLists}

ClientInv ==
    /\ conns \in Seq(Dialled)
    /\ \A i \in DOMAIN conns : ConnectionOK(conns[i].conn)
    /\ Accessors \in Programs
    /\ \A a \in Accessors : AccessorOK(a)
    /\ DOMAIN user = Users
    /\ \A u \in Users : GotOK(u)

\* What a connection says of itself.
LEMMA ConnectionFields ==
  ASSUME NEW c, NEW tls
  PROVE  /\ Connection(c, tls).given = c /\ Connection(c, tls).tls = tls
         /\ Connection(c, tls).plaintext => tls.roots = "none"
<1>1. Connection(c, tls).given = c /\ Connection(c, tls).tls = tls
  BY DEF Connection
<1>2. Connection(c, tls).plaintext = (tls.roots = "none")
  BY Zenon DEF Connection
<1> QED
  BY <1>1, <1>2

\* Whatever the options come to, TLS that was asked for is used or refused.
LEMMA OptionsAreKept ==
  ASSUME NEW opts, NewGRPCClient(opts).ok
  PROVE  ConnectionOK(NewGRPCClient(opts))
<1> DEFINE c == Configured(opts)
           asksTLS == c.bundle # "none" \/ c.certs > 0
           n == NewGRPCClient(opts)
<1>1. ~Refused.ok
  BY DEF Refused
<1>2. \/ ~asksTLS /\ n = Connection(c, [roots |-> "none", certs |-> 0])
      \/ n = Connection(c, tlsConfig(c))
  BY <1>1 DEF NewGRPCClient
<1>3. CASE ~asksTLS /\ n = Connection(c, [roots |-> "none", certs |-> 0])
  <2>1. n.given = c
    BY <1>3 DEF Connection
  <2> QED
    BY <1>3, <2>1 DEF ConnectionOK
<1>4. CASE n = Connection(c, tlsConfig(c))
  <2>0. PICK tls : tls = tlsConfig(c)
    OBVIOUS
  <2>1. n.given = c /\ n.tls = tls /\ (n.plaintext => tls.roots = "none")
    BY <1>4, <2>0, ConnectionFields
  <2>2. /\ tls.certs = c.certs /\ tls.roots # "none"
        /\ c.bundle # "none" => tls.roots = "bundle"
    BY <2>0 DEF tlsConfig
  <2> QED
    BY <2>1, <2>2 DEF ConnectionOK
<1> QED
  BY <1>2, <1>3, <1>4

\* A connection is added to the others, which stay as they are.
LEMMA ConnectionAdded ==
  ASSUME ClientInv, NEW n \in Dialled, ConnectionOK(n.conn), conns' = Append(conns, n)
  PROVE  /\ conns' \in Seq(Dialled) /\ \A i \in DOMAIN conns' : ConnectionOK(conns'[i].conn)
         /\ DOMAIN conns \subseteq DOMAIN conns' /\ \A i \in DOMAIN conns : conns'[i] = conns[i]
         /\ Len(conns) + 1 \in DOMAIN conns' /\ conns'[Len(conns) + 1] = n /\ Len(conns) + 1 # 0
<1>1. conns \in Seq(Dialled) /\ Len(conns) \in Nat /\ DOMAIN conns = 1..Len(conns)
  BY DEF ClientInv
<1>2. /\ conns' \in Seq(Dialled) /\ DOMAIN conns' = 1..(Len(conns) + 1)
      /\ \A i \in 1..Len(conns) : conns'[i] = conns[i]
      /\ conns'[Len(conns) + 1] = n
  BY <1>1
<1> QED
  BY <1>1, <1>2 DEF ClientInv

\* A user moves on with what its accessor has, or with nothing, and no
\* accessor's client changes.
LEMMA UserMoves ==
  ASSUME ClientInv, UNCHANGED conns, Accessors' = Accessors,
         \A a \in Accessors : accessor'[a].client = accessor[a].client,
         NEW u \in Users, NEW at, NEW a \in Accessors, NEW got \in {0, accessor[a].client}, To(u, at, a, got)
  PROVE  ClientInv'
<1>1. /\ DOMAIN user' = Users /\ \A v \in Users : v # u => user'[v] = user[v]
      /\ user'[u].of = a /\ user'[u].got = got
  BY DEF To, ClientInv
<1>2. \A v \in Users : GotOK(v)'
  BY <1>1 DEF GotOK, ClientInv
<1>3. \A b \in Accessors : AccessorOK(b)'
  BY DEF AccessorOK, ClientInv
<1> QED
  BY <1>1, <1>2, <1>3 DEF ClientInv, ConnectionOK

\* Locking and unlocking leave the client alone.
LEMMA LockLeavesClient ==
  ASSUME NEW a \in Accessors, NEW readers, NEW writer, Holds(a, accessor[a].client, readers, writer)
  PROVE  Accessors' = Accessors /\ \A b \in Accessors : accessor'[b].client = accessor[b].client
BY DEF Accessors, Holds

\* The first to hold the lock makes the client.
LEMMA ClientMade ==
  ASSUME ClientInv, NEW u \in Users, NEW a \in Accessors,
         accessor[a].client = 0, NewGRPCClient(a.options).ok,
         conns' = Append(conns, NewGrpcClient(a)),
         NEW readers, Holds(a, Len(conns) + 1, readers, {}),
         To(u, "idle", a, Len(conns) + 1)
  PROVE  ClientInv'
<1>1. NewGrpcClient(a) \in Dialled
  BY DEF Dialled, ClientInv
<1>2. /\ NewGrpcClient(a).client = a.service /\ NewGrpcClient(a).url = a.url
      /\ NewGrpcClient(a).conn = NewGRPCClient(a.options)
  BY DEF NewGrpcClient
<1>3. ConnectionOK(NewGrpcClient(a).conn)
  BY <1>2, OptionsAreKept
<1>4. /\ conns' \in Seq(Dialled) /\ \A i \in DOMAIN conns' : ConnectionOK(conns'[i].conn)
      /\ DOMAIN conns \subseteq DOMAIN conns' /\ \A i \in DOMAIN conns : conns'[i] = conns[i]
      /\ Len(conns) + 1 \in DOMAIN conns' /\ conns'[Len(conns) + 1] = NewGrpcClient(a) /\ Len(conns) + 1 # 0
  BY <1>1, <1>3, ConnectionAdded
<1>5. /\ Accessors' = Accessors /\ accessor'[a].client = Len(conns) + 1
      /\ \A b \in Accessors : b # a => accessor'[b] = accessor[b]
  BY DEF Accessors, Holds
<1>6. \A b \in Accessors : AccessorOK(b)'
  BY <1>2, <1>4, <1>5 DEF AccessorOK, ClientInv
<1>7. /\ DOMAIN user' = Users /\ \A v \in Users : v # u => user'[v] = user[v]
      /\ user'[u].of = a /\ user'[u].got = Len(conns) + 1
  BY DEF To, ClientInv
<1>8. \A v \in Users : GotOK(v)'
  BY <1>5, <1>7 DEF GotOK, ClientInv
<1> QED
  BY <1>4, <1>5, <1>6, <1>7, <1>8 DEF ClientInv

\* Every step of every user keeps it.
LEMMA ClientInvariant == ClientSpec => []ClientInv
<1>1. ClientInit => ClientInv
  BY DEF ClientInit, ClientInv, Accessors, AccessorOK, GotOK
<1>2. ASSUME ClientInv, [ClientNext]_clientVars PROVE ClientInv'
  <2>1. CASE UNCHANGED clientVars
    BY <1>2, <2>1 DEF clientVars, ClientInv, Accessors, AccessorOK, GotOK, ConnectionOK
  <2>2. ASSUME NEW u \in Users, Dial(u) PROVE ClientInv'
    <3>1. PICK opts \in OptionLists :
             conns' = IF NewGRPCClient(opts).ok THEN Append(conns, OwnClient(opts)) ELSE conns
      BY <2>2 DEF Dial
    <3>2. UNCHANGED <<accessor, user>>
      BY <2>2 DEF Dial
    <3>3. CASE conns' = conns
      BY <2>1, <3>2, <3>3 DEF clientVars
    <3>4. CASE NewGRPCClient(opts).ok /\ conns' = Append(conns, OwnClient(opts))
      <4>1. OwnClient(opts) \in Dialled /\ ConnectionOK(OwnClient(opts).conn)
        BY <3>4, OptionsAreKept DEF OwnClient, Dialled
      <4>2. /\ conns' \in Seq(Dialled) /\ \A i \in DOMAIN conns' : ConnectionOK(conns'[i].conn)
            /\ DOMAIN conns \subseteq DOMAIN conns' /\ \A i \in DOMAIN conns : conns'[i] = conns[i]
        BY <1>2, <3>4, <4>1, ConnectionAdded
      <4>3. Accessors' = Accessors /\ \A a \in Accessors : AccessorOK(a)'
        BY <1>2, <3>2, <4>2 DEF AccessorOK, ClientInv, Accessors
      <4>4. \A v \in Users : GotOK(v)'
        BY <1>2, <3>2 DEF GotOK, ClientInv, Accessors
      <4> QED
        BY <1>2, <3>2, <4>2, <4>3, <4>4 DEF ClientInv
    <3> QED
      BY <3>1, <3>3, <3>4
  <2>3. ASSUME NEW u \in Users, NEW a \in Accessors, RLock(u, a) PROVE ClientInv'
    BY <1>2, <2>3, LockLeavesClient, UserMoves DEF RLock
  <2>4. ASSUME NEW u \in Users, NEW a \in Accessors, doGetClient(u, a) PROVE ClientInv'
    BY <1>2, <2>4, LockLeavesClient, UserMoves DEF doGetClient
  <2>5. ASSUME NEW u \in Users, NEW a \in Accessors, GetTokenSource(u, a) PROVE ClientInv'
    BY <1>2, <2>5, UserMoves DEF GetTokenSource, Accessors
  <2>6. ASSUME NEW u \in Users, NEW a \in Accessors, Lock(u, a) PROVE ClientInv'
    BY <1>2, <2>6, LockLeavesClient, UserMoves DEF Lock
  <2>7. ASSUME NEW u \in Users, NEW a \in Accessors, GetClient(u, a) PROVE ClientInv'
    <3>1. CASE /\ UNCHANGED conns /\ Holds(a, accessor[a].client, accessor[a].readers, {})
               /\ To(u, "idle", a, 0) \/ To(u, "idle", a, accessor[a].client)
      BY <1>2, <3>1, LockLeavesClient, UserMoves
    <3>2. CASE /\ accessor[a].client = 0 /\ NewGRPCClient(a.options).ok
               /\ conns' = Append(conns, NewGrpcClient(a))
               /\ Holds(a, Len(conns) + 1, accessor[a].readers, {})
               /\ To(u, "idle", a, Len(conns) + 1)
      BY <1>2, <3>2, ClientMade
    <3> QED
      BY <2>7, <3>1, <3>2 DEF GetClient
  <2> QED
    BY <1>2, <2>1, <2>2, <2>3, <2>4, <2>5, <2>6, <2>7 DEF ClientNext
<1> QED
  BY <1>1, <1>2, PTL DEF ClientSpec

\* With any options in any order TLS that was asked for is used, and whoever
\* asks an accessor, whoever else does meanwhile, gets its one client
\* (NewGRPCClient, GetClient).
THEOREM ClientsTheorem == ClientSpec => []ClientsAreAsAsked
<1>1. ClientInv => ClientsAreAsAsked
  <2> SUFFICES ASSUME ClientInv PROVE ClientsAreAsAsked
    OBVIOUS
  <2>1. ASSUME NEW u \in Users, user[u].got # 0
        PROVE  /\ conns[user[u].got].client = user[u].of.service /\ conns[user[u].got].url = user[u].of.url
               /\ \A v \in Users : user[v].got # 0 /\ user[u].of = user[v].of => user[u].got = user[v].got
    BY <2>1 DEF ClientInv, GotOK, AccessorOK
  <2>2. \A i \in DOMAIN conns : ConnectionOK(conns[i].conn)
    BY DEF ClientInv
  <2> QED
    BY <2>1, <2>2 DEF ClientsAreAsAsked, ConnectionOK
<1> QED
  BY <1>1, ClientInvariant, PTL
-----------------------------------------------------------------------------
(* The memory cache: the singleflight discipline and the absolute TTLs.    *)
(* FlightInv is inductive as it stands: that only the leader is in the     *)
(* flight needs that whoever set flight is still in it, and that Land      *)
(* clears it with the leader's last step.                                  *)

\* What FlightInv says beyond the types.
FlightRules ==
  /\ \A c \in Callers : pc[c] \in InFlight => flight = c
  /\ flight # None => pc[flight] \in InFlight \cup SetPcs
  /\ (\E c \in Callers : pc[c] = "wait") => flight # None

\* FlightInv is its types and its rules.
LEMMA FlightInvParts == FlightInv <=> CacheOK /\ FlightRules
BY DEF FlightInv, FlightRules

\* A flight that lands keeps the rules: its leader and everyone who waited
\* are idle, nobody else was in it.
LEMMA LandKeeps ==
  ASSUME NEW v \in Callers \cup {None}, CacheOK, FlightRules, Land(v)
  PROVE  /\ flight' \in Callers \cup {None}
         /\ pc' \in [Callers -> {"idle", "look", "join", "recheck", "adding",
                                 "wait"} \cup SetPcs]
         /\ result' \in [Callers -> Callers \cup {None}]
         /\ FlightRules'
BY NoneAssumption DEF Land, CacheOK, FlightRules, InFlight, SetPcs

\* An empty cache nobody uses satisfies the invariant.
LEMMA InitFlight == Init => FlightInv
<1> SUFFICES ASSUME Init PROVE CacheOK /\ FlightRules
  BY FlightInvParts
<1>1. orphan \in BOOLEAN
  BY Zenon DEF Init
<1>2. CacheOK
  BY <1>1, MaxTTLAssumption DEF Init, CacheOK
<1>3. FlightRules
  BY DEF Init, FlightRules, InFlight
<1> QED
  BY <1>2, <1>3

\* One step of one caller.
LEMMA CallerStep ==
  ASSUME CacheOK, FlightRules, NEW c \in Callers,
         \/ \E t \in 1..MaxTTL : SetWithTTL(c, t) \/ Adder(c, t)
         \/ DropGet(c) \/ DropRemove(c) \/ Put(c)
         \/ GetOrInsertE(c) \/ Look(c) \/ Join(c) \/ Recheck(c) \/ AdderFails(c)
         \/ Remove(c) \/ Purge(c)
  PROVE  CacheOK' /\ FlightRules'
<1> USE NoneAssumption, MaxTTLAssumption
<1>1. ASSUME NEW t \in 1..MaxTTL, SetWithTTL(c, t)
      PROVE  CacheOK' /\ FlightRules'
  BY <1>1 DEF SetWithTTL, Goto, CacheOK, FlightRules, InFlight, SetPcs
<1>2. ASSUME NEW t \in 1..MaxTTL, Adder(c, t)
      PROVE  CacheOK' /\ FlightRules'
  BY <1>2 DEF Adder, Goto, CacheOK, FlightRules, InFlight, SetPcs
<1>3. CASE DropGet(c)
  BY <1>3 DEF DropGet, Goto, CacheOK, FlightRules, InFlight, SetPcs
<1>4. CASE DropRemove(c)
  BY <1>4 DEF DropRemove, Goto, CacheOK, FlightRules, InFlight, SetPcs
<1>5. CASE Put(c)
  <2>1. item' \in Items
    <3>1. ttl[c] \in 1..MaxTTL
      BY DEF CacheOK
    <3> QED
      BY <1>5, <3>1 DEF Put, Items
  <2>2. orphan' \in BOOLEAN
    BY <1>5 DEF Put
  <2>3. ttl' \in [Callers -> 1..MaxTTL]
    BY <1>5 DEF Put, CacheOK
  <2>4. CASE flight = c
    <3>1. Land(c)
      BY <1>5, <2>4 DEF Put
    <3> QED
      BY <2>1, <2>2, <2>3, <3>1, LandKeeps DEF CacheOK
  <2>5. CASE flight # c
    <3>1. Goto(c, "idle") /\ UNCHANGED <<flight, result>> /\ pc[c] = "put"
      BY <1>5, <2>5 DEF Put
    <3>2. FlightRules'
      BY <2>5, <3>1 DEF Goto, CacheOK, FlightRules, InFlight, SetPcs
    <3>3. CacheOK'
      BY <2>1, <2>2, <2>3, <3>1 DEF Goto, CacheOK
    <3> QED
      BY <3>2, <3>3
  <2> QED
    BY <2>4, <2>5
<1>6. CASE GetOrInsertE(c)
  BY <1>6 DEF GetOrInsertE, Goto, CacheOK, FlightRules, InFlight, SetPcs
<1>7. CASE Look(c)
  <2>1. Live => item.val \in Callers
    BY DEF Live, CacheOK, Items
  <2> QED
    BY <1>7, <2>1 DEF Look, Goto, CacheOK, FlightRules, InFlight, SetPcs
<1>8. CASE Join(c)
  BY <1>8 DEF Join, Goto, CacheOK, FlightRules, InFlight, SetPcs
<1>9. CASE Recheck(c)
  <2>1. CASE Live
    <3>1. item.val \in Callers
      BY <2>1 DEF Live, CacheOK, Items
    <3>2. Land(item.val)
      BY <1>9, <2>1 DEF Recheck
    <3>3. UNCHANGED <<item, orphan, ttl>>
      BY <1>9 DEF Recheck
    <3>4. PICK v \in Callers : v = item.val
      BY <3>1
    <3>5. Land(v)
      BY <3>2, <3>4 DEF Land
    <3> QED
      BY <3>3, <3>5, LandKeeps DEF CacheOK
  <2>2. CASE ~Live
    BY <1>9, <2>2 DEF Recheck, Goto, CacheOK, FlightRules, InFlight, SetPcs
  <2> QED
    BY <2>1, <2>2
<1>10. CASE AdderFails(c)
  BY <1>10, LandKeeps DEF AdderFails, CacheOK
<1>11. CASE Remove(c)
  BY <1>11 DEF Remove, CacheOK, FlightRules
<1>12. CASE Purge(c)
  <2>1. orphan' \in BOOLEAN
    BY <1>12, Zenon DEF Purge
  <2> QED
    BY <1>12, <2>1 DEF Purge, CacheOK, FlightRules
<1> QED
  BY <1>1, <1>2, <1>3, <1>4, <1>5, <1>6, <1>7, <1>8, <1>9, <1>10, <1>11, <1>12

\* The clock.
LEMMA TickStep == CacheOK /\ FlightRules /\ AbsoluteTTL /\ Tick =>
                    CacheOK' /\ FlightRules' /\ AbsoluteTTL'
<1> SUFFICES ASSUME CacheOK, FlightRules, AbsoluteTTL, Tick
             PROVE  CacheOK' /\ FlightRules' /\ AbsoluteTTL'
  OBVIOUS
<1> USE NoneAssumption, MaxTTLAssumption
<1>1. item \in Items /\ item.left > 0 /\ item # None
  BY DEF Tick, Live, CacheOK
<1>2. /\ item.left \in 1..MaxTTL /\ item.age \in 0..MaxTTL
      /\ item.ttl \in 1..MaxTTL /\ item.left + item.age = item.ttl
  BY <1>1 DEF Items, AbsoluteTTL
<1>3. item' = [item EXCEPT !.left = item.left - 1, !.age = item.age + 1]
  BY DEF Tick
<1>4. /\ item'.left = item.left - 1 /\ item'.age = item.age + 1
      /\ item'.ttl = item.ttl /\ item'.val = item.val
      /\ item' = [val |-> item'.val, left |-> item'.left, ttl |-> item'.ttl,
                  age |-> item'.age]
  BY <1>1, <1>3 DEF Items
<1>5. item.left - 1 \in 0..MaxTTL /\ item.age + 1 \in 0..MaxTTL
  BY <1>2
<1>6. item' \in Items
  BY <1>1, <1>2, <1>4, <1>5 DEF Items
<1>7. AbsoluteTTL'
  BY <1>2, <1>4 DEF AbsoluteTTL
<1>8. UNCHANGED <<orphan, flight, pc, ttl, result>>
  BY DEF Tick
<1> QED
  BY <1>6, <1>7, <1>8 DEF CacheOK, FlightRules

\* The cleaner.
LEMMA CleanStep == CacheOK /\ FlightRules /\ Clean => CacheOK' /\ FlightRules'
<1> SUFFICES ASSUME CacheOK, FlightRules, Clean PROVE CacheOK' /\ FlightRules'
  OBVIOUS
<1>1. orphan' \in BOOLEAN
  BY Zenon DEF Clean, CacheOK
<1> QED
  BY <1>1 DEF Clean, CacheOK, FlightRules

\* Every step keeps the TTLs absolute.
LEMMA AbsoluteStep ==
  ASSUME CacheOK, FlightRules, AbsoluteTTL, [Next]_vars
  PROVE  AbsoluteTTL'
<1> USE NoneAssumption, MaxTTLAssumption
<1>1. ASSUME NEW c \in Callers, Put(c) PROVE AbsoluteTTL'
  <2>1. item' = [val |-> c, left |-> ttl[c], ttl |-> ttl[c], age |-> 0]
    BY <1>1 DEF Put
  <2>2. ttl[c] \in 1..MaxTTL
    BY DEF CacheOK
  <2> QED
    BY <2>1, <2>2 DEF AbsoluteTTL
<1>2. CASE Tick
  BY <1>2, TickStep
<1>3. CASE item' = None \/ UNCHANGED item
  BY <1>3 DEF AbsoluteTTL
<1>4. ASSUME NEW c \in Callers,
             \/ \E t \in 1..MaxTTL : SetWithTTL(c, t) \/ Adder(c, t)
             \/ DropGet(c) \/ DropRemove(c) \/ GetOrInsertE(c) \/ Look(c)
             \/ Join(c) \/ Recheck(c) \/ AdderFails(c) \/ Remove(c) \/ Purge(c)
      PROVE  item' = None \/ UNCHANGED item
  BY <1>4 DEF SetWithTTL, Adder, DropGet, DropRemove, GetOrInsertE, Look, Join,
              Recheck, AdderFails, Remove, Purge
<1>5. CASE Clean
  BY <1>3, <1>5 DEF Clean
<1>6. CASE UNCHANGED vars
  BY <1>3, <1>6 DEF vars
<1> QED
  BY <1>1, <1>2, <1>3, <1>4, <1>5, <1>6 DEF Next

\* The invariant of both theorems, kept by every step.
LEMMA CacheInductive == Spec => [](FlightInv /\ AbsoluteTTL)
<1> DEFINE Inv == CacheOK /\ FlightRules /\ AbsoluteTTL
<1>1. Init => Inv
  BY InitFlight, FlightInvParts DEF Init, AbsoluteTTL
<1>2. ASSUME Inv, [Next]_vars PROVE Inv'
  <2>1. CASE UNCHANGED vars
    BY <1>2, <2>1 DEF vars, CacheOK, FlightRules, AbsoluteTTL
  <2>2. CASE Tick
    BY <1>2, <2>2, TickStep
  <2>3. CASE Clean
    BY <1>2, <2>3, CleanStep, AbsoluteStep
  <2>4. ASSUME NEW c \in Callers,
               \/ \E t \in 1..MaxTTL : SetWithTTL(c, t) \/ Adder(c, t)
               \/ DropGet(c) \/ DropRemove(c) \/ Put(c)
               \/ GetOrInsertE(c) \/ Look(c) \/ Join(c) \/ Recheck(c)
               \/ AdderFails(c) \/ Remove(c) \/ Purge(c)
        PROVE  Inv'
    BY <1>2, <2>4, CallerStep, AbsoluteStep
  <2> QED
    BY <1>2, <2>1, <2>2, <2>3, <2>4 DEF Next
<1>3. Inv => FlightInv /\ AbsoluteTTL
  BY FlightInvParts
<1> HIDE DEF Inv
<1> QED
  BY <1>1, <1>2, <1>3, PTL DEF Spec

\* At most one flight fills a key, whoever is in it leads it, and nobody waits
\* without one: GetOrInsertE for any number of callers.
THEOREM FlightInvariant == Spec => []FlightInv
<1>1. FlightInv /\ AbsoluteTTL => FlightInv
  OBVIOUS
<1> QED
  BY <1>1, CacheInductive, PTL

\* An entry expires its TTL after it was set, however often it is read.
THEOREM AbsoluteExpiry == Spec => []AbsoluteTTL
<1>1. FlightInv /\ AbsoluteTTL => AbsoluteTTL
  OBVIOUS
<1> QED
  BY <1>1, CacheInductive, PTL


\* Only a caller that looked again, inside the flight, and missed goes on to the
\* adder, whatever its first look said (GetOrInsertE).
THEOREM MissTheorem == Spec => AdderRunsOnAMiss
<1>1. ASSUME CacheOK, [Next]_vars, NEW c \in Callers, pc[c] # "adding", pc'[c] = "adding"
      PROVE  ~Live
  <2>1. PICK d \in Callers :
               \/ \E t \in 1..MaxTTL : SetWithTTL(d, t) \/ Adder(d, t)
               \/ DropGet(d) \/ Put(d) \/ DropRemove(d)
               \/ GetOrInsertE(d) \/ Look(d) \/ Join(d) \/ Recheck(d) \/ AdderFails(d)
    BY <1>1 DEF Next, vars, Tick, Clean, Remove, Purge
  <2>2. ASSUME NEW p, Goto(d, p), p # "adding" PROVE FALSE
    BY <1>1, <2>2 DEF Goto, CacheOK
  <2>3. ASSUME NEW v, Land(v) PROVE FALSE
    BY <1>1, <2>3 DEF Land, CacheOK
  <2>4. CASE Recheck(d)
    BY <2>3, <2>4 DEF Recheck
  <2>5. CASE \/ \E t \in 1..MaxTTL : SetWithTTL(d, t) \/ Adder(d, t)
             \/ DropGet(d) \/ DropRemove(d) \/ GetOrInsertE(d) \/ Look(d) \/ Join(d)
    BY <2>2, <2>5 DEF SetWithTTL, Adder, DropGet, DropRemove, GetOrInsertE, Look, Join
  <2>6. CASE Put(d) \/ AdderFails(d)
    BY <2>2, <2>3, <2>6 DEF Put, AdderFails
  <2> QED
    BY <2>1, <2>4, <2>5, <2>6
<1>2. FlightInv /\ [Next]_vars =>
        [\A c \in Callers : (pc[c] # "adding" /\ pc'[c] = "adding") => ~Live]_vars
  BY <1>1 DEF FlightInv
<1> QED
  BY <1>2, FlightInvariant, PTL DEF Spec, AdderRunsOnAMiss

=============================================================================
