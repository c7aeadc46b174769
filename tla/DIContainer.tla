---------------------------- MODULE DIContainer -----------------------------
(***************************************************************************)
(* fluffy-dozm-di, the dependency-injection container every service of the *)
(* framework comes from: the builder, the call sites it derives from the   *)
(* registrations, the resolver with its locks, scopes and their disposal.  *)
(*                                                                         *)
(* A goroutine is a stack of frames, one per Go call that can block or be  *)
(* interleaved with: "get" (GetWithScope), "site" (GetCallSite and         *)
(* createCallSite), "exact" (tryCreateExact), "slice" (createSlice),       *)
(* "visit" (visitCallSite) and "dispose" (Scope.Dispose).  A call that     *)
(* returns leaves its result in ret and its caller's frame goes on; a      *)
(* panic unwinds like an error, since every lock is given back by a defer. *)
(*                                                                         *)
(* A descriptor is a record: type (ServiceType), life, kind ("ctor",       *)
(* "factory" or "instance"), in (what the constructor takes, or what the   *)
(* factory gets from the container it is passed), impl (the implemented    *)
(* interfaces), keys (lookup keys), disposable, and fails, if its          *)
(* constructor may return an error.                                        *)
(***************************************************************************)
EXTENDS Naturals, Sequences, FiniteSets

CONSTANTS
    Goroutines,
    Scopes,      \* scopes CreateScope can return, other than the root
    Root,        \* the root scope
    None,        \* nobody: a free lock
    Plans,       \* applications: calls on a ContainerBuilder, and what callers ask for
    Elem,        \* the element type of every slice type
    NoKey,       \* the lookup key of a plain Get
    MaxCalls     \* bound: calls a goroutine makes

\* What the operations of the builder below make of a registration.
DescriptorOK(d) ==
    /\ d.kind \in {"ctor", "factory", "instance"}
    /\ d.life \in {"singleton", "scoped", "transient"}
    /\ d.in \in Seq({d.in[i] : i \in DOMAIN d.in})
    /\ d.disposable \in BOOLEAN

PlanOK(p) ==
    /\ p.build \in Seq({p.build[i] : i \in DOMAIN p.build})
    /\ \A i \in DOMAIN p.build :
         LET call == p.build[i]
         IN  call.op \in {"add", "remove", "options"} /\ (call.op = "add" => DescriptorOK(call.d))

ASSUME DIAssumption ==
    /\ Root \notin Scopes /\ None \notin Goroutines
    /\ MaxCalls \in Nat
    /\ \A p \in Plans : PlanOK(p)

VARIABLES
    plan, phase,           \* what is left of the builder's calls; Build's progress
    descriptors, options,  \* the builder
    callSiteCache,      \* <<ServiceType, slot>> -> call site
    sites,              \* call sites, numbered as they are made
    typeLock, siteLock, scopeLock,     \* the owner of each mutex
    realized,           \* realizedServices and realizedLookupKeyServices
    scopedServices,     \* of the CallSiteValidator
    cDisposed,          \* container.disposed
    created, disposed, cleared,        \* scopes: made; disposed; ResolvedServices = nil
    resolved, disposables,             \* per scope
    instances,          \* everything constructed, numbered as it is made
    stack, ret, calls   \* per goroutine

builder == <<plan, phase, descriptors, options>>
callSites == <<callSiteCache, sites>>
locks == <<typeLock, siteLock, scopeLock>>
accessors == <<realized, scopedServices>>
scopeVars == <<cDisposed, created, disposed, cleared, resolved, disposables>>
vars == <<builder, callSites, locks, accessors, scopeVars, instances, stack, ret, calls>>

AllScopes == Scopes \union {Root}

\* A function with one more or one changed point.
With(f, x, v) == [y \in DOMAIN f \union {x} |-> IF y = x THEN v ELSE f[y]]

Init ==
    /\ plan \in Plans /\ phase = "building"
    /\ descriptors = <<>> /\ options = {}
    /\ callSiteCache = <<>> /\ sites = <<>>
    /\ typeLock = <<>> /\ siteLock = <<>>
    /\ scopeLock = [s \in AllScopes |-> None]
    /\ realized = <<>> /\ scopedServices = {}
    /\ cDisposed = FALSE
    /\ created = {Root} /\ disposed = {} /\ cleared = {}
    /\ resolved = [s \in AllScopes |-> <<>>]
    /\ disposables = [s \in AllScopes |-> <<>>]
    /\ instances = <<>>
    /\ stack = [g \in Goroutines |-> <<>>]
    /\ ret = [g \in Goroutines |-> [ok |-> TRUE, site |-> 0, v |-> {}]]
    /\ calls = [g \in Goroutines |-> 0]

-----------------------------------------------------------------------------
(* The builder: registrations in their order, then Build                   *)

\* NewConstructorDescriptor, with the interfaces and lookup keys of the
\* Add...WithLookupKeys forms; a service made here may be Disposable.
Constructor(t, life, in, ifaces, keys, disposable) ==
    [type |-> t, life |-> life, kind |-> "ctor", in |-> in, impl |-> ifaces, keys |-> keys,
     disposable |-> disposable, fails |-> FALSE]

AddTransient(t, in, disposable) ==
    [op |-> "add", d |-> Constructor(t, "transient", in, {}, {}, disposable)]
AddScoped(t, in, disposable) ==
    [op |-> "add", d |-> Constructor(t, "scoped", in, {}, {}, disposable)]
AddSingleton(t, in, disposable) ==
    [op |-> "add", d |-> Constructor(t, "singleton", in, {}, {}, disposable)]
\* A key is registered for the service type and for every interface.
AddSingletonWithLookupKeys(t, in, keys, ifaces) ==
    [op |-> "add", d |-> Constructor(t, "singleton", in, ifaces, keys, TRUE)]
AddInstance(t, ifaces) ==
    [op |-> "add", d |-> [Constructor(t, "singleton", <<>>, ifaces, {}, FALSE)
                            EXCEPT !.kind = "instance"]]
\* NewFactoryDescriptor: what the factory gets from the container it is given.
FactoryOf(t, life, gets) == [Constructor(t, life, gets, {}, {}, TRUE) EXCEPT !.kind = "factory"]
AddTransientFactory(t, gets) == [op |-> "add", d |-> FactoryOf(t, "transient", gets)]
AddScopedFactory(t, gets) == [op |-> "add", d |-> FactoryOf(t, "scoped", gets)]
AddSingletonFactory(t, gets) == [op |-> "add", d |-> FactoryOf(t, "singleton", gets)]
\* The same registration with a constructor that may return an error.
MayFail(call) == [call EXCEPT !.d.fails = TRUE]
Remove(t) == [op |-> "remove", t |-> t]
ConfigureOptions(set) == [op |-> "options", set |-> set]

descriptorImplements(d, t) == t \in d.impl

Provides(d, t) == d.type = t \/ descriptorImplements(d, t)

\* containerBuilder.Add, Remove and ConfigureOptions.
Configure ==
    /\ phase = "building" /\ plan.build # <<>>
    /\ LET call == Head(plan.build)
           others == {i \in DOMAIN descriptors : ~Provides(descriptors[i], call.t)}
           n == Cardinality(others)
       IN  \/ /\ call.op = "add"
              /\ descriptors' = Append(descriptors, call.d) /\ UNCHANGED options
           \/ /\ call.op = "remove"
              /\ \E left \in [1..n -> others] :
                    /\ \A i, j \in 1..n : i < j => left[i] < left[j]
                    /\ descriptors' = [i \in 1..n |-> descriptors[left[i]]]
              /\ UNCHANGED options
           \/ /\ call.op = "options"
              /\ options' = options \union call.set /\ UNCHANGED descriptors
    /\ plan' = [build |-> Tail(plan.build), ask |-> plan.ask]
    /\ UNCHANGED <<phase, callSites, locks, accessors, scopeVars, instances, stack, ret, calls>>

detectLifetimeConflicts ==
    \E i, j \in DOMAIN descriptors :
        descriptors[i].type = descriptors[j].type /\ descriptors[i].life # descriptors[j].life

\* descriptorLookup[t]: the descriptors of a type (populate), by their place in
\* the order of registration; the last one counts.
Registered(t) == {i \in DOMAIN descriptors : Provides(descriptors[i], t)}
KeyRegistered(t, k) == {i \in Registered(t) : k \in descriptors[i].keys}
Last(ds) == CHOOSE i \in ds : \A j \in ds : j <= i

\* descriptorCacheItem.GetSlot: how many of ds come after i.
SlotIn(ds, i) == Cardinality({j \in ds : j > i})

\* ... for the descriptor's own service type.
GetSlot(i) == SlotIn(Registered(descriptors[i].type), i)

Types == {descriptors[i].type : i \in DOMAIN descriptors}
         \union (UNION {descriptors[i].impl : i \in DOMAIN descriptors})
         \union (UNION {{descriptors[i].in[n] : n \in DOMAIN descriptors[i].in} : i \in DOMAIN descriptors})
         \union {r.type : r \in plan.ask} \union DOMAIN Elem

\* A value is the set of the instances it consists of: a slice has one or more.
NoValue == {0}

newCallSite(kind, t, d, params, loc, slot) ==
    [kind |-> kind, type |-> t, d |-> d, params |-> params, loc |-> loc,
     slot |-> slot, value |-> NoValue]

validateScopes == "ValidateScopes" \in options

-----------------------------------------------------------------------------
(* Frames                                                                  *)

Frame == [fn |-> "get", pc |-> "enter", t |-> "", key |-> NoKey, d |-> 0, slot |-> 0,
          site |-> 0, scope |-> Root, held |-> FALSE, nilMap |-> FALSE, acc |-> <<>>]

\* What a call returns: a value, a call site, an error, nothing.
Ok(v) == [ok |-> TRUE, site |-> 0, v |-> v]
Site(c) == [ok |-> TRUE, site |-> c, v |-> {}]
Err == [ok |-> FALSE, site |-> 0, v |-> {}]
NoRet == Ok({})

top(g) == stack[g][Len(stack[g])]
At(g, fn, pc) == stack[g] # <<>> /\ top(g).fn = fn /\ top(g).pc = pc

Below(g) == SubSeq(stack[g], 1, Len(stack[g]) - 1)

\* g's top frame becomes f; f calls f2; g's top frame returns r.
Goto(g, f) ==
    /\ stack' = [stack EXCEPT ![g] = Append(Below(g), f)]
    /\ ret' = [ret EXCEPT ![g] = NoRet]
Call(g, f, f2) ==
    /\ stack' = [stack EXCEPT ![g] = Append(Append(Below(g), f), f2)]
    /\ ret' = [ret EXCEPT ![g] = NoRet]
Return(g, r) ==
    /\ stack' = [stack EXCEPT ![g] = Below(g)]
    /\ ret' = [ret EXCEPT ![g] = r]

-----------------------------------------------------------------------------
(* Call sites                                                              *)

siteFrame(t) == [Frame EXCEPT !.fn = "site", !.t = t]
sliceFrame(t) == [Frame EXCEPT !.fn = "slice", !.t = t]
exactFrame(d, slot) == [Frame EXCEPT !.fn = "exact", !.d = d, !.slot = slot]
visitFrame(c, s) == [Frame EXCEPT !.fn = "visit", !.site = c, !.scope = s]

\* Mutant of chain: nothing is remembered.
chainEmpty(g) == {}

\* callSiteChain: the constructors and slices under way in this resolution.
chain(g) ==
    LET frames == {i \in DOMAIN stack[g] :
                     \A j \in i..Len(stack[g]) : stack[g][j].fn # "get"}
    IN  {descriptors[stack[g][i].d].type :
            i \in {j \in frames : stack[g][j].fn = "exact" /\ stack[g][j].pc # "enter"}}
        \union {stack[g][i].t : i \in {j \in frames : stack[g][j].fn = "slice"}}

\* GetCallSite, and createCallSite up to its lock.
GetCallSite(g) ==
    /\ At(g, "site", "enter")
    /\ LET t == top(g).t
       IN  IF <<t, 0>> \in DOMAIN callSiteCache THEN Return(g, Site(callSiteCache[<<t, 0>>]))
           ELSE IF t \in chain(g) THEN Return(g, Err)
           ELSE Goto(g, [top(g) EXCEPT !.pc = "lock"])
    /\ UNCHANGED <<builder, callSites, locks, accessors, scopeVars, instances, calls>>

\* createCallSite with the type's lock: the last registration, or a slice.
createCallSite(g) ==
    /\ At(g, "site", "lock")
    /\ LET t == top(g).t
           made == [top(g) EXCEPT !.pc = "made"]
           ds == Registered(t)
       IN  /\ typeLock[t] = None
           /\ IF ds = {} /\ t \notin DOMAIN Elem
                THEN Return(g, Err) /\ UNCHANGED typeLock
                ELSE /\ Call(g, made, IF ds # {} THEN exactFrame(Last(ds), 0) ELSE sliceFrame(t))
                     /\ typeLock' = [typeLock EXCEPT ![t] = g]
    /\ UNCHANGED <<builder, callSites, siteLock, scopeLock, accessors, scopeVars, instances, calls>>

createCallSiteReturns(g) ==
    /\ At(g, "site", "made")
    /\ typeLock' = [typeLock EXCEPT ![top(g).t] = None]
    /\ Return(g, ret[g])
    /\ UNCHANGED <<builder, callSites, siteLock, scopeLock, accessors, scopeVars, instances, calls>>

\* newResultCacheWithLifetime.
CacheLocation(d) ==
    IF d.kind = "instance" THEN "none"
    ELSE IF d.life = "singleton" THEN "root"
    ELSE IF d.life = "scoped" THEN "scope"
    ELSE "dispose"

\* createArgumentCallSites: the next parameter, or the call site is complete.
NextArgument(g, f) ==
    IF descriptors[f.d].kind = "ctor" /\ Len(f.acc) < Len(descriptors[f.d].in)
      THEN Call(g, [f EXCEPT !.pc = "arg"], siteFrame(descriptors[f.d].in[Len(f.acc) + 1]))
      ELSE Goto(g, [f EXCEPT !.pc = "store"])

\* tryCreateExact up to its Store, createConstructorCallSite included.
tryCreateExact(g) ==
    /\ \/ /\ At(g, "exact", "enter")
          /\ LET key == <<descriptors[top(g).d].type, top(g).slot>>
             IN  IF key \in DOMAIN callSiteCache THEN Return(g, Site(callSiteCache[key]))
                 ELSE NextArgument(g, top(g))
       \/ /\ At(g, "exact", "arg")
          /\ IF ret[g].ok THEN NextArgument(g, [top(g) EXCEPT !.acc = Append(@, ret[g].site)])
             ELSE Return(g, Err)
    /\ UNCHANGED <<builder, callSites, locks, accessors, scopeVars, instances, calls>>

\* callSiteCache.Store, whoever stored one meanwhile.
storeCallSite(g) ==
    /\ At(g, "exact", "store")
    /\ LET f == top(g) d == descriptors[f.d] id == Len(sites) + 1
       IN  /\ sites' = Append(sites, newCallSite(d.kind, d.type, f.d, f.acc,
                                                 CacheLocation(d), f.slot))
           /\ callSiteCache' = With(callSiteCache, <<d.type, f.slot>>, id)
           /\ Return(g, Site(id))
    /\ siteLock' = Append(siteLock, None)
    /\ UNCHANGED <<builder, typeLock, scopeLock, accessors, scopeVars, instances, calls>>

\* getCommonCacheLocation over the elements; anything but root and scope is
\* not cached at all.
sliceLocation(ids) ==
    LET locs == {sites[ids[i]].loc : i \in DOMAIN ids}
    IN  IF locs \subseteq {"root"} THEN "root"
        ELSE IF locs \subseteq {"root", "scope"} THEN "scope"
        ELSE "none"

\* createSlice: one element per descriptor, in order, the last one in slot 0;
\* the frame's d is the descriptor it has come to.
createSlice(g) ==
    /\ At(g, "slice", "enter")
    /\ LET f == top(g)
           ds == {i \in Registered(Elem[f.t]) : i > f.d}
           d == CHOOSE i \in ds : \A j \in ds : i <= j
           id == Len(sites) + 1
       IN  IF ds # {}
             THEN /\ Call(g, [f EXCEPT !.pc = "elem", !.d = d], exactFrame(d, SlotIn(ds, d)))
                  /\ UNCHANGED <<sites, siteLock>>
             ELSE /\ sites' = Append(sites, newCallSite("slice", f.t, 0, f.acc,
                                                        sliceLocation(f.acc), 0))
                  /\ siteLock' = Append(siteLock, None)
                  /\ Return(g, Site(id))
    /\ UNCHANGED <<builder, callSiteCache, typeLock, scopeLock, accessors, scopeVars,
                   instances, calls>>

createSliceElement(g) ==
    /\ At(g, "slice", "elem")
    /\ IF ret[g].ok THEN Goto(g, [top(g) EXCEPT !.pc = "enter", !.acc = Append(@, ret[g].site)])
                    ELSE Return(g, Err)
    /\ UNCHANGED <<builder, callSites, locks, accessors, scopeVars, instances, calls>>

-----------------------------------------------------------------------------
(* The validator                                                           *)

args(c) == {sites[c].params[i] : i \in DOMAIN sites[c].params}

\* The sites of base, and the ones that need one of them, directly or not.
Needing(base) ==
    {c \in DOMAIN sites :
       \A S \in SUBSET DOMAIN sites :
         (\A x \in DOMAIN sites : x \in base \/ args(x) \intersect S # {} => x \in S) => c \in S}

\* visitCallSite of the validator finds a scoped service at or under these ...
findsScoped == Needing({c \in DOMAIN sites : sites[c].loc = "scope"})

\* Mutant of refuses: looks at the parameters only, not at theirs.
refusesDirectly ==
    {c \in DOMAIN sites : sites[c].loc = "root" /\ \E p \in args(c) : sites[p].loc = "scope"}

\* ... and refuses these: a singleton at or under it consumes a scoped service.
refuses ==
    UNION {Needing({c \in DOMAIN sites : sites[c].loc = "root" /\ args(c) \intersect scoped # {}}) :
             scoped \in {findsScoped}}

ValidateCallSite(c) == validateScopes => c \notin refuses

ValidateResolution(t, s) == validateScopes /\ s = Root => t \notin scopedServices

\* Build, with the built-in Container call site; it panics on a conflict, and
\* with ValidateOnBuild goes on to validate what g registered.
Build(g) ==
    /\ phase = "building" /\ plan.build = <<>>
    /\ phase' = IF "DetectLifetimeConflicts" \in options /\ detectLifetimeConflicts THEN "panicked"
                ELSE IF "ValidateOnBuild" \in options THEN "validating" ELSE "built"
    /\ stack' = IF phase' = "validating"
                  THEN [stack EXCEPT ![g] = <<[Frame EXCEPT !.fn = "validate"]>>]
                  ELSE stack
    /\ sites' = <<newCallSite("container", "Container", 0, <<>>, "none", 0)>>
    /\ callSiteCache' = With(<<>>, <<"Container", 0>>, 1)
    /\ typeLock' = [t \in Types |-> None]
    /\ siteLock' = <<None>>
    /\ UNCHANGED <<plan, descriptors, options, scopeLock, accessors, scopeVars,
                   instances, ret, calls>>

\* ValidateCallSite records a service that is, or needs, a scoped one.
scopedBy(c) == IF validateScopes /\ c \in findsScoped THEN scopedServices \union {sites[c].type}
               ELSE scopedServices

\* Build: validateService of each descriptor in turn; errors are collected,
\* and one is enough for Build to panic.
validateService(g) ==
    /\ At(g, "validate", "enter")
    /\ LET f == top(g)
       IN  IF f.d < Len(descriptors)
             THEN /\ Call(g, [f EXCEPT !.pc = "made", !.d = @ + 1],
                          exactFrame(f.d + 1, GetSlot(f.d + 1)))
                  /\ UNCHANGED phase
             ELSE /\ Return(g, IF f.held THEN Err ELSE NoRet)
                  /\ phase' = IF f.held THEN "panicked" ELSE "built"
    /\ UNCHANGED <<plan, descriptors, options, callSites, locks, accessors, scopeVars,
                   instances, calls>>

validatedService(g) ==
    /\ At(g, "validate", "made")
    /\ LET ok == ret[g].ok /\ ValidateCallSite(ret[g].site)
       IN  /\ Goto(g, [top(g) EXCEPT !.pc = "enter", !.held = @ \/ ~ok])
           /\ scopedServices' = IF ok THEN scopedBy(ret[g].site) ELSE scopedServices
    /\ UNCHANGED <<builder, callSites, locks, realized, scopeVars, instances, calls>>

-----------------------------------------------------------------------------
(* Get and GetByLookupKey                                                  *)

getFrame(t, key, s) == [Frame EXCEPT !.t = t, !.key = key, !.scope = s]

idle(g) == phase = "built" /\ stack[g] = <<>> /\ calls[g] < MaxCalls

\* A caller's Get or GetByLookupKey, on a scope or on the container.
Get(g, r, s) ==
    /\ idle(g) /\ s \in created
    /\ stack' = [stack EXCEPT ![g] = <<getFrame(r.type, r.key, s)>>]
    /\ calls' = [calls EXCEPT ![g] = @ + 1]
    /\ ret' = [ret EXCEPT ![g] = NoRet]
    /\ UNCHANGED <<builder, callSites, locks, accessors, scopeVars, instances>>

\* GetWithScope up to the accessor; a disposed scope or container is refused.
GetWithScope(g) ==
    /\ At(g, "get", "enter")
    /\ LET f == top(g)
           made == [f EXCEPT !.pc = "made"]
           ds == KeyRegistered(f.t, f.key)
       IN  IF cDisposed \/ f.scope \in disposed THEN Return(g, Err)
           ELSE IF <<f.t, f.key>> \in DOMAIN realized THEN Goto(g, [f EXCEPT !.pc = "access"])
           ELSE IF f.key = NoKey THEN Call(g, made, siteFrame(f.t))
           ELSE IF ds = {} THEN Return(g, Err)
           ELSE Call(g, made, exactFrame(Last(ds), GetSlot(Last(ds))))
    /\ UNCHANGED <<builder, callSites, locks, accessors, scopeVars, instances, calls>>

\* realizedServices.LoadOrStore
LoadOrStore(f, accessor) ==
    realized' = IF <<f.t, f.key>> \in DOMAIN realized THEN realized
                ELSE With(realized, <<f.t, f.key>>, accessor)

\* createServiceAccessor with its call site: validated, and resolved at once
\* if it is cached at the root.
createServiceAccessor(g) ==
    /\ At(g, "get", "made")
    /\ LET f == top(g) c == ret[g].site
       IN  IF ~ret[g].ok \/ ~ValidateCallSite(c)
             THEN Return(g, Err) /\ UNCHANGED accessors
             ELSE /\ scopedServices' = scopedBy(c)
                  /\ IF sites[c].loc = "root"
                       THEN /\ Call(g, [f EXCEPT !.pc = "value", !.site = c],
                                    visitFrame(c, Root))
                            /\ UNCHANGED realized
                       ELSE /\ LoadOrStore(f, [site |-> c, value |-> NoValue])
                            /\ Goto(g, [f EXCEPT !.pc = "access"])
    /\ UNCHANGED <<builder, callSites, locks, scopeVars, instances, calls>>

createRootAccessor(g) ==
    /\ At(g, "get", "value")
    /\ IF ret[g].ok
         THEN /\ LoadOrStore(top(g), [site |-> top(g).site, value |-> ret[g].v])
              /\ Goto(g, [top(g) EXCEPT !.pc = "access"])
         ELSE Return(g, Err) /\ UNCHANGED realized
    /\ UNCHANGED <<builder, callSites, locks, scopedServices, scopeVars, instances, calls>>

\* ValidateResolution, then accessor(scope).
access(g) ==
    /\ At(g, "get", "access")
    /\ LET f == top(g) a == realized[<<f.t, f.key>>]
       IN  IF ~ValidateResolution(f.t, f.scope) THEN Return(g, Err)
           ELSE IF a.value # NoValue THEN Return(g, Ok(a.value))
           ELSE Goto(g, visitFrame(a.site, f.scope))
    /\ UNCHANGED <<builder, callSites, locks, accessors, scopeVars, instances, calls>>

-----------------------------------------------------------------------------
(* The resolver.  held is AcquiredLocks & Scope; a scoped service resolved *)
(* from the root scope is a root one.                                      *)

atRoot(f) == sites[f.site].loc = "root" \/ (sites[f.site].loc = "scope" /\ f.scope = Root)
inScope(f) == sites[f.site].loc = "scope" /\ f.scope # Root
cacheKey(f) == <<sites[f.site].type, sites[f.site].slot>>

\* visitCallSite up to a lock: a value the call site has is returned, and
\* ResolvedServices is read before its lock is taken.
visitCallSite(g) ==
    /\ At(g, "visit", "enter")
    /\ LET f == top(g)
       IN  IF atRoot(f)
             THEN IF sites[f.site].value # NoValue THEN Return(g, Ok(sites[f.site].value))
                  ELSE Goto(g, [f EXCEPT !.pc = "lockSite"])
           ELSE IF inScope(f)
             THEN Goto(g, [f EXCEPT !.nilMap = f.scope \in cleared,
                                    !.pc = IF f.held THEN "lookup" ELSE "lockScope"])
           ELSE Goto(g, [f EXCEPT !.pc = "build"])
    /\ UNCHANGED <<builder, callSites, locks, accessors, scopeVars, instances, calls>>

\* Mutant of visitRootCache: does not look again once it has the lock.
visitRootCacheNoSecondLook(g) ==
    /\ At(g, "visit", "lockSite")
    /\ siteLock[top(g).site] = None
    /\ Goto(g, [top(g) EXCEPT !.pc = "build", !.scope = Root])
    /\ siteLock' = [siteLock EXCEPT ![top(g).site] = g]
    /\ UNCHANGED <<builder, callSites, typeLock, scopeLock, accessors, scopeVars, instances, calls>>

\* visitRootCache with the call site's lock: look again, else build it in the
\* root scope.
visitRootCache(g) ==
    /\ At(g, "visit", "lockSite")
    /\ LET f == top(g)
       IN  /\ siteLock[f.site] = None
           /\ IF sites[f.site].value # NoValue
                THEN Return(g, Ok(sites[f.site].value)) /\ UNCHANGED siteLock
                ELSE /\ Goto(g, [f EXCEPT !.pc = "build", !.scope = Root])
                     /\ siteLock' = [siteLock EXCEPT ![f.site] = g]
    /\ UNCHANGED <<builder, callSites, typeLock, scopeLock, accessors, scopeVars, instances, calls>>

\* visitScopeCache with the scope's lock, taken here unless a caller up the
\* stack holds it: look in the map that was read, else build.
visitScopeCache(g) ==
    /\ At(g, "visit", "lockScope") \/ At(g, "visit", "lookup")
    /\ LET f == top(g)
           mine == f.pc = "lockScope"
           hit == ~f.nilMap /\ cacheKey(f) \in DOMAIN resolved[f.scope]
       IN  /\ mine => scopeLock[f.scope] = None
           /\ IF hit
                THEN Return(g, Ok(resolved[f.scope][cacheKey(f)])) /\ UNCHANGED scopeLock
                ELSE /\ Goto(g, [f EXCEPT !.pc = "build"])
                     /\ scopeLock' = IF mine THEN [scopeLock EXCEPT ![f.scope] = g] ELSE scopeLock
    /\ UNCHANGED <<builder, callSites, typeLock, siteLock, accessors, scopeVars, instances, calls>>

\* What the defers of f give back when it returns.
Unlock(f) ==
    /\ siteLock' = IF atRoot(f) THEN [siteLock EXCEPT ![f.site] = None] ELSE siteLock
    /\ scopeLock' = IF inScope(f) /\ ~f.held THEN [scopeLock EXCEPT ![f.scope] = None]
                    ELSE scopeLock

\* The next thing visitCallSiteMain needs: a parameter or an element is
\* visited with the scope's lock noted, a factory asks the container anew.
parts(c) == IF c.kind = "factory" THEN descriptors[c.d].in ELSE c.params
next(g, f) ==
    LET c == sites[f.site] n == Len(f.acc) + 1 locked == f.held \/ inScope(f)
    IN  Call(g, [f EXCEPT !.pc = "part"],
             IF c.kind = "factory" THEN getFrame(parts(c)[n], NoKey, f.scope)
             ELSE [visitFrame(parts(c)[n], f.scope) EXCEPT !.held = locked])

\* visitConstructor, visitFactory, visitSlice: parts until all are there.
visitPart(g) ==
    /\ LET f == top(g)
       IN  \/ /\ At(g, "visit", "build")
              /\ Len(f.acc) < Len(parts(sites[f.site]))
              /\ next(g, f)
              /\ UNCHANGED <<siteLock, scopeLock>>
           \/ /\ At(g, "visit", "part")
              /\ IF ret[g].ok
                   THEN /\ Goto(g, [f EXCEPT !.pc = "build", !.acc = Append(@, ret[g].v)])
                        /\ UNCHANGED <<siteLock, scopeLock>>
                   ELSE Return(g, Err) /\ Unlock(f)
    /\ UNCHANGED <<builder, callSites, typeLock, accessors, scopeVars, instances, calls>>

\* The constructor or factory runs and makes an instance, or the constructor
\* fails; a constant, the container or a slice is there already.
together(values) == UNION {values[n] : n \in DOMAIN values}
construct(g) ==
    /\ At(g, "visit", "build")
    /\ LET f == top(g) c == sites[f.site] id == Len(instances) + 1
       IN  /\ Len(f.acc) = Len(parts(c))
           /\ IF c.kind \in {"ctor", "factory"}
                THEN \/ /\ instances' = Append(instances,
                               [d |-> c.d, site |-> f.site, scope |-> f.scope,
                                deps |-> together(f.acc), kept |-> FALSE, disposed |-> 0])
                        /\ Goto(g, [f EXCEPT !.pc = "capture", !.d = id, !.acc = <<{id}>>])
                        /\ UNCHANGED <<siteLock, scopeLock>>
                     \/ /\ descriptors[c.d].fails
                        /\ Return(g, Err)
                        /\ Unlock(f)
                        /\ UNCHANGED instances
                ELSE /\ Goto(g, [f EXCEPT !.pc = "capture", !.acc = <<together(f.acc)>>])
                     /\ UNCHANGED <<instances, siteLock, scopeLock>>
    /\ UNCHANGED <<builder, callSites, typeLock, accessors, scopeVars, calls>>

\* CaptureDisposable and CaptureDisposableWithoutLock, then the value goes
\* where it is cached.
capture(g) ==
    /\ At(g, "visit", "capture")
    /\ LET f == top(g) c == sites[f.site]
           made == c.kind \in {"ctor", "factory"}
           i == f.d
           value == f.acc[1]
           captures == made /\ c.loc # "none" /\ descriptors[c.d].disposable
           late == f.scope \in disposed
           nilWrite == inScope(f) /\ f.nilMap
           ok == ~(captures /\ late) /\ ~nilWrite
       IN  /\ captures /\ ~inScope(f) => scopeLock[f.scope] = None
           /\ instances' = IF ~made THEN instances
                           ELSE IF captures /\ late
                             THEN [instances EXCEPT ![i].disposed = @ + 1]
                             ELSE [instances EXCEPT ![i].kept = ok]
           /\ disposables' = IF captures /\ ~late
                                THEN [disposables EXCEPT ![f.scope] = Append(@, i)]
                                ELSE disposables
           /\ sites' = IF atRoot(f) /\ ok THEN [sites EXCEPT ![f.site].value = value] ELSE sites
           /\ resolved' = IF inScope(f) /\ ok
                            THEN [resolved EXCEPT ![f.scope] = With(@, cacheKey(f), value)]
                            ELSE resolved
           /\ Return(g, IF ok THEN Ok(value) ELSE Err)
           /\ Unlock(f)
    /\ UNCHANGED <<builder, callSiteCache, typeLock, accessors, cDisposed, created, disposed,
                   cleared, calls>>

-----------------------------------------------------------------------------
(* Scopes                                                                  *)

CreateScope(g, s) ==
    /\ idle(g) /\ ~cDisposed
    /\ s \in Scopes \ created
    /\ created' = created \union {s}
    /\ calls' = [calls EXCEPT ![g] = @ + 1]
    /\ UNCHANGED <<builder, callSites, locks, accessors, cDisposed, disposed, cleared, resolved,
                   disposables, instances, stack, ret>>

\* Dispose of a scope, or of the container: the flag first.  Only the first
\* caller goes on.
Dispose(g, s) ==
    /\ idle(g) /\ s \in created
    /\ cDisposed' = (cDisposed \/ s = Root)
    /\ disposed' = disposed \union {s}
    /\ stack' = IF s \in disposed THEN stack
                ELSE [stack EXCEPT ![g] = <<[Frame EXCEPT !.fn = "dispose", !.scope = s]>>]
    /\ calls' = [calls EXCEPT ![g] = @ + 1]
    /\ UNCHANGED <<builder, callSites, locks, accessors, created, cleared, resolved,
                   disposables, instances, ret>>

\* BeginDispose: the scope's disposables and map are taken from it.
BeginDispose(g) ==
    /\ At(g, "dispose", "enter")
    /\ LET s == top(g).scope
       IN  /\ scopeLock[s] = None
           /\ Goto(g, [top(g) EXCEPT !.pc = "list", !.acc = disposables[s]])
           /\ disposables' = [disposables EXCEPT ![s] = <<>>]
           /\ cleared' = cleared \union {s}
    /\ UNCHANGED <<builder, callSites, locks, accessors, cDisposed, created, disposed, resolved,
                   instances, calls>>

\* Mutant of disposeNext: in the order of construction.
disposeNextInOrder(g) ==
    /\ At(g, "dispose", "list")
    /\ LET l == top(g).acc
       IN  IF l = <<>> THEN Return(g, NoRet) /\ UNCHANGED instances
           ELSE /\ instances' = [instances EXCEPT ![Head(l)].disposed = @ + 1]
                /\ Goto(g, [top(g) EXCEPT !.acc = Tail(l)])
    /\ UNCHANGED <<builder, callSites, locks, accessors, scopeVars, calls>>

\* The last one of the list is disposed.
disposeNext(g) ==
    /\ At(g, "dispose", "list")
    /\ LET l == top(g).acc
       IN  IF l = <<>> THEN Return(g, NoRet) /\ UNCHANGED instances
           ELSE /\ instances' = [instances EXCEPT ![l[Len(l)]].disposed = @ + 1]
                /\ Goto(g, [top(g) EXCEPT !.acc = SubSeq(l, 1, Len(l) - 1)])
    /\ UNCHANGED <<builder, callSites, locks, accessors, scopeVars, calls>>

-----------------------------------------------------------------------------
Step(g) ==
    \/ GetCallSite(g) \/ createCallSite(g) \/ createCallSiteReturns(g)
    \/ tryCreateExact(g) \/ storeCallSite(g) \/ createSlice(g) \/ createSliceElement(g)
    \/ validateService(g) \/ validatedService(g)
    \/ GetWithScope(g) \/ createServiceAccessor(g) \/ createRootAccessor(g) \/ access(g)
    \/ visitCallSite(g) \/ visitRootCache(g) \/ visitScopeCache(g)
    \/ visitPart(g) \/ construct(g) \/ capture(g)
    \/ BeginDispose(g) \/ disposeNext(g)

Start(g) ==
    \/ \E r \in plan.ask, s \in AllScopes : Get(g, r, s)
    \/ \E s \in Scopes : CreateScope(g, s)
    \/ \E s \in AllScopes : Dispose(g, s)

Next == Configure \/ \E g \in Goroutines : Build(g) \/ Start(g) \/ Step(g)

Spec == Init /\ [][Next]_vars

\* A goroutine runs on, and sync.Mutex serves every waiter.
FairSpec == Spec /\ \A g \in Goroutines : SF_vars(Step(g))

-----------------------------------------------------------------------------
(* Properties                                                              *)

Inst(i) == instances[i]
Desc(i) == descriptors[instances[i].d]

\* A descriptor some caller reaches otherwise than by its own service type: by
\* an interface, an element of a slice or a lookup key.
aliased(d) ==
    \/ descriptors[d].impl # {} \/ descriptors[d].keys # {}
    \/ \E t \in DOMAIN Elem : Elem[t] = descriptors[d].type

\* A singleton reached by its service type only is constructed once and kept,
\* whoever asks for it first, from whichever scope, directly or as a parameter,
\* and a scoped service once per scope (createCallSite, visitRootCache,
\* visitScopeCache).
OneInstanceEach ==
    \A i, j \in DOMAIN instances :
        /\ i # j /\ Inst(i).d = Inst(j).d /\ Inst(i).kept /\ Inst(j).kept
        /\ ~aliased(Inst(i).d)
        => \/ Desc(i).life = "transient"
           \/ Desc(i).life = "scoped" /\ Inst(i).scope # Inst(j).scope

\* "One instance for the lifetime of the container", however it is asked for.
OneSingleton ==
    \A i, j \in DOMAIN instances :
        Inst(i).d = Inst(j).d /\ Desc(i).life = "singleton" => i = j

ended(s) == s \in disposed /\ \A g \in Goroutines : stack[g] = <<>>

\* What a scope disposes of, it disposes of once, and after everything in the
\* scope that was built on it; what is constructed while the scope is being
\* disposed is disposed of too, and nothing is left over (BeginDispose,
\* CaptureDisposable, CaptureDisposableWithoutLock).
DisposedOnceInOrder ==
    \A i \in DOMAIN instances :
        /\ Inst(i).disposed <= 1
        /\ ended(Inst(i).scope) /\ Desc(i).disposable => Inst(i).disposed = 1
        /\ Inst(i).disposed = 1 =>
              \A j \in DOMAIN instances :
                 /\ i \in Inst(j).deps /\ Inst(j).scope = Inst(i).scope
                 /\ Inst(j).kept /\ Desc(j).disposable
                 => Inst(j).disposed = 1

\* Nothing that is, or needs, a scoped service is registered for an interface
\* too: the validator knows a service by its own type, the resolver by the type
\* that was asked for.
ownTypeOnly ==
    \A c \in findsScoped, d \in DOMAIN descriptors :
        descriptors[d].type = sites[c].type => descriptors[d].impl = {}

\* With ValidateScopes no scoped service ever lives in the root scope: not as
\* what a singleton consumes, directly or through transients, and not because
\* a caller asked the root for it or for something that needs it, by type, by
\* lookup key or as a slice, whichever was resolved first (ValidateCallSite,
\* ValidateResolution).
NoCaptiveDependency ==
    validateScopes /\ ownTypeOnly =>
        \A i \in DOMAIN instances : Desc(i).life = "scoped" => Inst(i).scope # Root

\* Every call returns: no caller waits for ever for a lock (the locks of
\* types, call sites and scopes).
GetsReturn == \A g \in Goroutines : stack[g] # <<>> ~> stack[g] = <<>>

=============================================================================
