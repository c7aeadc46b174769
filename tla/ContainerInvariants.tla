------------------------ MODULE ContainerInvariants -------------------------
(***************************************************************************)
(* The inductive invariants of DIContainer, over its stacks of frames.     *)
(*                                                                         *)
(* ShapeInv is the type invariant: what frames, call sites and scopes      *)
(* refer to, and who may call whom.  SiteInv: a descriptor reached by its  *)
(* service type only has one call site, since whoever makes it owns the    *)
(* type's lock, or validates in Build before anybody runs, and found none  *)
(* in the cache.                                                           *)
(* KeepInv: of a call site one instance is kept in the container, or in    *)
(* each scope, since whoever builds it owns the call site's or the scope's *)
(* lock and found nothing there.  DisposeInv follows a disposable instance *)
(* from its builder to the list of its scope, to the goroutine that took   *)
(* the list, and says that a list names an instance after what it was      *)
(* built on.  CaptiveInv: what is made answers what was asked for, and no  *)
(* frame resolves for the root a call site the validator finds scoped.     *)
(***************************************************************************)
EXTENDS DIContainer

-----------------------------------------------------------------------------
(* Records, sequences and stacks                                           *)

\* A sequence, whatever its elements.
IsSeq(s) == s \in Seq({s[n] : n \in DOMAIN s})

\* Records with exactly these fields.
IsFrame(f) ==
    f \in [fn : {f.fn}, pc : {f.pc}, t : {f.t}, key : {f.key}, d : {f.d}, slot : {f.slot}, site : {f.site},
           scope : {f.scope}, held : {f.held}, nilMap : {f.nilMap}, acc : {f.acc}]
IsSite(c) ==
    c \in [kind : {c.kind}, type : {c.type}, d : {c.d}, params : {c.params}, loc : {c.loc}, slot : {c.slot},
           value : {c.value}]
IsInstance(i) ==
    i \in [d : {i.d}, site : {i.site}, scope : {i.scope}, deps : {i.deps}, kept : {i.kept},
           disposed : {i.disposed}]

StacksAre == DOMAIN stack = Goroutines /\ DOMAIN ret = Goroutines /\ \A g \in Goroutines : IsSeq(stack[g])

-----------------------------------------------------------------------------
(* Who calls whom, and what a frame knows                                  *)

\* hi may be the frame above lo.
CalledBy(lo, hi) ==
    \/ hi.fn = "get" /\ lo.fn = "visit" /\ lo.pc = "part"
    \/ hi.fn = "visit" /\ ((lo.fn = "get" /\ lo.pc = "value") \/ (lo.fn = "visit" /\ lo.pc = "part"))
    \/ hi.fn = "site" /\ ((lo.fn = "get" /\ lo.pc = "made") \/ (lo.fn = "exact" /\ lo.pc = "arg"))
    \/ /\ hi.fn = "exact"
       /\ (lo.fn \in {"site", "get", "validate"} /\ lo.pc = "made") \/ (lo.fn = "slice" /\ lo.pc = "elem")
    \/ hi.fn = "slice" /\ lo.fn = "site" /\ lo.pc = "made"

\* What a goroutine starts with.
Bottoms == {"get", "visit", "validate", "dispose"}

\* What a frame refers to is there.
FrameOK(f) ==
    /\ IsFrame(f) /\ f.scope \in AllScopes /\ f.held \in BOOLEAN /\ f.nilMap \in BOOLEAN /\ IsSeq(f.acc)
    /\ f.fn = "get" => f.t \in Types
    /\ f.fn = "get" /\ f.pc = "value" => f.site \in DOMAIN sites
    /\ f.fn = "get" /\ f.pc = "access" => <<f.t, f.key>> \in DOMAIN realized
    /\ f.fn = "site" => f.t \in Types
    /\ f.fn = "slice" => f.t \in DOMAIN Elem /\ f.d \in Nat
    /\ f.fn \in {"exact", "slice"} => \A n \in DOMAIN f.acc : f.acc[n] \in DOMAIN sites
    /\ f.fn = "exact" => f.d \in DOMAIN descriptors
    /\ f.fn = "validate" => f.d \in 0..Len(descriptors)
    /\ f.fn = "visit" => f.site \in DOMAIN sites
    /\ f.fn = "dispose" => f.scope \in disposed

FramesOK == \A g \in Goroutines : \A n \in DOMAIN stack[g] : FrameOK(stack[g][n])
CallsOK ==
    \A g \in Goroutines : \A n \in DOMAIN stack[g] :
      /\ n = 1 => stack[g][n].fn \in Bottoms
      /\ n # 1 => CalledBy(stack[g][n - 1], stack[g][n])
\* While Build validates, nobody else runs.
Alone ==
    \A g \in Goroutines : \A n \in DOMAIN stack[g] :
      stack[g][n].fn = "validate" => phase = "validating" /\ \A h \in Goroutines \ {g} : stack[h] = <<>>

ShapeStacks == StacksAre /\ FramesOK /\ CallsOK /\ Alone

-----------------------------------------------------------------------------
(* The shape of the state                                                  *)

\* What a call has returned to whoever waits for a call site is one.
Awaiting == {"made", "arg", "elem"}
ReturnsSite ==
    \A g \in Goroutines :
      stack[g] # <<>> /\ top(g).pc \in Awaiting /\ ret[g].ok => ret[g].site \in DOMAIN sites

\* A call site is of a descriptor, and needs call sites made before it.
OfDescriptor == {"ctor", "factory", "instance"}
SiteOK(c) ==
    /\ IsSite(sites[c])
    /\ sites[c].kind \in OfDescriptor \union {"slice", "container"}
    /\ IsSeq(sites[c].params)
    /\ \A n \in DOMAIN sites[c].params : sites[c].params[n] \in 1..c-1
    /\ sites[c].kind \in OfDescriptor =>
         /\ sites[c].d \in DOMAIN descriptors /\ sites[c].kind = descriptors[sites[c].d].kind
         /\ sites[c].type = descriptors[sites[c].d].type
         /\ sites[c].loc = CacheLocation(descriptors[sites[c].d])

SitesOK ==
    /\ IsSeq(sites) /\ IsSeq(siteLock) /\ Len(siteLock) = Len(sites)
    /\ \A c \in DOMAIN sites : SiteOK(c)
    /\ \A k \in DOMAIN callSiteCache : callSiteCache[k] \in DOMAIN sites
    /\ \A k \in DOMAIN realized : realized[k].site \in DOMAIN sites

\* Nothing is resolved before Build, and every known type has a lock after it.
BuildingOK ==
    /\ phase \in {"building", "validating", "built", "panicked"}
    /\ IsSeq(descriptors) /\ \A i \in DOMAIN descriptors : DescriptorOK(descriptors[i])
    /\ PlanOK(plan)
    /\ phase = "building" =>
         /\ \A g \in Goroutines : stack[g] = <<>>
         /\ sites = <<>> /\ callSiteCache = <<>> /\ realized = <<>> /\ instances = <<>>
    /\ phase # "building" => DOMAIN typeLock = Types

ScopesOK ==
    /\ DOMAIN scopeLock = AllScopes /\ DOMAIN resolved = AllScopes
    /\ DOMAIN disposables = AllScopes /\ \A s \in AllScopes : IsSeq(disposables[s])
    /\ created \subseteq AllScopes /\ disposed \subseteq AllScopes /\ cleared \subseteq disposed

ShapeInv == BuildingOK /\ ShapeStacks /\ ReturnsSite /\ SitesOK /\ ScopesOK

-----------------------------------------------------------------------------
(* One call site for a descriptor that is reached by its type only         *)

\* The frames that make call sites.
Makes == {"site", "exact", "slice"}
MakesSite(f) == f.fn \in Makes

\* Two frames of a stack, lo below hi.
SitePair(lo, hi) ==
    /\ MakesSite(lo) => MakesSite(hi)
    /\ lo.fn = "exact" /\ hi.fn = "site" /\ hi.pc \in {"lock", "made"} => hi.t # descriptors[lo.d].type
    /\ lo.fn = "site" /\ hi.fn = "site" /\ lo.pc = "made" /\ hi.pc = "made" => lo.t # hi.t

NoSiteOf(d) == \A c \in DOMAIN sites : sites[c].kind \in OfDescriptor => sites[c].d # d

\* The descriptor's call site is made under the lock of the type, or by Build
\* before anybody else runs.
ExactOK(lo, f) ==
    f.fn = "exact" /\ ~aliased(f.d) =>
      /\ f.slot = GetSlot(f.d)
      /\ lo.fn = "validate" \/ (lo.fn = "site" /\ lo.t = descriptors[f.d].type)
      /\ f.pc \in {"arg", "store"} => NoSiteOf(f.d)

OwnOK(g, f) == f.fn = "site" /\ f.pc = "made" => typeLock[f.t] = g

\* One call site for a descriptor, and it is cached.
OneSite ==
    \A c, e \in DOMAIN sites :
      /\ sites[c].kind \in OfDescriptor /\ sites[e].kind \in OfDescriptor
      /\ sites[c].d = sites[e].d /\ ~aliased(sites[c].d)
      => c = e

SiteIsCached ==
    \A c \in DOMAIN sites :
      sites[c].kind \in OfDescriptor /\ ~aliased(sites[c].d) =>
        <<sites[c].type, GetSlot(sites[c].d)>> \in DOMAIN callSiteCache

SiteStacks ==
    \A g \in Goroutines : \A j \in DOMAIN stack[g] :
      /\ OwnOK(g, stack[g][j])
      /\ \A i \in DOMAIN stack[g] : i < j => SitePair(stack[g][i], stack[g][j])
      /\ j # 1 => ExactOK(stack[g][j - 1], stack[g][j])

SiteInv == OneSite /\ SiteIsCached /\ SiteStacks

-----------------------------------------------------------------------------
(* One instance of a call site is kept, in the container or in a scope     *)

\* A visit that found nothing; a call site whose visit builds an instance.
Building(f) == f.fn = "visit" /\ f.pc \in {"build", "part", "capture"}
Made(c) == sites[c].kind \in {"ctor", "factory"}

NoneKept(c, s) ==
    \A i \in DOMAIN instances : instances[i].kept /\ instances[i].site = c => instances[i].scope # s

\* What a visiting frame holds and knows.
VisitLocks(g, f) ==
    /\ f.pc = "lookup" => inScope(f) /\ f.held
    /\ f.pc = "lockScope" => inScope(f) /\ ~f.held
    /\ f.pc = "lockSite" => atRoot(f)
    /\ f.held /\ f.scope # Root => scopeLock[f.scope] = g
    /\ Building(f) /\ atRoot(f) => f.scope = Root /\ siteLock[f.site] = g /\ sites[f.site].value = NoValue
    /\ Building(f) /\ inScope(f) => scopeLock[f.scope] = g
VisitInstance(f) ==
    /\ Building(f) /\ inScope(f) /\ ~f.nilMap => NoneKept(f.site, f.scope)
    /\ f.pc = "capture" /\ Made(f.site) =>
         /\ f.d \in DOMAIN instances /\ f.acc[1] = {f.d}
         /\ instances[f.d].site = f.site /\ instances[f.d].scope = f.scope
VisitOK(g, f) == f.fn = "visit" => VisitLocks(g, f) /\ VisitInstance(f)

\* Two visiting frames of a stack, lo below hi.
VisitPair(lo, hi) ==
    lo.fn = "visit" /\ hi.fn = "visit" =>
      /\ lo.scope # Root /\ hi.scope = lo.scope /\ (lo.held \/ inScope(lo)) =>
           (hi.held => hi.site < lo.site) /\ (Building(hi) /\ inScope(hi) => hi.held)
      /\ atRoot(lo) /\ atRoot(hi) /\ Building(hi) => lo.site # hi.site

KeepStacks ==
    \A g \in Goroutines : \A j \in DOMAIN stack[g] :
      /\ VisitOK(g, stack[g][j])
      /\ \A i \in DOMAIN stack[g] : i < j => VisitPair(stack[g][i], stack[g][j])

\* An instance is of its call site, and once kept its call site or scope has it.
InstanceOK(i) ==
    /\ IsInstance(instances[i])
    /\ instances[i].site \in DOMAIN sites /\ Made(instances[i].site)
    /\ instances[i].d = sites[instances[i].site].d
    /\ instances[i].scope \in AllScopes /\ instances[i].kept \in BOOLEAN
    /\ sites[instances[i].site].loc = "root" => instances[i].scope = Root
    /\ instances[i].kept =>
         LET c == instances[i].site s == instances[i].scope
         IN  /\ sites[c].loc = "root" \/ (sites[c].loc = "scope" /\ s = Root) => sites[c].value # NoValue
             /\ sites[c].loc = "scope" /\ s # Root => <<sites[c].type, sites[c].slot>> \in DOMAIN resolved[s]

InstancesOK == IsSeq(instances) /\ \A i \in DOMAIN instances : InstanceOK(i)

\* Of one call site no two are kept in the same scope.
OneKept ==
    \A i, j \in DOMAIN instances :
      /\ i # j /\ instances[i].kept /\ instances[j].kept /\ instances[i].site = instances[j].site
      /\ sites[instances[i].site].loc \in {"root", "scope"}
      => instances[i].scope # instances[j].scope

KeepInv == InstancesOK /\ OneKept /\ KeepStacks

-----------------------------------------------------------------------------
(* What is disposed of                                                     *)

\* A value consists of instances that have been handed out.
ValueOK(v) == \A i \in v : i \in DOMAIN instances /\ instances[i].kept

\* The instance g has built and not captured; the scope g is to dispose of;
\* the scope whose disposables g has taken, and what is left of them.
Held(g) == IF At(g, "visit", "capture") /\ Made(top(g).site) THEN {top(g).d} ELSE {}
Entered(g) == IF At(g, "dispose", "enter") THEN {top(g).scope} ELSE {}
Listed(g) == IF At(g, "dispose", "list") THEN {top(g).scope} ELSE {}
List(g) == IF At(g, "dispose", "list") THEN top(g).acc ELSE <<>>

\* Caches, results and the frames of visits hold such values.
CachesOK ==
    /\ \A c \in DOMAIN sites : sites[c].value = NoValue \/ ValueOK(sites[c].value)
    /\ \A s \in AllScopes : \A k \in DOMAIN resolved[s] : ValueOK(resolved[s][k])
    /\ \A k \in DOMAIN realized : realized[k].value = NoValue \/ ValueOK(realized[k].value)
    /\ \A i \in DOMAIN instances : ValueOK(instances[i].deps)
ReturnsOK == \A g \in Goroutines : ret[g].ok => ValueOK(ret[g].v)
HandsOn(f) ==
    f.fn = "visit" =>
      IF f.pc = "capture" THEN Made(f.site) \/ ValueOK(f.acc[1]) ELSE \A n \in DOMAIN f.acc : ValueOK(f.acc[n])
HandsOnAll == \A g \in Goroutines : \A n \in DOMAIN stack[g] : HandsOn(stack[g][n])

\* What is built and not yet captured is known to its builder only.
PendingOK ==
    \A g \in Goroutines : \A i \in Held(g) :
      /\ i \in DOMAIN instances /\ instances[i].disposed = 0 /\ ~instances[i].kept
      /\ \A h \in Goroutines \ {g} : i \notin Held(h)

\* A list of scope s: each instance of it once, after what it was built on.
ListOK(l, s) ==
    /\ \A n \in DOMAIN l :
         /\ l[n] \in DOMAIN instances /\ instances[l[n]].disposed = 0 /\ instances[l[n]].scope = s
         /\ \A g \in Goroutines : l[n] \notin Held(g)
    /\ \A m, n \in DOMAIN l : m < n => l[m] # l[n] /\ l[n] \notin instances[l[m]].deps
InList(i, l) == \E n \in DOMAIN l : l[n] = i

\* Until its list is taken a disposed scope has one goroutine that will; then
\* it has no list of its own.
ScopeListsOK ==
    /\ \A s \in AllScopes : ListOK(disposables[s], s) /\ (s \in cleared => disposables[s] = <<>>)
    /\ \A s \in disposed \ cleared : \E g \in Goroutines : s \in Entered(g)
TakenListsOK ==
    \A g \in Goroutines :
      /\ \A s \in Entered(g) : s \notin cleared
      /\ \A s \in Listed(g) : s \in cleared /\ ListOK(List(g), s)
      /\ \A s \in Entered(g) \union Listed(g) :
           s \in disposed /\ \A h \in Goroutines \ {g} : s \notin Entered(h) \union Listed(h)

\* Where a disposable instance is.
Placed(i) ==
    \/ instances[i].disposed = 1
    \/ InList(i, disposables[instances[i].scope])
    \/ \E g \in Goroutines : i \in Held(g) \/ (instances[i].scope \in Listed(g) /\ InList(i, List(g)))

DisposalsOK ==
    \A i \in DOMAIN instances :
      /\ instances[i].disposed \in {0, 1}
      /\ instances[i].kept /\ instances[i].disposed = 1 => instances[i].scope \in cleared
      /\ descriptors[instances[i].d].disposable => Placed(i)
      /\ instances[i].disposed = 1 =>
           \A j \in DOMAIN instances :
             /\ i \in instances[j].deps /\ instances[j].scope = instances[i].scope
             /\ instances[j].kept /\ descriptors[instances[j].d].disposable
             => instances[j].disposed = 1

Values == CachesOK /\ ReturnsOK /\ HandsOnAll
Disposing == PendingOK /\ ScopeListsOK /\ TakenListsOK /\ DisposalsOK
DisposeInv == Values /\ Disposing

-----------------------------------------------------------------------------
(* What is asked for, and what may be resolved where                       *)

\* c is a call site for t: of that type, or of one registered for it.
Answers(c, t) ==
    /\ c \in DOMAIN sites
    /\ \/ sites[c].type = t
       \/ \E d \in DOMAIN descriptors : descriptors[d].type = sites[c].type /\ t \in descriptors[d].impl

\* A call site that is wanted is asked for by its type or a registration for it.
AskPair(lo, hi) ==
    lo.fn \in {"site", "get"} =>
      /\ hi.fn = "exact" => Provides(descriptors[hi.d], lo.t)
      /\ hi.fn \in {"site", "slice"} => hi.t = lo.t

\* A frame that waits for a call site.
Awaits(f) == f.fn \in {"site", "get"} /\ f.pc = "made"

CacheTyped == \A k \in DOMAIN callSiteCache : sites[callSiteCache[k]].type = k[1]
AskStacks ==
    \A g \in Goroutines : \A n \in DOMAIN stack[g] : n # 1 => AskPair(stack[g][n - 1], stack[g][n])
RetAnswers ==
    \A g \in Goroutines :
      stack[g] # <<>> /\ Awaits(top(g)) /\ ret[g].ok => Answers(ret[g].site, top(g).t)

\* Scopes are validated, by the types that are asked for.
Guarded == validateScopes /\ ownTypeOnly

\* The validator has nothing against c being resolved in s.
Safe(c, s) == Guarded => c \notin refuses /\ (s = Root => c \notin findsScoped)
FrameSafe(f) ==
    /\ f.fn = "visit" => Safe(f.site, f.scope)
    /\ f.fn = "get" /\ f.pc = "value" => Safe(f.site, Root)

FramesSafe == \A g \in Goroutines : \A n \in DOMAIN stack[g] : FrameSafe(stack[g][n])
\* An accessor of a call site that needs a scope is known by what was asked for.
RealizedSafe ==
    Guarded =>
      \A x \in DOMAIN realized :
        /\ realized[x].site \notin refuses
        /\ realized[x].site \in findsScoped => x[1] \in scopedServices
InstancesSafe ==
    Guarded => \A i \in DOMAIN instances : instances[i].scope = Root => sites[instances[i].site].loc # "scope"

StacksSafe == AskStacks /\ RetAnswers /\ FramesSafe
CaptiveInv == CacheTyped /\ StacksSafe /\ RealizedSafe /\ InstancesSafe
=============================================================================
