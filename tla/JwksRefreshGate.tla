--------------------------- MODULE JwksRefreshGate --------------------------
(***************************************************************************)
(* middleware/auth/jwt: how requests get the key set of a JWKS URL         *)
(* (keySetForKid, loadKeySet), for one URL: every URL has its own gate.    *)
(*                                                                         *)
(* The httprc cache and the identity provider are the environment: the     *)
(* cache holds the last set fetched, fetches in the background once at     *)
(* registration and whenever it likes, and a fetch returns what the        *)
(* provider published at some instant while it ran, or fails.              *)
(*                                                                         *)
(* Time is relative: an age counts ticks since an event and stops at       *)
(* Interval, the first age at which another forced refresh is allowed; an  *)
(* event that never happened has that age (a zero time).                   *)
(***************************************************************************)
EXTENDS Naturals

CONSTANTS
    Validators,     \* goroutines validating a token
    Kids,        \* key IDs tokens may carry, published or not
    OldKids,     \* the keys published from the start
    NewKid,      \* the key a rollover publishes
    Interval,    \* _minJWKSRefreshInterval
    MaxOutages,  \* bound: times the provider becomes unreachable
    NoValidator

ASSUME GateAssumption ==
    /\ NewKid \in Kids /\ OldKids \subseteq Kids
    /\ Interval \in Nat \ {0}
    /\ MaxOutages \in Nat
    /\ NoValidator \notin Validators

VARIABLES
    published, up, outages,  \* the provider: its keys, whether it answers
    cached, everFetched,     \* the cache: the key set, once there is one
    background,              \* a background fetch is running
    last,                    \* age of gate.last
    mu,                      \* who holds gate.mu across a fetch
    snapshot,                \* what was published when that fetch began
    point, kid, answer,         \* per caller
    sinceForced              \* age of the last forced fetch (history)

idp == <<published, up, outages>>
keyCache == <<cached, everFetched, background>>
gateVars == <<idp, keyCache, last, mu, snapshot, point, kid, answer, sinceForced>>

GateInit ==
    /\ published = OldKids
    /\ up \in BOOLEAN
    /\ outages = 0
    /\ cached = {}
    /\ everFetched = FALSE
    /\ background = TRUE
    /\ last = Interval
    /\ mu = NoValidator
    /\ snapshot = {}
    /\ point = [c \in Validators |-> "idle"]
    /\ kid = [c \in Validators |-> NewKid]
    /\ answer = [c \in Validators |-> "none"]
    /\ sinceForced = Interval

-----------------------------------------------------------------------------
(* The provider, the cache and time                                        *)

Older(age) == IF age < Interval THEN age + 1 ELSE age

GateTick ==
    /\ last' = Older(last)
    /\ sinceForced' = Older(sinceForced)
    /\ UNCHANGED <<idp, keyCache, mu, snapshot, point, kid, answer>>

Rollover ==
    /\ published' = published \union {NewKid}
    /\ UNCHANGED <<up, outages, keyCache, last, mu, snapshot, point, kid, answer, sinceForced>>

Outage ==
    /\ up /\ outages < MaxOutages
    /\ up' = FALSE
    /\ outages' = outages + 1
    /\ UNCHANGED <<published, keyCache, last, mu, snapshot, point, kid, answer, sinceForced>>

Recover ==
    /\ ~up
    /\ up' = TRUE
    /\ UNCHANGED <<published, outages, keyCache, last, mu, snapshot, point, kid, answer, sinceForced>>

\* The cache's own fetch ends; a failed one leaves the set that was there.
BackgroundEnd ==
    /\ background
    /\ background' = FALSE
    /\ IF up THEN cached' = published /\ everFetched' = TRUE
             ELSE UNCHANGED <<cached, everFetched>>
    /\ UNCHANGED <<idp, last, mu, snapshot, point, kid, answer, sinceForced>>

BackgroundBegin ==
    /\ ~background
    /\ background' = TRUE
    /\ UNCHANGED <<idp, cached, everFetched, last, mu, snapshot, point, kid, answer, sinceForced>>

-----------------------------------------------------------------------------
(* A caller                                                                *)

At(c, step) == point' = [point EXCEPT ![c] = step]
Return(c, r) == At(c, "idle") /\ answer' = [answer EXCEPT ![c] = r]
Keep == UNCHANGED <<idp, keyCache, last, mu, snapshot, kid, sinceForced>>

recent == last < Interval

\* With set s in hand: the kid is in it, or the gate is next.
TryKid(c, s) == IF kid[c] \in s THEN Return(c, "ok") ELSE At(c, "kidGate") /\ UNCHANGED answer

\* keySetForKid: the first lookup.
KeySetForKid(c, k) ==
    /\ point[c] = "idle"
    /\ kid' = [kid EXCEPT ![c] = k]
    /\ At(c, "lookup")
    /\ answer' = [answer EXCEPT ![c] = "none"]
    /\ UNCHANGED <<idp, keyCache, last, mu, snapshot, sinceForced>>

LookUpKid(c) ==
    /\ point[c] = "lookup"
    /\ IF everFetched THEN TryKid(c, cached) ELSE At(c, "load") /\ UNCHANGED answer
    /\ Keep

\* loadKeySet up to the wait: gate.mu is taken for a look at gate.last.
LoadKeySet(c) ==
    /\ point[c] = "load"
    /\ mu = NoValidator
    /\ \/ recent /\ everFetched /\ TryKid(c, cached)
       \/ recent /\ ~everFetched /\ Return(c, "error")
       \/ /\ ~recent
          /\ At(c, IF background THEN "wait" ELSE "loadGate") /\ UNCHANGED answer
    /\ Keep

\* r.Ready returns, or firstLoadWait passes.
ReadyOrTimeout(c) ==
    /\ point[c] = "wait"
    /\ IF everFetched THEN TryKid(c, cached) ELSE At(c, "loadGate") /\ UNCHANGED answer
    /\ Keep

\* The attempt is recorded, then refreshJWKS starts, gate.mu held.
BeginRefresh(c) ==
    /\ last' = 0
    /\ sinceForced' = 0
    /\ mu' = c
    /\ snapshot' = published
    /\ UNCHANGED answer

\* Mutant of LoadGate: whoever waited for the gate fetches, however recently
\* another did.
LoadGateUnchecked(c) ==
    /\ point[c] = "loadGate"
    /\ mu = NoValidator
    /\ IF everFetched
         THEN TryKid(c, cached) /\ UNCHANGED <<last, sinceForced, mu, snapshot>>
         ELSE At(c, "fetch") /\ BeginRefresh(c)
    /\ UNCHANGED <<idp, keyCache, kid>>

\* loadKeySet with the gate: another request may have loaded the keys, or
\* tried to a moment ago.
LoadGate(c) ==
    /\ point[c] = "loadGate"
    /\ mu = NoValidator
    /\ \/ /\ everFetched
          /\ TryKid(c, cached) /\ UNCHANGED <<last, sinceForced, mu, snapshot>>
       \/ /\ ~everFetched /\ recent
          /\ Return(c, "error") /\ UNCHANGED <<last, sinceForced, mu, snapshot>>
       \/ /\ ~everFetched /\ ~recent
          /\ At(c, "fetch") /\ BeginRefresh(c)
    /\ UNCHANGED <<idp, keyCache, kid>>

Finds(c) == everFetched /\ kid[c] \in cached

\* Mutant of KidGate: an unknown kid is refused for good.
KidGateNeverRefreshes(c) ==
    /\ point[c] = "kidGate"
    /\ mu = NoValidator
    /\ Return(c, IF Finds(c) THEN "ok" ELSE "unknown")
    /\ UNCHANGED <<idp, keyCache, last, sinceForced, mu, snapshot, kid>>

\* keySetForKid with the gate: look again, refuse if refreshed recently, else
\* refresh.
KidGate(c) ==
    /\ point[c] = "kidGate"
    /\ mu = NoValidator
    /\ \/ /\ Finds(c)
          /\ Return(c, "ok") /\ UNCHANGED <<last, sinceForced, mu, snapshot>>
       \/ /\ ~Finds(c) /\ recent
          /\ Return(c, "unknown") /\ UNCHANGED <<last, sinceForced, mu, snapshot>>
       \/ /\ ~Finds(c) /\ ~recent
          /\ At(c, "fetchKid") /\ BeginRefresh(c)
    /\ UNCHANGED <<idp, keyCache, kid>>

\* refreshJWKS returns set s, which the cache now holds.  After a first load
\* keySetForKid still has to find the kid in it.
RefreshOk(c) ==
    /\ point[c] \in {"fetch", "fetchKid"}
    /\ up
    /\ \E s \in {snapshot, published} :
         /\ cached' = s
         /\ everFetched' = TRUE
         /\ \/ kid[c] \in s /\ Return(c, "ok")
            \/ kid[c] \notin s /\ point[c] = "fetch" /\ At(c, "kidGate") /\ UNCHANGED answer
            \/ kid[c] \notin s /\ point[c] = "fetchKid" /\ Return(c, "unknown")
    /\ mu' = NoValidator
    /\ UNCHANGED <<idp, background, last, snapshot, kid, sinceForced>>

\* refreshJWKS fails: gate.last stays as it was set before the attempt.
RefreshFails(c) ==
    /\ point[c] \in {"fetch", "fetchKid"}
    /\ ~up
    /\ Return(c, "error")
    /\ mu' = NoValidator
    /\ UNCHANGED <<idp, keyCache, last, snapshot, kid, sinceForced>>

Step(c) ==
    \/ LookUpKid(c)
    \/ LoadKeySet(c)
    \/ ReadyOrTimeout(c)
    \/ LoadGate(c)
    \/ KidGate(c)
    \/ RefreshOk(c)
    \/ RefreshFails(c)

Environment == GateTick \/ Rollover \/ Outage \/ Recover \/ BackgroundBegin \/ BackgroundEnd

GateNext ==
    \/ Environment
    \/ \E c \in Validators : Step(c) \/ \E k \in Kids : KeySetForKid(c, k)

GateSpec == GateInit /\ [][GateNext]_gateVars

\* A goroutine runs on, sync.Mutex serves every waiter, time passes, the
\* provider comes back, and somebody keeps presenting tokens with the new key.
GateFairSpec ==
    /\ GateSpec
    /\ \A c \in Validators : SF_gateVars(Step(c)) /\ SF_gateVars(KeySetForKid(c, NewKid))
    /\ WF_gateVars(GateTick)
    /\ WF_gateVars(Recover)

-----------------------------------------------------------------------------
Fetching(c) == point[c] \in {"fetch", "fetchKid"}

\* However many requests carry unknown kids or find no keys yet, the provider
\* is asked at most once per interval, a failed attempt counting as one
\* (SetMinJWKSRefreshInterval, loadKeySet).
OneForcedRefreshPerInterval ==
    [][(\E c \in Validators : ~Fetching(c) /\ Fetching(c)') => sinceForced >= Interval]_gateVars

\* After a rollover, requests with the new key get through, whatever others
\* ask for, however the provider fails meanwhile: the throttle only delays the
\* refresh (keySetForKid).
RolloverIsPickedUp == (NewKid \in published) ~> (NewKid \in cached)
=============================================================================
