----------------------------- MODULE KeyMaterial ----------------------------
(***************************************************************************)
(* services/keymaterial: the signing key and JWKS of the token minter,     *)
(* rebuilt by whichever caller first finds that time has passed the next   *)
(* NotBefore or NotAfter of a configured key.                              *)
(*                                                                         *)
(* Callers are goroutines in GetSigningKey, GetSigningKeys or              *)
(* GetPublicWebKeys.  A caller reads the clock, decides under the read     *)
(* lock, rebuilds under the write lock, and reads its answer under the     *)
(* read lock again; the clock, and the other callers, move in between.     *)
(***************************************************************************)
EXTENDS Naturals

CONSTANTS
    Callers,
    Keys,       \* indices of KeyMaterial.SigningKeys, in their order
    MaxTime,    \* bound: the clock stops here
    None        \* a nil signing key

ASSUME KeysAssumption == Keys \subseteq Nat /\ None \notin Keys /\ MaxTime \in Nat

\* time.Unix(1<<62, 0)
Never == MaxTime + 1

VARIABLES
    notBefore, notAfter,  \* the configured window of each key
    decrypts,             \* keys whose private key DecryptPEM can decrypt
    clock,
    signingKey, jwks, nextFetchTime,   \* the fields of service
    builtAt,              \* the `now' jwks was built for (history)
    pc, now, answer       \* per caller

config == <<notBefore, notAfter, decrypts>>
cache == <<signingKey, jwks, nextFetchTime, builtAt>>
vars == <<config, clock, cache, pc, now, answer>>

isActive(k, t) == notBefore[k] < t /\ t < notAfter[k]
Active(t) == {k \in Keys : isActive(k, t)}

Boundaries == {notBefore[k] : k \in Keys} \union {notAfter[k] : k \in Keys}

Init ==
    /\ notBefore \in [Keys -> 0..MaxTime]
    /\ notAfter \in [Keys -> 0..MaxTime]
    /\ decrypts \in SUBSET Keys
    /\ clock = 0
    /\ signingKey = None
    /\ jwks = {}
    /\ nextFetchTime = 0
    /\ builtAt = 0
    /\ pc = [c \in Callers |-> "idle"]
    /\ now = [c \in Callers |-> 0]
    /\ answer = [c \in Callers |-> [key |-> None, jwks |-> {}]]

Tick ==
    /\ clock < MaxTime
    /\ clock' = clock + 1
    /\ UNCHANGED <<config, cache, pc, now, answer>>

At(c, step) == pc' = [pc EXCEPT ![c] = step]

\* A call starts: now := time.Now().
Call(c) ==
    /\ pc[c] \in {"idle", "done", "failed"}
    /\ At(c, "check")
    /\ now' = [now EXCEPT ![c] = clock]
    /\ UNCHANGED <<config, clock, cache, answer>>

\* Mutant of reloadDue: what has been built is good for ever.
reloadDueOnce(t) == signingKey = None

reloadDue(t) == signingKey = None \/ t > nextFetchTime

\* reloadDue, under the read lock.
Check(c) ==
    /\ pc[c] = "check"
    /\ At(c, IF reloadDue(now[c]) THEN "lock" ELSE "read")
    /\ UNCHANGED <<config, clock, cache, now, answer>>

\* nextKeyBoundary(keys, at) = t
isNextBoundary(t, at) ==
    /\ t \in Boundaries \union {Never}
    /\ t >= at
    /\ \A b \in Boundaries : b >= at => t <= b

\* The loop over SigningKeys: the last active key wins.
isLastActive(k, t) == k \in Active(t) /\ \A j \in Active(t) : j <= k

\* The rebuild for instant t with k the last active key; an error changes
\* nothing (no active key, or it does not decrypt).
Rebuilt(k, t) ==
    /\ isLastActive(k, t)
    /\ k \in decrypts
    /\ signingKey' = k
    /\ jwks' = Active(t)
    /\ isNextBoundary(nextFetchTime', t)
    /\ builtAt' = t

CannotRebuild(t) == \A k \in Keys : isLastActive(k, t) => k \notin decrypts

\* _reloadKeys from Lock to Unlock, with the second look at nextFetchTime.
Reload(c) ==
    /\ pc[c] = "lock"
    /\ \/ /\ ~reloadDue(now[c])
          /\ UNCHANGED cache
          /\ At(c, "read")
       \/ /\ reloadDue(now[c])
          /\ \E k \in Keys, t \in Boundaries \union {Never} :
                nextFetchTime' = t /\ Rebuilt(k, now[c])
          /\ At(c, "read")
       \/ /\ reloadDue(now[c])
          /\ CannotRebuild(now[c])
          /\ UNCHANGED cache
          /\ At(c, "failed")
    /\ UNCHANGED <<config, clock, now, answer>>

\* The answer, under the read lock.
Read(c) ==
    /\ pc[c] = "read"
    /\ answer' = [answer EXCEPT ![c] = [key |-> signingKey, jwks |-> jwks]]
    /\ At(c, "done")
    /\ UNCHANGED <<config, clock, cache, now>>

Caller(c) == Call(c) \/ Check(c) \/ Reload(c) \/ Read(c)

Next == Tick \/ \E c \in Callers : Caller(c)

Spec == Init /\ [][Next]_vars

-----------------------------------------------------------------------------
TypeOK ==
    /\ notBefore \in [Keys -> 0..MaxTime]
    /\ notAfter \in [Keys -> 0..MaxTime]
    /\ decrypts \subseteq Keys
    /\ clock \in 0..MaxTime
    /\ signingKey \in Keys \union {None}
    /\ jwks \subseteq Keys
    /\ nextFetchTime \in 0..Never
    /\ builtAt \in 0..MaxTime
    /\ pc \in [Callers -> {"idle", "check", "lock", "read", "done", "failed"}]
    /\ now \in [Callers -> 0..MaxTime]
    /\ answer \in [Callers -> [key: Keys \union {None}, jwks: SUBSET Keys]]

\* The keys in force at t, or in force until t: a key whose NotAfter is t itself
\* is inactive at t, and reloadDue asks for more than t to notice.
InForce(S, t) ==
    \/ S = Active(t)
    \/ S = {k \in Keys : notBefore[k] < t /\ t <= notAfter[k]}

\* However late a caller gets the locks, and whoever rebuilt meanwhile, the key
\* set it is given was in force at an instant of its call, and the key to sign
\* with is in that set and decrypts (_reloadKeys, GetSigningKey,
\* GetPublicWebKeys).
AnswerIsOfTheCall ==
    \A c \in Callers : pc[c] = "done" =>
        /\ \E t \in now[c]..clock : InForce(answer[c].jwks, t)
        /\ answer[c].key \in answer[c].jwks \intersect decrypts

\* A rebuild never goes back in time: a caller that waited for the lock with an
\* old `now' does not undo what a later one built (the second look).
BuildsGoForward == [][builtAt' >= builtAt]_vars

\* Between two rebuilds nothing that was skipped changed the set: up to
\* nextFetchTime the cached set is the set in force (nextKeyBoundary).
CacheIsCurrent ==
    signingKey # None =>
        /\ builtAt <= nextFetchTime /\ builtAt <= clock
        /\ jwks = Active(builtAt)
        /\ signingKey \in jwks \intersect decrypts
        /\ \A t \in builtAt..clock : t <= nextFetchTime => InForce(jwks, t)

\* The inductive invariant behind AnswerIsOfTheCall.
KeyInv ==
    /\ TypeOK
    /\ CacheIsCurrent
    /\ signingKey # None =>
          \A b \in Boundaries : b >= builtAt => b >= nextFetchTime
    /\ signingKey = None => builtAt = 0
    /\ \A c \in Callers :
          /\ now[c] <= clock
          /\ pc[c] = "read" => signingKey # None /\ now[c] <= nextFetchTime
    /\ AnswerIsOfTheCall

=============================================================================
