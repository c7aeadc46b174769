---------------------------- MODULE EchoSessions ----------------------------
(***************************************************************************)
(* Web sessions: a browser's cookie jar, the session factory and sessions  *)
(* of a request, and the three stores behind them.  The cookie store keeps *)
(* the values in the cookie; the memory store and the Mongo store keep     *)
(* them under an id, and the cookie holds the id.  Keys are rotated, time  *)
(* passes, documents vanish, Mongo is out of reach, responses get lost.    *)
(***************************************************************************)
EXTENDS Integers, FiniteSets

CONSTANTS Tabs,            \* requests of one browser that may be in flight together
          Stores,          \* the stores and ages checked: [kind, age]
          NoSession,       \* no session, no cookie
          DefaultValidity, \* DefaultSignedValueMaxAgeSeconds, in ticks
          MaxIDs,          \* bound: ids the store draws
          MaxEpochs        \* bound: rotations of the keys

Kinds == {"cookie", "memory", "mongo"}

ASSUME SessionAssumption ==
    /\ DefaultValidity \in Nat \ {0} /\ MaxIDs \in Nat /\ MaxEpochs \in Nat
    /\ \A s \in Stores : s.kind \in Kinds /\ s.age \in Int

VARIABLES store,     \* the store in use: its kind and SessionConfig.MaxAge
          epoch,     \* the keys in use
          up,        \* the database answers
          docs,      \* what is stored: id -> values, sealed
          jar,       \* the browser's session cookie, sealed
          req,       \* per tab: the request in flight
          drawn,     \* how many ids were drawn
          earned     \* per tab: the ids whose session the request read or created

sessionVars == <<store, epoch, up, docs, jar, req, drawn, earned>>

NoID == 0
Sealed(id, values) == [id |-> id, values |-> values, epoch |-> epoch, age |-> 0]
Deleted == [id |-> NoID, values |-> {}, epoch |-> -1, age |-> 0]   \* the order to forget the cookie
Session(id, isNew, values) == [id |-> id, isNew |-> isNew, values |-> values]
Fresh == Session(NoID, TRUE, {})
Request(at, cookie, session, set, stale) ==
    [at |-> at, cookie |-> cookie, session |-> session, set |-> set, stale |-> stale]
Idle == Request("idle", NoSession, NoSession, NoSession, FALSE)

SessionInit ==
    /\ store \in Stores
    /\ epoch = 0 /\ up = TRUE /\ docs = <<>> /\ jar = NoSession /\ drawn = 0
    /\ req = [t \in Tabs |-> Idle]
    /\ earned = [t \in Tabs |-> {}]

-----------------------------------------------------------------------------
(* Reading a cookie.                                                       *)

\* How long a signed value is accepted.
SetMaxAge(age) == IF age <= 0 THEN DefaultValidity ELSE age

\* securecookie: the keys must be the current ones; validity 0 is no limit.
DecodeMulti(sealed) ==
    /\ sealed.epoch = epoch
    /\ SetMaxAge(store.age) = 0 \/ sealed.age <= SetMaxAge(store.age)

Outcome(session, err) == [session |-> session, err |-> err]

\* MongoStore.load: unreadable data is a decoding error like a cookie's.
load(id) ==
    IF ~up THEN "unreachable"
    ELSE IF id \notin DOMAIN docs THEN "NotFound"
    ELSE IF ~DecodeMulti(docs[id]) THEN "decode" ELSE "none"

\* Mutant: an outage is taken for a session that is gone, and its id is kept.
loadExistingKeepsID(id) ==
    IF load(id) = "none" THEN Outcome(Session(id, FALSE, docs[id].values), "none")
    ELSE Outcome(Session(id, TRUE, {}), "none")

loadExisting(id) ==
    IF load(id) = "none" THEN Outcome(Session(id, FALSE, docs[id].values), "none")
    ELSE Outcome(Fresh, IF load(id) = "NotFound" THEN "none" ELSE load(id))

\* New of the three stores, for a cookie that can be read: gorilla's cookie
\* store, memstore and the Mongo store.
CookieStoreNew(c) == Outcome(Session(NoID, FALSE, c.values), "none")
MemStoreNew(c) ==
    Outcome(IF c.id \in DOMAIN docs THEN Session(c.id, FALSE, docs[c.id].values) ELSE Session(c.id, TRUE, {}), "none")
MongoStoreNew(c) == loadExisting(c.id)

StoreNew(c) ==
    IF c = NoSession THEN Outcome(Fresh, "none")
    ELSE IF ~DecodeMulti(c) THEN Outcome(Fresh, "decode")
    ELSE IF store.kind = "cookie" THEN CookieStoreNew(c)
    ELSE IF store.kind = "memory" THEN MemStoreNew(c)
    ELSE MongoStoreNew(c)

\* New of the stores: the two wrappers drop the error and keep the session.
New(c) ==
    IF store.kind = "mongo" THEN StoreNew(c) ELSE Outcome(StoreNew(c).session, "none")

\* Get of the stores: the two wrappers drop the session with the error.
Get(c) ==
    IF store.kind # "mongo" /\ StoreNew(c).err # "none"
    THEN Outcome(NoSession, StoreNew(c).err)
    ELSE StoreNew(c)

IsUnreadableCookie(err) == err = "decode"

\* Initialize: a cookie that cannot be read is no reason to fail, if the store
\* came with a session.
Initialize(got) ==
    IF got.err = "none" \/ (got.session # NoSession /\ IsUnreadableCookie(got.err))
    THEN got.session ELSE NoSession

-----------------------------------------------------------------------------
(* A request.                                                              *)

\* A cookie no store may let in; a session the request could read.
Stale(c) ==
    c # NoSession /\ (c.epoch # epoch \/ c.age > (IF store.age <= 0 THEN DefaultValidity ELSE store.age))
Readable(c) ==
    IF c # NoSession /\ ~Stale(c) /\ c.id \in DOMAIN docs /\ up THEN {c.id} ELSE {}

\* GetCookieSession, GetBackendSession: the first use in a request reads the
\* store, later ones get the session that was kept.  One that failed is not
\* kept, but the store's registry answers the next try in the same way.
GetSession(t) ==
    /\ req[t].at = "idle"
    /\ LET session == Initialize(Get(jar))
       IN  req' = [req EXCEPT ![t] = Request(IF session = NoSession THEN "failed" ELSE "handling",
                                             jar, session, NoSession, Stale(jar))]
    /\ earned' = [earned EXCEPT ![t] = Readable(jar)]
    /\ UNCHANGED <<store, epoch, up, docs, jar, drawn>>

\* The handler works on: its session and the cookie it will answer with.
Works(t, session, set) ==
    req' = [req EXCEPT ![t] = Request("handling", req[t].cookie, session, set, req[t].stale)]

\* One key is enough; its value is whether it was set.
Set(t) ==
    /\ req[t].at = "handling"
    /\ Works(t, Session(req[t].session.id, req[t].session.isNew, {"key"}), req[t].set)
    /\ UNCHANGED <<store, epoch, up, docs, jar, drawn, earned>>

\* ISession.New reads the request's cookie again; on an error the old one stays.
NewSession(t) ==
    /\ req[t].at = "handling"
    /\ LET got == New(req[t].cookie)
       IN  Works(t, IF got.err = "none" THEN got.session ELSE req[t].session, req[t].set)
    /\ earned' = [earned EXCEPT ![t] = @ \union Readable(req[t].cookie)]
    /\ UNCHANGED <<store, epoch, up, docs, jar, drawn>>

Stored(id, values) == [i \in DOMAIN docs \union {id} |-> IF i = id THEN Sealed(NoID, values) ELSE docs[i]]

\* Save of the cookie store: the values go into the response's cookie.
CookieStoreSave(t) ==
    /\ store.kind = "cookie" /\ req[t].at = "handling"
    /\ Works(t, req[t].session, Sealed(NoID, req[t].session.values))
    /\ UNCHANGED <<docs, drawn, earned>>

\* Save of the other two: an id if there is none yet, the values under it, the
\* id into the response's cookie.  Mongo may be out of reach: the id is kept.
KeyedSave(t) ==
    /\ store.kind # "cookie" /\ req[t].at = "handling"
    /\ req[t].session.id = NoID => drawn < MaxIDs
    /\ LET new == req[t].session.id = NoID
           id == IF new THEN drawn + 1 ELSE req[t].session.id
           stored == store.kind = "memory" \/ up
       IN  /\ drawn' = IF new THEN drawn + 1 ELSE drawn
           /\ docs' = IF stored THEN Stored(id, req[t].session.values) ELSE docs
           /\ Works(t, Session(id, req[t].session.isNew, req[t].session.values),
                    IF stored THEN Sealed(id, {}) ELSE req[t].set)
           /\ earned' = IF new THEN [earned EXCEPT ![t] = @ \union {id}] ELSE earned

Save(t) ==
    /\ CookieStoreSave(t) \/ KeyedSave(t)
    /\ UNCHANGED <<store, epoch, up, jar>>

\* Save with Options.MaxAge < 0 ends the session: the document goes first, and
\* the cookie stays if it cannot go.
End(t) ==
    /\ req[t].at = "handling"
    /\ LET old == req[t].session
       IN  IF store.kind # "mongo" \/ (old.id # NoID /\ up)
           THEN /\ docs' = [i \in DOMAIN docs \ {old.id} |-> docs[i]]
                /\ Works(t, Session(old.id, old.isNew, IF store.kind = "memory" THEN {} ELSE old.values), Deleted)
           ELSE UNCHANGED <<docs, req>>
    /\ UNCHANGED <<store, epoch, up, jar, drawn, earned>>

\* The response reaches the browser, or does not.
Respond(t, arrives) ==
    /\ req[t].at # "idle"
    /\ jar' = IF ~arrives \/ req[t].set = NoSession THEN jar
              ELSE IF req[t].set = Deleted THEN NoSession ELSE req[t].set
    /\ req' = [req EXCEPT ![t] = Idle]
    /\ earned' = [earned EXCEPT ![t] = {}]
    /\ UNCHANGED <<store, epoch, up, docs, drawn>>

-----------------------------------------------------------------------------
(* The world around.                                                       *)

Older(sealed) ==
    IF sealed = NoSession THEN sealed
    ELSE [sealed EXCEPT !.age = IF @ > store.age /\ @ > DefaultValidity THEN @ ELSE @ + 1]

\* Time passes for everything that is sealed; a tick is many requests long.
SessionTick ==
    /\ \A t \in Tabs : req[t].at = "idle"
    /\ docs' = [i \in DOMAIN docs |-> Older(docs[i])]
    /\ jar' = Older(jar)
    /\ UNCHANGED <<store, epoch, up, req, drawn, earned>>

\* The process restarts, with the same keys or new ones: requests in flight
\* and what was in memory are lost.
RestartSessions(e) ==
    /\ epoch' = e
    /\ docs' = IF store.kind = "memory" THEN <<>> ELSE docs
    /\ req' = [t \in Tabs |-> Idle]
    /\ earned' = [t \in Tabs |-> {}]
    /\ UNCHANGED <<store, up, jar, drawn>>

Vanish(id) ==
    /\ store.kind = "mongo" /\ id \in DOMAIN docs
    /\ docs' = [i \in DOMAIN docs \ {id} |-> docs[i]]
    /\ UNCHANGED <<store, epoch, up, jar, req, drawn, earned>>

Outage ==
    /\ store.kind = "mongo" /\ up' = ~up
    /\ UNCHANGED <<store, epoch, docs, jar, req, drawn, earned>>

SessionNext ==
    \/ \E t \in Tabs :
         \/ GetSession(t) \/ Set(t) \/ NewSession(t) \/ Save(t) \/ End(t)
         \/ \E arrives \in BOOLEAN : Respond(t, arrives)
    \/ SessionTick \/ RestartSessions(epoch)
    \/ epoch < MaxEpochs /\ RestartSessions(epoch + 1)
    \/ \E id \in DOMAIN docs : Vanish(id)
    \/ Outage

SessionSpec == SessionInit /\ [][SessionNext]_sessionVars

-----------------------------------------------------------------------------
(* Properties                                                              *)

\* Whatever outages, losses, rotations and concurrent requests there are, a
\* request of the Mongo store works under an id only if it read that session
\* or drew the id itself: a stale or made-up cookie never names a session, and
\* an outage never lets a Save overwrite a session nobody read (loadExisting).
\* And whatever the store, a cookie that is older than its validity or sealed
\* with other keys gives a new session or none (SetMaxAge).
SessionIsEarned ==
    \A t \in Tabs :
      req[t].session # NoSession =>
        /\ store.kind = "mongo" => req[t].session.id \in earned[t] \union {NoID}
        /\ req[t].stale => req[t].session.isNew

\* "Stale or tampered cookie: carry on with the fresh session the store
\* returned": getting a session fails only when the database does not answer.
StaleCookieStartsOver ==
    \A t \in Tabs : req[t].at = "failed" => store.kind = "mongo"
=============================================================================
