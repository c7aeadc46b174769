----------------------------- MODULE FilterCDC -----------------------------
(***************************************************************************)
(* The change-data-capture feed of cloudevent/cefilter/mongostore: writers *)
(* change the cefilters collection through FilterStore, MongoDB records    *)
(* every change in its oplog, and FilterCDC.Run (snapshot, then tail)      *)
(* tells a consumer which filters are active.  The consumer keeps the last *)
(* thing it was told about each name.                                      *)
(*                                                                         *)
(* The oplog is a sequence of post-images; its indices are the cluster's   *)
(* operation times and, for an event, its resume token.  0 stands for Go's *)
(* nil.  Entries below `oldest' have been truncated by the server.  A read *)
(* of the collection, and the UpdateLookup of an update event, sees the    *)
(* post-image some prefix of the oplog produces.                           *)
(***************************************************************************)
EXTENDS Integers, Sequences

CONSTANTS
    Names,      \* filter names, the documents' _id
    Defs,       \* filter definitions (hint, metadata and expr of a document)
    None,       \* no definition: absent from the collection or the consumer
    ChanCap,    \* capacity of the caller's changes channel
    MaxOplog,   \* bound: entries the writers add to the oplog
    MaxFaults   \* bound: errors, cancellations and restarts

ASSUME CDCAssumption ==
    /\ None \notin Defs \union Names
    /\ ChanCap \in Nat \ {0}
    /\ MaxOplog \in Nat \ {0}
    /\ MaxFaults \in Nat

VARIABLES
    oplog,      \* every entry ever written
    oldest,     \* index of the oldest entry the server still has
    coll,       \* the collection: a document, or absent, per name
    pc,         \* where the goroutine that calls Run is
    attempt,    \* which runOnce of this Run it is in
    cancelled,  \* the ctx of this Run is cancelled
    resumeToken, resumeTime, live,   \* the fields of FilterCDC
    pin,        \* startTime of the snapshot in progress
    toScan,     \* names the cursor of ListActive has yet to reach
    docs,       \* what ListActive has read: a definition per active name
    toSend,     \* names of the snapshot still to be sent as upserts
    cursor,     \* index of the next entry the open change stream looks at
    changes,    \* the channel
    applied,    \* what the consumer holds: the last definition per name
    serving,    \* the consumer has received its first Ready
    faults      \* errors, cancellations and restarts so far

dbVars == <<oplog, oldest, coll>>
posVars == <<resumeToken, resumeTime>>
scanVars == <<pin, toScan, docs, toSend>>
consVars == <<applied, serving>>
vars == <<dbVars, pc, attempt, cancelled, posVars, live, scanVars, cursor,
          changes, consVars, faults>>

Absent == [def |-> None, deleted |-> FALSE]
Document == [def: Defs, deleted: BOOLEAN]
Entry == [op: {"insert", "update", "delete", "drop", "noop"},
          names: SUBSET Names, doc: Document \union {Absent}]
\* The definition a document makes active: none when absent or soft-deleted.
Active(doc) == IF doc.deleted THEN None ELSE doc.def

Upsert(n, d) == [op |-> "upsert", name |-> n, def |-> d]
Delete(n) == [op |-> "delete", name |-> n, def |-> None]
Ready == [op |-> "ready", name |-> None, def |-> None]
Change == [op: {"upsert"}, name: Names, def: Defs]
          \union [op: {"delete"}, name: Names, def: {None}]
          \union {Ready}

Touches(i, n) == n \in oplog[i].names

-----------------------------------------------------------------------------
Init ==
    /\ oplog = <<[op |-> "noop", names |-> {}, doc |-> Absent]>>
    /\ oldest = 1
    /\ coll = [n \in Names |-> Absent]
    /\ pc = "idle"
    /\ attempt = 0
    /\ cancelled = FALSE
    /\ resumeToken = 0
    /\ resumeTime = 0
    /\ live = {}
    /\ pin = 0
    /\ toScan = {}
    /\ docs = [n \in Names |-> None]
    /\ toSend = {}
    /\ cursor = 0
    /\ changes = <<>>
    /\ applied = [n \in Names |-> None]
    /\ serving = FALSE
    /\ faults = 0

-----------------------------------------------------------------------------
(* FilterStore and the server                                              *)

Log(op, names, doc) ==
    /\ oplog' = Append(oplog, [op |-> op, names |-> names, doc |-> doc])
    /\ coll' = [n \in Names |-> IF n \in names THEN doc ELSE coll[n]]
    /\ UNCHANGED <<oldest, pc, attempt, cancelled, posVars, live, scanVars,
                   cursor, changes, consVars, faults>>

\* FilterStore.Upsert: an insert event for a new _id, else an update event.
StoreUpsert(n, d) ==
    /\ Len(oplog) < MaxOplog
    /\ Log(IF coll[n] = Absent THEN "insert" ELSE "update", {n},
           [def |-> d, deleted |-> FALSE])

\* FilterStore.SoftDelete: only a document whose deletedAt is nil matches.
SoftDelete(n) ==
    /\ Len(oplog) < MaxOplog
    /\ Active(coll[n]) # None
    /\ Log("update", {n}, [coll[n] EXCEPT !.deleted = TRUE])

\* FilterStore.HardDelete.
HardDelete(n) ==
    /\ Len(oplog) < MaxOplog
    /\ coll[n] # Absent
    /\ Log("delete", {n}, Absent)

\* The collection is dropped (or renamed away).
DropCollection ==
    /\ Len(oplog) < MaxOplog
    /\ \E n \in Names : coll[n] # Absent
    /\ Log("drop", Names, Absent)

\* The periodic no-op write, which moves an idle cluster's operation time on.
\* Modelled only where the time matters: after a drop.
NoopWrite ==
    /\ oplog[Len(oplog)].op = "drop"
    /\ Log("noop", {}, Absent)

\* The server truncates its capped oplog.
TruncateOplog ==
    /\ oldest < Len(oplog)
    /\ oldest' = oldest + 1
    /\ UNCHANGED <<oplog, coll, pc, attempt, cancelled, posVars, live, scanVars,
                   cursor, changes, consVars, faults>>

-----------------------------------------------------------------------------
(* FilterCDC                                                               *)

\* The body of runOnce up to the snapshot or to Watch: where to start from.
\* The optime is pinned before the scan starts.
BeginRunOnce(token, time) ==
    IF token # 0 \/ time # 0
      THEN /\ pc' = "watch"
           /\ UNCHANGED scanVars
      ELSE /\ pc' = "scan"
           /\ pin' = Len(oplog)
           /\ toScan' = Names
           /\ docs' = [n \in Names |-> None]
           /\ toSend' = {}

\* Run: wins the compare-and-swap on `running' (pc is idle exactly when
\* running is false) and enters its first runOnce with a fresh ctx.
Run ==
    /\ pc = "idle"
    /\ attempt' = 1
    /\ cancelled' = FALSE
    /\ BeginRunOnce(resumeToken, resumeTime)
    /\ UNCHANGED <<dbVars, posVars, live, cursor, changes, consVars, faults>>

\* runOnce returned an error other than resume-lost: Run returns it.
Return ==
    /\ pc' = "idle"
    /\ attempt' = 0
    /\ cancelled' = FALSE
    /\ cursor' = 0
    /\ UNCHANGED scanVars

\* ListActive: the cursor reads one name after the other, each as it is then.
ScanName(n) ==
    /\ pc = "scan"
    /\ n \in toScan
    /\ toScan' = toScan \ {n}
    /\ docs' = [docs EXCEPT ![n] = Active(coll[n])]
    /\ toSend' = IF Active(coll[n]) = None THEN toSend ELSE toSend \union {n}
    /\ pc' = IF toScan' = {} THEN "sync" ELSE pc
    /\ UNCHANGED <<dbVars, attempt, cancelled, posVars, live, pin, cursor,
                   changes, consVars, faults>>

\* chanSend succeeds: the channel has room.
Send(c) ==
    /\ Len(changes) < ChanCap
    /\ changes' = Append(changes, c)

\* track: what the caller has been told is live.
track(c) ==
    live' = CASE c.op = "upsert" -> live \union {c.name}
              [] c.op = "delete" -> live \ {c.name}
              [] OTHER -> live

\* snapshot, first loop: an upsert per active document.
SendSnapshotUpsert(n) ==
    /\ pc = "sync"
    /\ n \in toSend
    /\ Send(Upsert(n, docs[n]))
    /\ track(Upsert(n, docs[n]))
    /\ toSend' = toSend \ {n}
    /\ UNCHANGED <<dbVars, pc, attempt, cancelled, posVars, pin, toScan, docs,
                   cursor, consVars, faults>>

\* Mutant of staleNames: does not look at what the snapshot found.
staleNamesAll == live

\* staleNames: reported live earlier and not in the snapshot.
staleNames == {n \in live : docs[n] = None}

\* snapshot, second loop: a delete per stale name.
SendSnapshotDelete(n) ==
    /\ pc = "sync"
    /\ toSend = {}
    /\ n \in staleNames
    /\ Send(Delete(n))
    /\ track(Delete(n))
    /\ UNCHANGED <<dbVars, pc, attempt, cancelled, posVars, scanVars, cursor,
                   consVars, faults>>

\* Mutant of FinishSnapshot: the operation time is taken after the scan.
FinishSnapshotPinsLate ==
    /\ pc = "sync"
    /\ toSend = {}
    /\ staleNames = {}
    /\ resumeTime' = Len(oplog)
    /\ pc' = "watch"
    /\ UNCHANGED <<dbVars, attempt, cancelled, resumeToken, live, scanVars,
                   cursor, changes, consVars, faults>>

\* snapshot returned nil: only now is the pinned time a resume position.
FinishSnapshot ==
    /\ pc = "sync"
    /\ toSend = {}
    /\ staleNames = {}
    /\ resumeTime' = pin
    /\ pc' = "watch"
    /\ UNCHANGED <<dbVars, attempt, cancelled, resumeToken, live, scanVars,
                   cursor, changes, consVars, faults>>

\* Where Watch starts: ResumeAfter is exclusive, StartAtOperationTime is not.
WatchFrom == IF resumeToken # 0 THEN resumeToken + 1 ELSE resumeTime

\* The server still has the entry the stream is to start from.
Resumable == (IF resumeToken # 0 THEN resumeToken ELSE resumeTime) >= oldest

\* rememberPosition at opening: an empty first batch has a post-batch token,
\* a first batch with an event leaves the position as it was.
Watch ==
    /\ pc = "watch"
    /\ Resumable
    /\ cursor' = WatchFrom
    /\ resumeToken' = IF \A i \in WatchFrom..Len(oplog) : oplog[i].op = "noop"
                        THEN Len(oplog)
                        ELSE resumeToken
    /\ pc' = "ready"
    /\ UNCHANGED <<dbVars, attempt, cancelled, resumeTime, live, scanVars,
                   changes, consVars, faults>>

\* ChangeOpReady, once the stream is open.
SendReady ==
    /\ pc = "ready"
    /\ Send(Ready)
    /\ pc' = "stream"
    /\ UNCHANGED <<dbVars, attempt, cancelled, posVars, live, scanVars, cursor,
                   consVars, faults>>

\* The stream is at entry i = cursor, which the server still has.
AtEvent(ops) ==
    /\ pc = "stream"
    /\ cursor \in oldest..Len(oplog)
    /\ oplog[cursor].op \in ops

\* The document fullDocument may hold for the event at cursor: the event's own
\* post-image for an insert; for an update, what the lookup found between the
\* event and now.
FullDocument(n) ==
    IF oplog[cursor].op = "insert"
      THEN {oplog[cursor].doc}
      ELSE {oplog[j].doc : j \in {k \in cursor..Len(oplog) : Touches(k, n)}}

\* decodeEvent for name n with fullDocument doc: the change, none when the
\* looked-up document is gone (the event is skipped).
decodeEvent(n, doc) ==
    IF oplog[cursor].op = "delete" \/ doc.deleted THEN Delete(n)
    ELSE Upsert(n, doc.def)

\* One turn of the loop: decode, send, track, remember.
StreamEvent(n) ==
    /\ AtEvent({"insert", "update", "delete"})
    /\ Touches(cursor, n)
    /\ \E doc \in FullDocument(n) :
          IF doc = Absent /\ oplog[cursor].op # "delete"
            THEN UNCHANGED <<changes, live>>
            ELSE /\ Send(decodeEvent(n, doc))
                 /\ track(decodeEvent(n, doc))
    /\ resumeToken' = cursor
    /\ cursor' = cursor + 1
    /\ UNCHANGED <<dbVars, pc, attempt, cancelled, resumeTime, scanVars,
                   consVars, faults>>

\* Entries outside the $match pipeline move the server's cursor only.
StreamForeign ==
    /\ AtEvent({"noop"})
    /\ cursor' = cursor + 1
    /\ UNCHANGED <<dbVars, pc, attempt, cancelled, posVars, live, scanVars,
                   changes, consVars, faults>>

\* Mutant of Invalidated: the position of the dead stream is kept.
InvalidatedKeepsPosition ==
    /\ AtEvent({"drop"})
    /\ ~cancelled
    /\ Return
    /\ UNCHANGED <<dbVars, posVars, live, changes, consVars, faults>>

\* The stream ends at a drop without an error: forgetPosition, return an error.
Invalidated ==
    /\ AtEvent({"drop"})
    /\ ~cancelled
    /\ resumeToken' = 0
    /\ resumeTime' = 0
    /\ Return
    /\ UNCHANGED <<dbVars, live, changes, consVars, faults>>

\* Watch or Next fails because the position fell off the oplog.  The first
\* time in a Run, and with a live ctx, Run forgets the position and runs
\* runOnce again (which snapshots); otherwise it returns the error.
ResumeLost ==
    /\ \/ pc = "watch" /\ ~Resumable
       \/ pc = "stream" /\ cursor < oldest
    /\ IF attempt = 1 /\ ~cancelled
         THEN /\ resumeToken' = 0
              /\ resumeTime' = 0
              /\ attempt' = 2
              /\ cursor' = 0
              /\ BeginRunOnce(0, 0)
              /\ UNCHANGED cancelled
         ELSE Return /\ UNCHANGED posVars
    /\ UNCHANGED <<dbVars, live, changes, consVars, faults>>

-----------------------------------------------------------------------------
(* What goes wrong, and the consumer                                       *)

\* Any call to the server may fail, at any point of runOnce: Run returns the
\* error and keeps whatever position it has.
TransientError ==
    /\ faults < MaxFaults
    /\ pc \in {"scan", "watch", "stream"}
    /\ Return
    /\ faults' = faults + 1
    /\ UNCHANGED <<dbVars, posVars, live, changes, consVars>>

\* The caller cancels the ctx of this Run.
Cancel ==
    /\ faults < MaxFaults
    /\ pc # "idle"
    /\ ~cancelled
    /\ cancelled' = TRUE
    /\ faults' = faults + 1
    /\ UNCHANGED <<dbVars, pc, attempt, posVars, live, scanVars, cursor,
                   changes, consVars>>

\* A call to the server, or a chanSend that picks ctx.Done, sees the
\* cancellation: Run returns, and what it could not send is not tracked.
SeeCancelled ==
    /\ cancelled
    /\ Return
    /\ UNCHANGED <<dbVars, posVars, live, changes, consVars, faults>>

\* A new process: a new FilterCDC and a new consumer, both empty.
Restart ==
    /\ faults < MaxFaults
    /\ Return
    /\ resumeToken' = 0
    /\ resumeTime' = 0
    /\ live' = {}
    /\ changes' = <<>>
    /\ applied' = [n \in Names |-> None]
    /\ serving' = FALSE
    /\ faults' = faults + 1
    /\ UNCHANGED dbVars

\* The consumer takes one change off the channel and applies it.
Consume ==
    /\ changes # <<>>
    /\ changes' = Tail(changes)
    /\ LET c == Head(changes) IN
         /\ applied' = IF c.op = "ready" THEN applied
                       ELSE [applied EXCEPT ![c.name] = c.def]
         /\ serving' = (serving \/ c.op = "ready")
    /\ UNCHANGED <<dbVars, pc, attempt, cancelled, posVars, live, scanVars,
                   cursor, faults>>

-----------------------------------------------------------------------------
Store ==
    \/ \E n \in Names :
         \/ \E d \in Defs : StoreUpsert(n, d)
         \/ SoftDelete(n)
         \/ HardDelete(n)
    \/ DropCollection
    \/ NoopWrite
    \/ TruncateOplog

CDC ==
    \/ Run
    \/ \E n \in Names :
         \/ ScanName(n)
         \/ SendSnapshotUpsert(n)
         \/ SendSnapshotDelete(n)
         \/ StreamEvent(n)
    \/ FinishSnapshot
    \/ Watch
    \/ SendReady
    \/ StreamForeign
    \/ Invalidated
    \/ ResumeLost
    \/ SeeCancelled

Environment == TransientError \/ Cancel \/ Restart

Next == Store \/ CDC \/ Consume \/ Environment

Spec == Init /\ [][Next]_vars

\* The goroutine that calls Run in a retry loop, the consumer that drains the
\* channel, and the server's no-op writer keep going.
FairSpec ==
    /\ Spec
    /\ WF_vars(CDC)
    /\ WF_vars(Consume)
    /\ WF_vars(NoopWrite)

-----------------------------------------------------------------------------
(* Properties                                                              *)

TypeOK ==
    /\ oplog \in Seq(Entry)
    /\ oldest \in 1..Len(oplog)
    /\ coll \in [Names -> Document \union {Absent}]
    /\ pc \in {"idle", "scan", "sync", "watch", "ready", "stream"}
    /\ attempt \in 0..2
    /\ cancelled \in BOOLEAN
    /\ resumeToken \in 0..Len(oplog)
    /\ resumeTime \in 0..Len(oplog)
    /\ live \subseteq Names
    /\ pin \in 0..Len(oplog)
    /\ toScan \subseteq Names
    /\ docs \in [Names -> Defs \union {None}]
    /\ toSend \subseteq Names
    /\ cursor \in 0..Len(oplog) + 1
    /\ changes \in Seq(Change)
    /\ applied \in [Names -> Defs \union {None}]
    /\ serving \in BOOLEAN
    /\ faults \in Nat

\* Once the consumer has drained the channel it holds v for n.
ToldIs(n, v) ==
    \/ /\ \A i \in 1..Len(changes) : changes[i].name # n
       /\ applied[n] = v
    \/ \E i \in 1..Len(changes) :
         /\ changes[i].name = n
         /\ changes[i].def = v
         /\ \A j \in i+1..Len(changes) : changes[j].name # n

\* An entry the stream has yet to look at changes n.
Ahead(p, n) == \E i \in p..Len(oplog) : Touches(i, n)

\* Everything the consumer is wrong about lies ahead of position p.
Explained(p) == \A n \in Names : ToldIs(n, Active(coll[n])) \/ Ahead(p, n)

\* Whenever the stream has delivered all there is and the channel is drained,
\* the consumer holds exactly the active filters of the collection: no upsert
\* or delete was lost across scans, lookups, reconnects, resume positions that
\* fell off the oplog, dropped collections and cancellations (runOnce,
\* snapshot, rememberPosition).
CaughtUpIsExact ==
    pc = "stream" /\ cursor > Len(oplog) /\ changes = <<>> =>
        \A n \in Names : applied[n] = Active(coll[n])

\* The position Run would resume from never skips a change the consumer still
\* needs, even before the server is asked for it (runOnce, forgetPosition).
ResumePositionCovers ==
    resumeToken # 0 \/ resumeTime # 0 => Explained(WatchFrom)

\* FilterCDC.live is what the consumer holds once it has drained the channel,
\* so a later snapshot deletes exactly what must go (track, staleNames).
LiveIsTold == \A n \in Names : n \in live <=> ~ToldIs(n, None)

\* A filter that was never deleted is never taken from a consumer that holds
\* it, whatever is replayed or re-snapshotted meanwhile (snapshot, staleNames,
\* decodeEvent); only a new process starts empty.
NeverDeletedNeverDropped ==
    [][\A n \in Names :
          applied[n] # None /\ applied'[n] = None /\ ~Restart =>
             \E i \in DOMAIN oplog : Touches(i, n) /\ Active(oplog[i].doc) = None
      ]_vars

\* Once errors and writes stop, the consumer gets its Ready and ends up with
\* exactly the active filters, for good (the retry loop around Run).
EventuallyMirrors ==
    <>[](serving /\ \A n \in Names : applied[n] = Active(coll[n]))

(* The inductive invariant behind CaughtUpIsExact *)

EntryOK ==
    \A i \in 1..Len(oplog) :
        /\ oplog[i].op \in {"insert", "update"} => oplog[i].doc # Absent
        /\ oplog[i].op \in {"delete", "drop"} => oplog[i].doc = Absent
        /\ oplog[i].op \in {"insert", "update", "delete"} =>
              \E n \in Names : oplog[i].names = {n}
        /\ oplog[i].op = "noop" => oplog[i].names = {}

CollIsLastImage ==
    \A n \in Names : \A i \in 1..Len(oplog) :
        Touches(i, n) /\ ~Ahead(i + 1, n) => coll[n] = oplog[i].doc

\* A snapshot in progress is right about what it has read, up to changes after
\* its pin; what it has sent is what it read.
SnapshotCovers ==
    /\ pc \in {"scan", "sync"} =>
         /\ pin >= 1
         /\ resumeToken = 0 /\ resumeTime = 0
         /\ \A n \in Names \ toScan :
               /\ docs[n] = Active(coll[n]) \/ Ahead(pin, n)
               /\ pc = "scan" => (n \in toSend <=> docs[n] # None)
         /\ \A n \in toSend : docs[n] # None
         /\ pc = "scan" => toSend \intersect toScan = {}
    /\ pc = "sync" =>
         /\ toScan = {}
         /\ \A n \in Names \ toSend : docs[n] # None => ToldIs(n, docs[n])

\* The open stream is ahead of nothing the consumer still needs.
CursorCovers ==
    /\ pc = "watch" => resumeToken # 0 \/ resumeTime # 0
    /\ pc \in {"ready", "stream"} => cursor >= 1 /\ Explained(cursor)

CDCInv ==
    /\ TypeOK
    /\ EntryOK
    /\ CollIsLastImage
    /\ SnapshotCovers
    /\ ResumePositionCovers
    /\ CursorCovers
    /\ LiveIsTold

=============================================================================
