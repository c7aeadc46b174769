-------------------------- MODULE FilterCDCProofs --------------------------
(***************************************************************************)
(* FilterCDC never loses a change: for every set of names and definitions, *)
(* every channel capacity and every number of writes and faults, CDCInv is *)
(* an inductive invariant of FilterCDC, and it implies CaughtUpIsExact.    *)
(***************************************************************************)
EXTENDS FilterCDC, TLAPS

\* A change put on the channel decides what its name is told; every other name
\* is told what it was told before (chanSend).
LEMMA SendTells ==
    ASSUME changes \in Seq(Change), NEW c \in Change, Send(c),
           UNCHANGED applied, NEW n \in Names, NEW v
    PROVE  ToldIs(n, v)' <=> IF c.name = n THEN c.def = v ELSE ToldIs(n, v)
<1>1. /\ changes' = Append(changes, c)
      /\ Len(changes') = Len(changes) + 1
      /\ changes'[Len(changes) + 1] = c
      /\ \A i \in 1..Len(changes) : changes'[i] = changes[i]
      /\ Len(changes) \in Nat
  BY DEF Send
<1>2. CASE c.name = n
  BY <1>1, <1>2 DEF ToldIs
<1>3. CASE c.name # n
  <2>1. ToldIs(n, v) => ToldIs(n, v)'
    BY <1>1, <1>3 DEF ToldIs
  <2>2. ToldIs(n, v)' => ToldIs(n, v)
    BY <1>1, <1>3 DEF ToldIs
  <2>. QED BY <1>3, <2>1, <2>2
<1>. QED BY <1>2, <1>3

\* Applying the head of the channel changes nothing of what will have been
\* told once it is drained.
LEMMA ConsumeTellsNothingNew ==
    ASSUME TypeOK, Consume, NEW n \in Names, NEW v
    PROVE  ToldIs(n, v)' <=> ToldIs(n, v)
<1> DEFINE c == Head(changes)
<1>1. /\ changes \in Seq(Change) /\ changes # <<>>
      /\ applied \in [Names -> Defs \union {None}]
  BY DEF TypeOK, Consume
<1>2. /\ changes' = Tail(changes)
      /\ Len(changes) \in Nat \ {0}
      /\ Len(changes') = Len(changes) - 1
      /\ c = changes[1]
      /\ \A i \in 1..Len(changes') : changes'[i] = changes[i + 1]
  BY <1>1 DEF Consume
<1>3. c.name = n => c.op # "ready"
  BY <1>1, CDCAssumption DEF Change, Ready
<1>4. applied'[n] = IF c.name = n THEN c.def ELSE applied[n]
  BY <1>1, <1>3 DEF Consume
<1>5. ToldIs(n, v) => ToldIs(n, v)'
  <2>1. CASE \A i \in 1..Len(changes) : changes[i].name # n
    BY <1>2, <1>4, <2>1 DEF ToldIs
  <2>2. ASSUME NEW i \in 1..Len(changes), changes[i].name = n, changes[i].def = v,
               \A j \in i+1..Len(changes) : changes[j].name # n
        PROVE  ToldIs(n, v)'
    <3>1. CASE i = 1
      BY <1>2, <1>4, <2>2, <3>1 DEF ToldIs
    <3>2. CASE i > 1
      <4>1. i - 1 \in 1..Len(changes')
        BY <1>2, <3>2
      <4>2. changes'[i - 1] = changes[i]
        BY <1>2, <4>1
      <4>3. \A j \in (i-1)+1..Len(changes') : changes'[j].name # n
        BY <1>2, <2>2
      <4>. QED BY <2>2, <4>1, <4>2, <4>3 DEF ToldIs
    <3>. QED BY <3>1, <3>2
  <2>. QED BY <2>1, <2>2 DEF ToldIs
<1>6. ToldIs(n, v)' => ToldIs(n, v)
  <2>1. ASSUME \A i \in 1..Len(changes') : changes'[i].name # n, applied'[n] = v
        PROVE  ToldIs(n, v)
    <3>1. \A j \in 2..Len(changes) : changes[j].name # n
      BY <1>2, <2>1
    <3>. QED BY <1>2, <1>4, <2>1, <3>1 DEF ToldIs
  <2>2. ASSUME NEW i \in 1..Len(changes'), changes'[i].name = n, changes'[i].def = v,
               \A j \in i+1..Len(changes') : changes'[j].name # n
        PROVE  ToldIs(n, v)
    <3>1. /\ i + 1 \in 1..Len(changes)
          /\ changes[i + 1] = changes'[i]
      BY <1>2
    <3>2. \A j \in (i+1)+1..Len(changes) : changes[j].name # n
      <4>1. TAKE j \in (i+1)+1..Len(changes)
      <4>2. j - 1 \in i+1..Len(changes') /\ changes'[j - 1] = changes[j]
        BY <1>2
      <4>. QED BY <2>2, <4>2
    <3>. QED BY <2>2, <3>1, <3>2 DEF ToldIs
  <2>. QED BY <2>1, <2>2 DEF ToldIs
<1>. QED BY <1>5, <1>6

-----------------------------------------------------------------------------
(* Frames: what a step leaves alone, it leaves the invariant's parts alone. *)

LEMMA ToldFrame ==
    ASSUME UNCHANGED <<changes, applied>>, NEW n, NEW v
    PROVE  ToldIs(n, v)' <=> ToldIs(n, v)
BY DEF ToldIs

LEMMA QuietFrame ==
    ASSUME CDCInv, UNCHANGED <<oplog, coll, changes, applied>>
    PROVE  /\ EntryOK'
           /\ CollIsLastImage'
           /\ \A n, v : ToldIs(n, v)' <=> ToldIs(n, v)
           /\ \A p, n : Ahead(p, n)' <=> Ahead(p, n)
           /\ \A p : Explained(p)' <=> Explained(p)
<1>1. \A n, v : ToldIs(n, v)' <=> ToldIs(n, v)
  BY ToldFrame
<1>2. \A p, n : Ahead(p, n)' <=> Ahead(p, n)
  BY DEF Ahead, Touches
<1>3. \A p : Explained(p)' <=> Explained(p)
  BY <1>1, <1>2 DEF Explained
<1>4. EntryOK' /\ CollIsLastImage'
  BY <1>2 DEF CDCInv, EntryOK, CollIsLastImage, Touches
<1>. QED BY <1>1, <1>2, <1>3, <1>4

\* An active definition is a definition or none.
LEMMA ActiveType ==
    ASSUME NEW doc \in Document \union {Absent}
    PROVE  Active(doc) \in Defs \union {None}
BY DEF Active, Document, Absent

-----------------------------------------------------------------------------
(* Writers                                                                 *)

\* A write appends one entry, and is ahead of every position there is.
LEMMA LogPreserves ==
    ASSUME CDCInv,
           NEW op \in {"insert", "update", "delete", "drop", "noop"},
           NEW names \in SUBSET Names,
           NEW doc \in Document \union {Absent},
           op \in {"insert", "update"} => doc # Absent,
           op \in {"delete", "drop"} => doc = Absent,
           op \in {"insert", "update", "delete"} => \E n \in Names : names = {n},
           op = "noop" => names = {},
           Log(op, names, doc)
    PROVE  CDCInv'
<1> DEFINE e == [op |-> op, names |-> names, doc |-> doc]
           L == Len(oplog)
<1>1. /\ oplog \in Seq(Entry)
      /\ oplog' = Append(oplog, e)
      /\ e \in Entry
      /\ L \in Nat
      /\ oplog' \in Seq(Entry)
      /\ Len(oplog') = L + 1
      /\ oplog'[L + 1] = e
      /\ \A i \in 1..L : oplog'[i] = oplog[i]
  BY DEF CDCInv, TypeOK, Log, Entry
<1>2. TypeOK'
  <2>1. coll' \in [Names -> Document \union {Absent}]
    BY DEF CDCInv, TypeOK, Log
  <2>. QED BY <1>1, <2>1 DEF CDCInv, TypeOK, Log, posVars, scanVars, consVars
<1>3. EntryOK'
  BY <1>1 DEF CDCInv, EntryOK
<1>4. ASSUME NEW n \in Names, NEW p \in 1..L + 1
      PROVE  /\ n \in names => Ahead(p, n)'
             /\ Ahead(p, n) => Ahead(p, n)'
             /\ n \notin names => (Ahead(p, n)' => Ahead(p, n)) /\ coll'[n] = coll[n]
  <2>1. n \in names => Ahead(p, n)'
    <3>1. L + 1 \in p..Len(oplog')
      BY <1>1
    <3>. QED BY <1>1, <3>1 DEF Ahead, Touches
  <2>2. Ahead(p, n) => Ahead(p, n)'
    BY <1>1 DEF Ahead, Touches
  <2>3. n \notin names => (Ahead(p, n)' => Ahead(p, n))
    BY <1>1 DEF Ahead, Touches
  <2>4. n \notin names => coll'[n] = coll[n]
    BY DEF Log
  <2>. QED BY <2>1, <2>2, <2>3, <2>4
<1>5. CollIsLastImage'
  <2> SUFFICES ASSUME NEW n \in Names, NEW i \in 1..L + 1,
                      n \in oplog'[i].names, ~Ahead(i + 1, n)'
               PROVE  coll'[n] = oplog'[i].doc
    BY <1>1 DEF CollIsLastImage, Touches
  <2>1. CASE i = L + 1
    BY <1>1, <2>1 DEF Log
  <2>2. CASE i # L + 1
    <3>1. i \in 1..L /\ i + 1 \in 1..L + 1
      BY <1>1, <2>2
    <3>2. n \notin names
      BY <1>4, <3>1
    <3>3. coll'[n] = coll[n] /\ ~Ahead(i + 1, n)
      BY <1>4, <3>1, <3>2
    <3>. QED BY <1>1, <3>1, <3>3 DEF CDCInv, CollIsLastImage, Touches
  <2>. QED BY <2>1, <2>2
<1>6. UNCHANGED <<changes, applied, pc, toScan, toSend, docs, pin, live, cursor,
                  resumeToken, resumeTime>>
  BY DEF Log, posVars, scanVars, consVars
<1>7. \A n, v : ToldIs(n, v)' <=> ToldIs(n, v)
  BY <1>6, ToldFrame
<1>8. ASSUME NEW p \in 1..L + 1, Explained(p)
      PROVE  Explained(p)'
  BY <1>4, <1>7, <1>8 DEF Explained
<1>9. SnapshotCovers'
  <2>1. ASSUME pc \in {"scan", "sync"}
        PROVE  pin \in 1..L + 1 /\ pin' = pin
    BY <1>1, <1>6, <2>1 DEF CDCInv, TypeOK, SnapshotCovers
  <2>2. ASSUME pc \in {"scan", "sync"}, NEW n \in Names \ toScan
        PROVE  docs[n] = Active(coll'[n]) \/ Ahead(pin, n)'
    <3>1. docs[n] = Active(coll[n]) \/ Ahead(pin, n)
      BY <2>2 DEF CDCInv, SnapshotCovers
    <3>2. PICK p \in 1..L + 1 : p = pin
      BY <2>1, <2>2
    <3>3. docs[n] = Active(coll'[n]) \/ Ahead(p, n)'
      BY <1>4, <2>2, <3>1, <3>2
    <3>. QED BY <2>1, <2>2, <3>2, <3>3 DEF Ahead, Touches
  <2>. QED BY <1>6, <1>7, <2>2 DEF CDCInv, SnapshotCovers, Ahead
<1>10. ResumePositionCovers'
  <2> SUFFICES ASSUME resumeToken # 0 \/ resumeTime # 0
               PROVE  Explained(WatchFrom)'
    BY <1>6 DEF ResumePositionCovers
  <2>1. WatchFrom \in 1..L + 1 /\ WatchFrom' = WatchFrom
    BY <1>1, <1>6 DEF CDCInv, TypeOK, WatchFrom
  <2>2. Explained(WatchFrom)
    BY DEF CDCInv, ResumePositionCovers
  <2>. QED BY <1>8, <2>1, <2>2 DEF Explained, Ahead
<1>11. CursorCovers'
  <2>1. ASSUME pc \in {"ready", "stream"}
        PROVE  cursor >= 1 /\ Explained(cursor)'
    <3>1. PICK p \in 1..L + 1 : p = cursor /\ p = cursor'
      BY <1>1, <1>6, <2>1 DEF CDCInv, TypeOK, CursorCovers
    <3>2. Explained(p)'
      BY <1>8, <2>1, <3>1 DEF CDCInv, CursorCovers
    <3>. QED BY <3>1, <3>2 DEF Explained, Ahead
  <2>. QED BY <1>6, <2>1 DEF CDCInv, CursorCovers, Explained, Ahead
<1>12. LiveIsTold'
  BY <1>6, <1>7 DEF CDCInv, LiveIsTold
<1>. QED BY <1>2, <1>3, <1>5, <1>9, <1>10, <1>11, <1>12 DEF CDCInv

-----------------------------------------------------------------------------
(* Steps of Run that send nothing                                          *)

\* A step that also leaves the position, live and the snapshot alone keeps
\* the parts of the invariant that speak of them.
LEMMA PositionFrame ==
    ASSUME CDCInv, UNCHANGED <<oplog, coll, changes, applied>>,
           UNCHANGED <<resumeToken, resumeTime>>
    PROVE  ResumePositionCovers'
<1>1. PICK p : p = WatchFrom
  OBVIOUS
<1>2. p = WatchFrom'
  BY <1>1 DEF WatchFrom
<1>3. resumeToken # 0 \/ resumeTime # 0 => Explained(p)'
  BY <1>1, QuietFrame DEF CDCInv, ResumePositionCovers
<1>. QED BY <1>2, <1>3 DEF ResumePositionCovers, Explained, Ahead

LEMMA LiveFrame ==
    ASSUME CDCInv, UNCHANGED <<oplog, coll, changes, applied, live>>
    PROVE  LiveIsTold'
BY QuietFrame DEF CDCInv, LiveIsTold

\* Returning from Run, or starting a runOnce, needs no more than the position.
LEMMA ReturnPreserves ==
    ASSUME CDCInv, UNCHANGED <<dbVars, changes, applied, serving, live>>, Return,
           faults' \in Nat,
           \/ UNCHANGED posVars
           \/ resumeToken' = 0 /\ resumeTime' = 0
    PROVE  CDCInv'
<1>1. TypeOK'
  <2>1. /\ oplog \in Seq(Entry) /\ Len(oplog) \in Nat \ {0}
        /\ UNCHANGED <<oplog, oldest, coll>>
    BY DEF CDCInv, TypeOK, dbVars
  <2>2. resumeToken' \in 0..Len(oplog) /\ resumeTime' \in 0..Len(oplog)
    BY <2>1 DEF CDCInv, TypeOK, posVars
  <2>3. /\ pc' = "idle" /\ attempt' = 0 /\ cancelled' = FALSE /\ cursor' = 0
        /\ UNCHANGED <<pin, toScan, docs, toSend>>
    BY DEF Return, scanVars
  <2>4. cancelled' \in BOOLEAN /\ serving' \in BOOLEAN
    BY <2>3 DEF CDCInv, TypeOK
  <2>. QED BY <2>1, <2>2, <2>3, <2>4 DEF CDCInv, TypeOK
<1>2. EntryOK' /\ CollIsLastImage'
  BY QuietFrame DEF dbVars
<1>3. SnapshotCovers' /\ CursorCovers'
  BY DEF Return, SnapshotCovers, CursorCovers
<1>4. ResumePositionCovers'
  <2>1. CASE UNCHANGED posVars
    BY <2>1, PositionFrame DEF dbVars, posVars
  <2>2. CASE resumeToken' = 0 /\ resumeTime' = 0
    BY <2>2 DEF ResumePositionCovers
  <2>. QED BY <2>1, <2>2
<1>5. LiveIsTold'
  BY LiveFrame DEF dbVars
<1>. QED BY <1>1, <1>2, <1>3, <1>4, <1>5 DEF CDCInv

LEMMA BeginPreserves ==
    ASSUME CDCInv, UNCHANGED <<dbVars, changes, applied, serving, live, faults>>,
           BeginRunOnce(resumeToken', resumeTime'),
           attempt' \in 0..2, cancelled' \in BOOLEAN, cursor' \in {0, cursor},
           \/ UNCHANGED posVars
           \/ resumeToken' = 0 /\ resumeTime' = 0
    PROVE  CDCInv'
<1>1. TypeOK'
  <2>1. /\ oplog \in Seq(Entry) /\ Len(oplog) \in Nat \ {0}
        /\ UNCHANGED <<oplog, oldest, coll>>
    BY DEF CDCInv, TypeOK, dbVars
  <2>2. /\ pc' \in {"watch", "scan"} /\ pin' \in 0..Len(oplog)
        /\ toScan' \subseteq Names /\ toSend' \subseteq Names
        /\ docs' \in [Names -> Defs \union {None}]
    BY <2>1 DEF CDCInv, TypeOK, BeginRunOnce, scanVars
  <2>3. cursor' \in 0..Len(oplog) + 1 /\ resumeToken' \in 0..Len(oplog)
        /\ resumeTime' \in 0..Len(oplog)
    BY <2>1 DEF CDCInv, TypeOK, posVars
  <2>. QED BY <2>1, <2>2, <2>3 DEF CDCInv, TypeOK
<1>2. EntryOK' /\ CollIsLastImage'
  BY QuietFrame DEF dbVars
<1>3. SnapshotCovers'
  BY DEF CDCInv, TypeOK, BeginRunOnce, SnapshotCovers
<1>4. CursorCovers'
  BY DEF BeginRunOnce, CursorCovers
<1>5. ResumePositionCovers'
  <2>1. CASE UNCHANGED posVars
    BY <2>1, PositionFrame DEF dbVars, posVars
  <2>2. CASE resumeToken' = 0 /\ resumeTime' = 0
    BY <2>2 DEF ResumePositionCovers
  <2>. QED BY <2>1, <2>2
<1>6. LiveIsTold'
  BY LiveFrame DEF dbVars
<1>. QED BY <1>1, <1>2, <1>3, <1>4, <1>5, <1>6 DEF CDCInv

LEMMA ScanPreserves ==
    ASSUME CDCInv, NEW n \in Names, ScanName(n)
    PROVE  CDCInv'
<1>1. UNCHANGED <<oplog, coll, oldest, changes, applied, serving, live, pin, cursor,
                  resumeToken, resumeTime, attempt, cancelled, faults>>
  BY DEF ScanName, dbVars, posVars, consVars
<1>2. TypeOK'
  <2>1. Active(coll[n]) \in Defs \union {None}
    BY ActiveType DEF CDCInv, TypeOK
  <2>. QED BY <1>1, <2>1 DEF CDCInv, TypeOK, ScanName
<1>3. /\ EntryOK' /\ CollIsLastImage'
      /\ ResumePositionCovers' /\ LiveIsTold'
  BY <1>1, QuietFrame, PositionFrame, LiveFrame
<1>4. CursorCovers'
  BY DEF ScanName, CursorCovers
<1>5. SnapshotCovers'
  <2>1. /\ pc = "scan" /\ pc' \in {"scan", "sync"}
        /\ pc' = "sync" <=> toScan' = {}
        /\ toScan' = toScan \ {n} /\ n \in toScan
        /\ docs' = [docs EXCEPT ![n] = Active(coll[n])]
        /\ toSend' = IF Active(coll[n]) = None THEN toSend ELSE toSend \union {n}
        /\ docs \in [Names -> Defs \union {None}]
        /\ toSend \subseteq Names
    BY DEF ScanName, CDCInv, TypeOK
  <2>2. ASSUME NEW m \in Names \ toScan'
        PROVE  /\ docs'[m] = Active(coll'[m]) \/ Ahead(pin, m)'
               /\ m \in toSend' <=> docs'[m] # None
    <3>1. CASE m = n
      BY <1>1, <2>1, <3>1 DEF CDCInv, SnapshotCovers
    <3>2. CASE m # n
      <4>1. m \in Names \ toScan
        BY <2>1, <3>2
      <4>2. docs[m] = Active(coll[m]) \/ Ahead(pin, m)
        BY <2>1, <4>1 DEF CDCInv, SnapshotCovers
      <4>3. m \in toSend <=> docs[m] # None
        BY <2>1, <4>1 DEF CDCInv, SnapshotCovers
      <4>. QED BY <1>1, <2>1, <3>2, <4>2, <4>3 DEF Ahead, Touches
    <3>. QED BY <3>1, <3>2
  <2>3. \A m \in toSend' : docs'[m] # None
    BY <2>1 DEF CDCInv, SnapshotCovers
  <2>4. toSend' \intersect toScan' = {} /\ pin' >= 1 /\ resumeToken' = 0 /\ resumeTime' = 0
    BY <1>1, <2>1 DEF CDCInv, SnapshotCovers
  <2>5. pc' = "sync" => \A m \in Names \ toSend' : docs'[m] = None
    BY <2>1, <2>2
  <2>. QED BY <2>1, <2>2, <2>3, <2>4, <2>5 DEF SnapshotCovers
<1>. QED BY <1>2, <1>3, <1>4, <1>5 DEF CDCInv

\* The snapshot is complete: every name is told what was read, up to changes
\* after the pin, so the pin is a position to resume from.
LEMMA FinishPreserves ==
    ASSUME CDCInv, FinishSnapshot
    PROVE  CDCInv'
<1>1. UNCHANGED <<oplog, coll, oldest, changes, applied, serving, live, pin, cursor,
                  resumeToken, attempt, cancelled, faults, toScan, docs, toSend>>
  BY DEF FinishSnapshot, dbVars, scanVars, consVars
<1>2. TypeOK'
  BY <1>1 DEF CDCInv, TypeOK, FinishSnapshot
<1>3. EntryOK' /\ CollIsLastImage' /\ LiveIsTold'
  BY <1>1, QuietFrame, LiveFrame
<1>4. pin >= 1 /\ pin \in Nat
  BY DEF CDCInv, TypeOK, FinishSnapshot, SnapshotCovers
<1>5. SnapshotCovers' /\ CursorCovers'
  BY <1>4 DEF FinishSnapshot, SnapshotCovers, CursorCovers
<1>6. ResumePositionCovers'
  <2>1. PICK p : p = pin /\ p = WatchFrom'
    BY <1>1 DEF WatchFrom, FinishSnapshot, CDCInv, SnapshotCovers
  <2>2. ASSUME NEW n \in Names
        PROVE  ToldIs(n, Active(coll[n])) \/ Ahead(p, n)
    <3>1. ToldIs(n, docs[n])
      BY DEF CDCInv, FinishSnapshot, SnapshotCovers, staleNames, LiveIsTold
    <3>2. docs[n] = Active(coll[n]) \/ Ahead(pin, n)
      BY DEF CDCInv, FinishSnapshot, SnapshotCovers
    <3>. QED BY <2>1, <3>1, <3>2
  <2>3. Explained(p)'
    BY <1>1, <2>2, QuietFrame DEF Explained
  <2>. QED BY <2>1, <2>3 DEF ResumePositionCovers, Explained, Ahead
<1>. QED BY <1>2, <1>3, <1>5, <1>6 DEF CDCInv

\* Opening the stream: an empty first batch means that nothing ahead of the
\* position touches a name, so its post-batch token covers as much.
LEMMA WatchPreserves ==
    ASSUME CDCInv, Watch
    PROVE  CDCInv'
<1>1. UNCHANGED <<oplog, coll, oldest, changes, applied, serving, live, resumeTime,
                  attempt, cancelled, faults, pin, toScan, docs, toSend>>
  BY DEF Watch, dbVars, scanVars, consVars
<1>2. /\ Len(oplog) \in Nat \ {0} /\ oplog \in Seq(Entry)
      /\ resumeToken # 0 \/ resumeTime # 0
      /\ WatchFrom \in 1..Len(oplog) + 1
      /\ Explained(WatchFrom)
  BY DEF CDCInv, TypeOK, Watch, CursorCovers, ResumePositionCovers, WatchFrom
<1>3. TypeOK'
  BY <1>1, <1>2 DEF CDCInv, TypeOK, Watch
<1>4. EntryOK' /\ CollIsLastImage' /\ LiveIsTold'
  BY <1>1, QuietFrame, LiveFrame
<1>5. SnapshotCovers'
  BY DEF Watch, SnapshotCovers
<1>6. PICK p : p = WatchFrom /\ p = cursor'
  BY DEF Watch
<1>7. Explained(p)'
  BY <1>1, <1>2, <1>6, QuietFrame
<1>8. CursorCovers'
  BY <1>2, <1>6, <1>7 DEF CursorCovers, Watch, Explained, Ahead
<1>9. ResumePositionCovers'
  <2>1. CASE resumeToken' = resumeToken
    BY <1>1, <2>1, PositionFrame
  <2>2. CASE resumeToken' # resumeToken
    <3>1. /\ \A i \in p..Len(oplog) : oplog[i].op = "noop"
          /\ resumeToken' = Len(oplog)
      BY <1>6, <2>2 DEF Watch
    <3>2. WatchFrom' = Len(oplog) + 1
      BY <1>2, <3>1 DEF WatchFrom
    <3>3. ASSUME NEW n \in Names
          PROVE  ~Ahead(p, n)
      BY <1>2, <1>6, <3>1 DEF CDCInv, EntryOK, Ahead, Touches
    <3>4. \A n \in Names : ToldIs(n, Active(coll[n]))'
      BY <1>1, <1>7, <3>3, QuietFrame DEF Explained
    <3>. QED BY <3>4 DEF ResumePositionCovers, Explained
  <2>. QED BY <2>1, <2>2
<1>. QED BY <1>3, <1>4, <1>5, <1>8, <1>9 DEF CDCInv

\* Skipping an entry that touches no name moves the cursor only.
LEMMA ForeignPreserves ==
    ASSUME CDCInv, StreamForeign
    PROVE  CDCInv'
<1>1. UNCHANGED <<oplog, coll, oldest, changes, applied, serving, live, resumeToken,
                  resumeTime, pc, attempt, cancelled, faults, pin, toScan, docs, toSend>>
  BY DEF StreamForeign, dbVars, scanVars, consVars, posVars
<1>2. /\ Len(oplog) \in Nat /\ oplog \in Seq(Entry)
      /\ cursor \in 1..Len(oplog) /\ cursor' = cursor + 1
      /\ oplog[cursor].op = "noop"
      /\ pc = "stream" /\ Explained(cursor)
  BY DEF CDCInv, TypeOK, StreamForeign, AtEvent, CursorCovers
<1>3. TypeOK'
  BY <1>1, <1>2 DEF CDCInv, TypeOK
<1>4. EntryOK' /\ CollIsLastImage' /\ LiveIsTold' /\ ResumePositionCovers'
  BY <1>1, QuietFrame, LiveFrame, PositionFrame
<1>5. SnapshotCovers'
  BY <1>1, <1>2 DEF SnapshotCovers
<1>6. CursorCovers'
  <2>1. PICK p : p = cursor'
    OBVIOUS
  <2>2. Explained(p)
    BY <1>2, <2>1 DEF CDCInv, EntryOK, Explained, Ahead, Touches
  <2>3. Explained(p)'
    BY <1>1, <2>2, QuietFrame
  <2>. QED BY <1>1, <1>2, <2>1, <2>3 DEF CursorCovers, Explained, Ahead
<1>. QED BY <1>3, <1>4, <1>5, <1>6 DEF CDCInv

-----------------------------------------------------------------------------
(* Steps that send                                                         *)

\* What a send leaves alone: the collection, and what every name other than
\* the change's is told.
LEMMA SendFrame ==
    ASSUME CDCInv, NEW c \in Change, Send(c), UNCHANGED <<oplog, coll, applied>>
    PROVE  /\ EntryOK'
           /\ CollIsLastImage'
           /\ changes' \in Seq(Change)
           /\ \A n \in Names : \A v : ToldIs(n, v)' <=>
                  IF c.name = n THEN c.def = v ELSE ToldIs(n, v)
           /\ \A p, n : Ahead(p, n)' <=> Ahead(p, n)
<1>1. changes \in Seq(Change)
  BY DEF CDCInv, TypeOK
<1>2. changes' \in Seq(Change)
  BY <1>1 DEF Send
<1>3. \A n \in Names : \A v : ToldIs(n, v)' <=>
          IF c.name = n THEN c.def = v ELSE ToldIs(n, v)
  BY <1>1, SendTells
<1>4. \A p, n : Ahead(p, n)' <=> Ahead(p, n)
  BY DEF Ahead, Touches
<1>5. EntryOK' /\ CollIsLastImage'
  BY <1>4 DEF CDCInv, EntryOK, CollIsLastImage, Touches
<1>. QED BY <1>2, <1>3, <1>4, <1>5

\* The snapshot sends what it read, or deletes what it did not find: with no
\* position yet, only what it has sent so far matters.
LEMMA SnapshotSendPreserves ==
    ASSUME CDCInv, NEW n \in Names, SendSnapshotUpsert(n) \/ SendSnapshotDelete(n)
    PROVE  CDCInv'
<1>1. PICK c \in Change :
         /\ Send(c) /\ track(c)
         /\ c.name = n /\ c.def = docs[n]
         /\ c.op \in {"upsert", "delete"} /\ (c.op = "delete" <=> docs[n] = None)
         /\ toSend' = toSend \ {n}
         /\ pc = "sync"
  <2>1. docs[n] \in Defs \union {None}
    BY DEF CDCInv, TypeOK
  <2>2. CASE SendSnapshotUpsert(n)
    <3>1. docs[n] \in Defs /\ docs[n] # None
      BY <2>1, <2>2 DEF SendSnapshotUpsert, CDCInv, SnapshotCovers
    <3>. QED BY <2>2, <3>1 DEF SendSnapshotUpsert, Change, Upsert
  <2>3. CASE SendSnapshotDelete(n)
    <3>1. docs[n] = None /\ toSend = {} /\ toSend' = toSend
      BY <2>3 DEF SendSnapshotDelete, staleNames, scanVars
    <3>. QED BY <2>3, <3>1 DEF SendSnapshotDelete, Change, Delete
  <2>. QED BY <2>2, <2>3
<1>2. UNCHANGED <<oplog, coll, oldest, applied, serving, resumeToken, resumeTime, pc,
                  attempt, cancelled, faults, pin, toScan, docs, cursor>>
  BY DEF SendSnapshotUpsert, SendSnapshotDelete, dbVars, posVars, consVars, scanVars
<1>3. /\ EntryOK' /\ CollIsLastImage'
      /\ changes' \in Seq(Change)
      /\ \A m \in Names : \A v : ToldIs(m, v)' <=>
             IF m = n THEN docs[n] = v ELSE ToldIs(m, v)
      /\ \A p, m : Ahead(p, m)' <=> Ahead(p, m)
  BY <1>1, <1>2, SendFrame
<1>4. live' = IF docs[n] = None THEN live \ {n} ELSE live \union {n}
  BY <1>1 DEF track
<1>5. TypeOK'
  BY <1>1, <1>2, <1>3, <1>4 DEF CDCInv, TypeOK
<1>6. LiveIsTold'
  BY <1>3, <1>4 DEF CDCInv, LiveIsTold
<1>7. SnapshotCovers'
  <2>1. PICK p : p = pin /\ p = pin'
    BY <1>2
  <2>2. ASSUME NEW m \in Names \ toScan
        PROVE  docs[m] = Active(coll[m]) \/ Ahead(p, m)'
    BY <1>1, <1>3, <2>1 DEF CDCInv, SnapshotCovers
  <2>3. ASSUME NEW m \in Names \ toScan'
        PROVE  docs'[m] = Active(coll'[m]) \/ Ahead(pin, m)'
    BY <1>2, <2>1, <2>2 DEF Ahead
  <2>4. ASSUME NEW m \in Names \ toSend', docs'[m] # None
        PROVE  ToldIs(m, docs[m])'
    <3>1. PICK d : d = docs[m] /\ d = docs'[m]
      BY <1>2
    <3>2. ToldIs(m, d)'
      BY <1>1, <1>2, <1>3, <2>4, <3>1 DEF CDCInv, SnapshotCovers
    <3>. QED BY <3>1, <3>2 DEF ToldIs
  <2>. QED BY <1>1, <1>2, <2>3, <2>4 DEF CDCInv, SnapshotCovers
<1>8. CursorCovers'
  BY <1>1, <1>2 DEF CursorCovers
<1>9. ResumePositionCovers'
  BY <1>1, <1>2 DEF CDCInv, SnapshotCovers, ResumePositionCovers
<1>. QED BY <1>3, <1>5, <1>6, <1>7, <1>8, <1>9 DEF CDCInv

LEMMA ReadyPreserves ==
    ASSUME CDCInv, SendReady
    PROVE  CDCInv'
<1>1. Ready \in Change /\ Send(Ready)
  BY DEF SendReady, Change
<1>2. UNCHANGED <<oplog, coll, oldest, applied, serving, resumeToken, resumeTime, live,
                  attempt, cancelled, faults, pin, toScan, toSend, docs, cursor>>
  BY DEF SendReady, dbVars, posVars, consVars, scanVars
<1>3. /\ EntryOK' /\ CollIsLastImage'
      /\ changes' \in Seq(Change)
      /\ \A n \in Names : \A v : ToldIs(n, v)' <=> ToldIs(n, v)
      /\ \A p, n : Ahead(p, n)' <=> Ahead(p, n)
  BY <1>1, <1>2, SendFrame, CDCAssumption DEF Ready
<1>4. \A p : Explained(p)' <=> Explained(p)
  BY <1>2, <1>3 DEF Explained
<1>5. TypeOK'
  BY <1>2, <1>3 DEF CDCInv, TypeOK, SendReady
<1>6. LiveIsTold'
  BY <1>2, <1>3 DEF CDCInv, LiveIsTold
<1>7. SnapshotCovers'
  BY DEF SendReady, SnapshotCovers
<1>8. CursorCovers'
  <2>1. PICK p : p = cursor /\ p = cursor'
    BY <1>2
  <2>2. p >= 1 /\ Explained(p)'
    BY <1>4, <2>1 DEF SendReady, CDCInv, CursorCovers
  <2>. QED BY <2>1, <2>2 DEF SendReady, CursorCovers, Explained, Ahead
<1>9. ResumePositionCovers'
  <2>1. PICK p : p = WatchFrom /\ p = WatchFrom'
    BY <1>2 DEF WatchFrom
  <2>2. resumeToken # 0 \/ resumeTime # 0 => Explained(p)'
    BY <1>4, <2>1 DEF CDCInv, ResumePositionCovers
  <2>. QED BY <1>2, <2>1, <2>2 DEF ResumePositionCovers, Explained, Ahead
<1>. QED BY <1>3, <1>5, <1>6, <1>7, <1>8, <1>9 DEF CDCInv

\* One event of the stream.  The document it carries is a post-image of its
\* name at or after the event: the last one, or another event is ahead.
LEMMA StreamPreserves ==
    ASSUME CDCInv, NEW n \in Names, StreamEvent(n)
    PROVE  CDCInv'
<1>1. UNCHANGED <<oplog, coll, oldest, applied, serving, resumeTime, pc, attempt,
                  cancelled, faults, pin, toScan, toSend, docs>>
  BY DEF StreamEvent, dbVars, consVars, scanVars
<1>2. PICK k \in 1..Len(oplog) :
         /\ k = cursor /\ cursor' = k + 1 /\ resumeToken' = k
         /\ oplog[k].op \in {"insert", "update", "delete"}
         /\ oplog[k].names = {n}
         /\ Explained(k) /\ pc = "stream"
  <2>1. /\ oplog \in Seq(Entry) /\ Len(oplog) \in Nat \ {0}
        /\ cursor \in 1..Len(oplog) /\ pc = "stream"
    BY DEF CDCInv, TypeOK, StreamEvent, AtEvent
  <2>2. n \in oplog[cursor].names
    BY DEF StreamEvent, Touches
  <2>3. oplog[cursor].names = {n}
    BY <2>1, <2>2 DEF CDCInv, EntryOK, StreamEvent, AtEvent
  <2>. QED BY <2>1, <2>3 DEF CDCInv, StreamEvent, AtEvent, CursorCovers
<1>3. /\ Len(oplog) \in Nat /\ oplog \in Seq(Entry)
      /\ coll \in [Names -> Document \union {Absent}]
  BY DEF CDCInv, TypeOK
<1>4. PICK doc \in FullDocument(n) :
         IF doc = Absent /\ oplog[k].op # "delete"
           THEN UNCHANGED <<changes, live>>
           ELSE Send(decodeEvent(n, doc)) /\ track(decodeEvent(n, doc))
  BY <1>2 DEF StreamEvent
<1>5. PICK j \in k..Len(oplog) : n \in oplog[j].names /\ doc = oplog[j].doc
  BY <1>2, <1>3, <1>4 DEF FullDocument, Touches
<1>6. j \in 1..Len(oplog) /\ oplog[j] \in Entry /\ doc \in Document \union {Absent}
  <2>1. j \in 1..Len(oplog)
    BY <1>2, <1>3, <1>5
  <2>2. oplog[j] \in Entry
    BY <1>3, <2>1
  <2>. QED BY <1>5, <2>1, <2>2 DEF Entry
<1>7. ~Ahead(k + 1, n) => coll[n] = oplog[k].doc /\ doc = oplog[k].doc
  <2> HAVE ~Ahead(k + 1, n)
  <2>1. j = k
    BY <1>2, <1>3, <1>5 DEF Ahead, Touches
  <2>. QED BY <1>2, <1>5, <2>1 DEF CDCInv, CollIsLastImage, Touches
<1>8. \A m \in Names : m # n => (Ahead(k, m) => Ahead(k + 1, m))
  BY <1>2, <1>3 DEF Ahead, Touches
<1>9. CASE doc = Absent /\ oplog[k].op # "delete"
  \* skipped: the document is gone, so its delete or drop is ahead
  <2>1. UNCHANGED <<changes, live>>
    BY <1>4, <1>9
  <2>2. Ahead(k + 1, n)
    BY <1>2, <1>7, <1>9 DEF CDCInv, EntryOK
  <2>3. Explained(k + 1)
    BY <1>2, <1>8, <2>2 DEF Explained
  <2>4. Explained(k + 1)'
    BY <1>1, <2>1, <2>3, QuietFrame
  <2>5. EntryOK' /\ CollIsLastImage' /\ LiveIsTold'
    BY <1>1, <2>1, QuietFrame, LiveFrame
  <2>6. TypeOK'
    BY <1>1, <1>2, <1>3, <2>1 DEF CDCInv, TypeOK
  <2>7. SnapshotCovers'
    BY <1>1, <1>2 DEF SnapshotCovers
  <2>8. CursorCovers'
    BY <1>1, <1>2, <2>4 DEF CursorCovers, Explained, Ahead
  <2>9. WatchFrom' = k + 1
    <3>1. resumeToken' = k /\ k # 0
      BY <1>2, <1>3
    <3>. QED BY <3>1 DEF WatchFrom
  <2>10. ResumePositionCovers'
    BY <2>4, <2>9 DEF ResumePositionCovers, Explained, Ahead
  <2>. QED BY <2>5, <2>6, <2>7, <2>8, <2>10 DEF CDCInv
<1>10. CASE ~(doc = Absent /\ oplog[k].op # "delete")
  <2>1. PICK c \in Change :
           /\ Send(c) /\ track(c)
           /\ c.op \in {"upsert", "delete"} /\ c.name = n
           /\ c.op = "delete" <=> c.def = None
           /\ c.def = IF oplog[k].op = "delete" \/ doc.deleted THEN None ELSE doc.def
    <3>1. PICK c : c = decodeEvent(n, doc)
      OBVIOUS
    <3>2. Send(c) /\ track(c)
      BY <1>4, <1>10, <3>1
    <3>3. CASE oplog[k].op = "delete" \/ doc.deleted
      BY <1>2, <3>1, <3>2, <3>3 DEF decodeEvent, Delete, Change
    <3>4. CASE ~(oplog[k].op = "delete" \/ doc.deleted)
      <4>1. doc.def \in Defs /\ doc.def # None
        BY <1>6, <1>10, <3>4, CDCAssumption DEF Document
      <4>. QED BY <1>2, <3>1, <3>2, <3>4, <4>1 DEF decodeEvent, Upsert, Change
    <3>. QED BY <3>3, <3>4
  <2>2. /\ EntryOK' /\ CollIsLastImage'
        /\ changes' \in Seq(Change)
        /\ \A m \in Names : \A v : ToldIs(m, v)' <=>
               IF c.name = m THEN c.def = v ELSE ToldIs(m, v)
        /\ \A p, m : Ahead(p, m)' <=> Ahead(p, m)
    BY <1>1, <2>1, SendFrame
  <2>3. live' = IF c.def = None THEN live \ {n} ELSE live \union {n}
    BY <2>1 DEF track
  <2>4. ~Ahead(k + 1, n) => c.def = Active(coll[n])
    <3> HAVE ~Ahead(k + 1, n)
    <3>1. oplog[k].op = "delete" => doc = Absent
      BY <1>2, <1>7 DEF CDCInv, EntryOK
    <3>. QED BY <1>7, <2>1, <3>1 DEF Active, Absent
  <2>5. Explained(k + 1)'
    <3>1. ASSUME NEW m \in Names
          PROVE  ToldIs(m, Active(coll[m]))' \/ Ahead(k + 1, m)'
      <4>1. PICK d : d = Active(coll[m]) /\ d = Active(coll'[m])
        BY <1>1
      <4>2. CASE m = n
        <5>1. ToldIs(m, d)' \/ Ahead(k + 1, m)'
          BY <2>1, <2>2, <2>4, <4>1, <4>2
        <5>. QED BY <4>1, <5>1 DEF ToldIs
      <4>3. CASE m # n
        <5>1. ToldIs(m, d) \/ Ahead(k + 1, m)
          BY <1>2, <1>8, <4>1, <4>3 DEF Explained
        <5>2. ToldIs(m, d)' \/ Ahead(k + 1, m)'
          BY <2>1, <2>2, <4>3, <5>1
        <5>. QED BY <4>1, <5>2 DEF ToldIs
      <4>. QED BY <4>2, <4>3
    <3>. QED BY <3>1 DEF Explained
  <2>6. TypeOK'
    BY <1>1, <1>2, <1>3, <2>2, <2>3 DEF CDCInv, TypeOK
  <2>7. SnapshotCovers'
    BY <1>1, <1>2 DEF SnapshotCovers
  <2>8. CursorCovers'
    BY <1>1, <1>2, <2>5 DEF CursorCovers, Explained, Ahead
  <2>9. WatchFrom' = k + 1
    <3>1. resumeToken' = k /\ k # 0
      BY <1>2, <1>3
    <3>. QED BY <3>1 DEF WatchFrom
  <2>10. ResumePositionCovers'
    BY <2>5, <2>9 DEF ResumePositionCovers, Explained, Ahead
  <2>11. LiveIsTold'
    BY <2>1, <2>2, <2>3 DEF CDCInv, LiveIsTold
  <2>. QED BY <2>2, <2>6, <2>7, <2>8, <2>10, <2>11 DEF CDCInv
<1>. QED BY <1>9, <1>10

-----------------------------------------------------------------------------
(* The consumer, and a new process                                         *)

LEMMA ConsumePreserves ==
    ASSUME CDCInv, Consume
    PROVE  CDCInv'
<1>1. UNCHANGED <<oplog, coll, oldest, pc, attempt, cancelled, resumeToken, resumeTime,
                  live, pin, toScan, docs, toSend, cursor, faults>>
  BY DEF Consume, dbVars, posVars, scanVars
<1>2. changes' \in Seq(Change) /\ Head(changes) \in Change
  BY DEF CDCInv, TypeOK, Consume
<1>3. applied' \in [Names -> Defs \union {None}] /\ serving' \in BOOLEAN
  BY <1>2 DEF CDCInv, TypeOK, Consume, Change, Ready
<1>4. TypeOK'
  BY <1>1, <1>2, <1>3 DEF CDCInv, TypeOK
<1>5. \A n \in Names : \A v : ToldIs(n, v)' <=> ToldIs(n, v)
  BY ConsumeTellsNothingNew DEF CDCInv
<1>6. \A p, n : Ahead(p, n)' <=> Ahead(p, n)
  BY <1>1 DEF Ahead, Touches
<1>7. \A p : Explained(p)' <=> Explained(p)
  BY <1>1, <1>5, <1>6 DEF Explained
<1>8. EntryOK' /\ CollIsLastImage'
  BY <1>1, <1>6 DEF CDCInv, EntryOK, CollIsLastImage, Touches
<1>9. LiveIsTold'
  BY <1>1, <1>5 DEF CDCInv, LiveIsTold
<1>10. SnapshotCovers'
  <2>1. ASSUME pc \in {"scan", "sync"}, NEW n \in Names \ toScan
        PROVE  docs[n] = Active(coll[n]) \/ Ahead(pin, n)'
    <3>1. PICK p : p = pin /\ p = pin'
      BY <1>1
    <3>2. docs[n] = Active(coll[n]) \/ Ahead(p, n)'
      BY <1>6, <2>1, <3>1 DEF CDCInv, SnapshotCovers
    <3>. QED BY <3>1, <3>2 DEF Ahead
  <2>2. ASSUME pc = "sync", NEW n \in Names \ toSend, docs[n] # None
        PROVE  ToldIs(n, docs[n])'
    <3>1. PICK d : d = docs[n] /\ d = docs'[n]
      BY <1>1
    <3>2. ToldIs(n, d)'
      BY <1>5, <2>2, <3>1 DEF CDCInv, SnapshotCovers
    <3>. QED BY <3>1, <3>2 DEF ToldIs
  <2>. QED BY <1>1, <2>1, <2>2 DEF CDCInv, SnapshotCovers
<1>11. CursorCovers'
  <2>1. PICK p : p = cursor /\ p = cursor'
    BY <1>1
  <2>2. pc \in {"ready", "stream"} => p >= 1 /\ Explained(p)'
    BY <1>7, <2>1 DEF CDCInv, CursorCovers
  <2>. QED BY <1>1, <2>1, <2>2 DEF CDCInv, CursorCovers, Explained, Ahead
<1>12. ResumePositionCovers'
  <2>1. PICK p : p = WatchFrom /\ p = WatchFrom'
    BY <1>1 DEF WatchFrom
  <2>2. resumeToken # 0 \/ resumeTime # 0 => Explained(p)'
    BY <1>7, <2>1 DEF CDCInv, ResumePositionCovers
  <2>. QED BY <1>1, <2>1, <2>2 DEF ResumePositionCovers, Explained, Ahead
<1>. QED BY <1>4, <1>8, <1>9, <1>10, <1>11, <1>12 DEF CDCInv

LEMMA RestartPreserves ==
    ASSUME CDCInv, Restart
    PROVE  CDCInv'
<1>1. /\ UNCHANGED <<oplog, oldest, coll, pin, toScan, docs, toSend>>
      /\ pc' = "idle" /\ attempt' = 0 /\ cancelled' = FALSE /\ cursor' = 0
      /\ resumeToken' = 0 /\ resumeTime' = 0 /\ live' = {} /\ changes' = <<>>
      /\ applied' = [n \in Names |-> None] /\ serving' = FALSE
      /\ faults' = faults + 1
  BY DEF Restart, Return, dbVars, scanVars
<1>2. /\ oplog \in Seq(Entry) /\ Len(oplog) \in Nat \ {0}
      /\ changes' \in Seq(Change) /\ Len(changes') = 0
      /\ cancelled' \in BOOLEAN /\ serving' \in BOOLEAN
  <2>1. oplog \in Seq(Entry) /\ Len(oplog) \in Nat \ {0}
    BY DEF CDCInv, TypeOK
  <2>2. changes' \in Seq(Change) /\ Len(changes') = 0
    BY <1>1
  <2>3. cancelled' \in BOOLEAN /\ serving' \in BOOLEAN
    BY <1>1
  <2>. QED BY <2>1, <2>2, <2>3
<1>3. TypeOK'
  BY <1>1, <1>2 DEF CDCInv, TypeOK
<1>4. EntryOK' /\ CollIsLastImage'
  BY <1>1 DEF CDCInv, EntryOK, CollIsLastImage, Ahead, Touches
<1>5. SnapshotCovers' /\ CursorCovers' /\ ResumePositionCovers'
  BY <1>1 DEF SnapshotCovers, CursorCovers, ResumePositionCovers
<1>6. LiveIsTold'
  BY <1>1, <1>2 DEF LiveIsTold, ToldIs
<1>. QED BY <1>3, <1>4, <1>5, <1>6 DEF CDCInv

LEMMA InitEstablishes == Init => CDCInv
<1> SUFFICES ASSUME Init PROVE CDCInv
  OBVIOUS
<1> DEFINE e == [op |-> "noop", names |-> {}, doc |-> Absent]
<1>1. /\ e \in Entry /\ oplog = <<e>> /\ oplog \in Seq(Entry)
      /\ Len(oplog) = 1 /\ oplog[1] = e
      /\ changes \in Seq(Change) /\ Len(changes) = 0
  BY DEF Init, Entry
<1>2. TypeOK
  <2>1. cancelled \in BOOLEAN /\ serving \in BOOLEAN
    BY DEF Init
  <2>2. coll \in [Names -> Document \union {Absent}]
    BY DEF Init
  <2>. QED BY <1>1, <2>1, <2>2 DEF Init, TypeOK
<1>3. EntryOK /\ CollIsLastImage
  BY <1>1 DEF EntryOK, CollIsLastImage, Touches
<1>4. SnapshotCovers /\ CursorCovers /\ ResumePositionCovers
  BY DEF Init, SnapshotCovers, CursorCovers, ResumePositionCovers
<1>5. LiveIsTold
  <2>1. live = {} /\ \A n \in Names : applied[n] = None
    BY DEF Init
  <2>2. 1..Len(changes) = {}
    BY <1>1
  <2>3. \A n \in Names : ToldIs(n, None)
    BY <2>1, <2>2 DEF ToldIs
  <2>. QED BY <2>1, <2>3 DEF LiveIsTold
<1>. QED BY <1>2, <1>3, <1>4, <1>5 DEF CDCInv

\* Every step keeps CDCInv.
LEMMA NextPreserves == CDCInv /\ [Next]_vars => CDCInv'
<1> SUFFICES ASSUME CDCInv, [Next]_vars PROVE CDCInv'
  OBVIOUS
<1>1. ASSUME NEW n \in Names, NEW d \in Defs, StoreUpsert(n, d)
      PROVE  CDCInv'
  <2>1. PICK op \in {"insert", "update"} :
           Log(op, {n}, [def |-> d, deleted |-> FALSE])
    BY <1>1 DEF StoreUpsert
  <2>2. PICK doc \in Document : doc = [def |-> d, deleted |-> FALSE]
    BY DEF Document
  <2>3. doc # Absent
    BY <2>2, CDCAssumption DEF Absent
  <2>. QED BY <2>1, <2>2, <2>3, LogPreserves
<1>2. ASSUME NEW n \in Names, SoftDelete(n)
      PROVE  CDCInv'
  <2>1. coll[n] \in Document /\ coll[n] # Absent
    BY <1>2 DEF SoftDelete, Active, Absent, CDCInv, TypeOK
  <2>2. PICK doc \in Document : doc = [coll[n] EXCEPT !.deleted = TRUE]
    BY <2>1 DEF Document
  <2>3. doc # Absent
    BY <2>1, <2>2 DEF Absent, Document
  <2>4. Log("update", {n}, doc)
    BY <1>2, <2>2 DEF SoftDelete
  <2>. QED BY <2>3, <2>4, LogPreserves
<1>3. ASSUME NEW n \in Names, HardDelete(n)
      PROVE  CDCInv'
  BY <1>3, LogPreserves DEF HardDelete
<1>4. CASE DropCollection
  BY <1>4, LogPreserves DEF DropCollection
<1>5. CASE NoopWrite
  BY <1>5, LogPreserves DEF NoopWrite
<1>6. CASE TruncateOplog
  <2>1. UNCHANGED <<oplog, coll, changes, applied, live, resumeToken, resumeTime, pc,
                    pin, toScan, docs, toSend, cursor, attempt, cancelled, serving, faults>>
    BY <1>6 DEF TruncateOplog, posVars, scanVars, consVars
  <2>2. TypeOK'
    BY <1>6, <2>1 DEF TruncateOplog, CDCInv, TypeOK
  <2>3. /\ EntryOK' /\ CollIsLastImage' /\ LiveIsTold' /\ ResumePositionCovers'
    BY <2>1, QuietFrame, LiveFrame, PositionFrame
  <2>4. SnapshotCovers' /\ CursorCovers'
    BY <2>1 DEF CDCInv, SnapshotCovers, CursorCovers, Explained, ToldIs, Ahead, Touches
  <2>. QED BY <2>2, <2>3, <2>4 DEF CDCInv
<1>7. CASE Run
  <2>1. /\ UNCHANGED <<dbVars, changes, applied, serving, live, faults, cursor>>
        /\ UNCHANGED posVars
        /\ attempt' = 1 /\ cancelled' = FALSE
        /\ BeginRunOnce(resumeToken, resumeTime)
    BY <1>7 DEF Run, consVars
  <2>2. BeginRunOnce(resumeToken', resumeTime')
    BY <2>1 DEF posVars
  <2>3. cancelled' \in BOOLEAN
    BY <2>1
  <2>. QED BY <2>1, <2>2, <2>3, BeginPreserves
<1>8. ASSUME NEW n \in Names, ScanName(n) PROVE CDCInv'
  BY <1>8, ScanPreserves
<1>9. ASSUME NEW n \in Names, SendSnapshotUpsert(n) \/ SendSnapshotDelete(n)
      PROVE  CDCInv'
  BY <1>9, SnapshotSendPreserves
<1>10. ASSUME NEW n \in Names, StreamEvent(n) PROVE CDCInv'
  BY <1>10, StreamPreserves
<1>11. CASE FinishSnapshot
  BY <1>11, FinishPreserves
<1>12. CASE Watch
  BY <1>12, WatchPreserves
<1>13. CASE SendReady
  BY <1>13, ReadyPreserves
<1>14. CASE StreamForeign
  BY <1>14, ForeignPreserves
<1>15. CASE Invalidated \/ TransientError \/ SeeCancelled
  <2>1. faults \in Nat
    BY DEF CDCInv, TypeOK
  <2>. QED BY <1>15, <2>1, ReturnPreserves
         DEF Invalidated, TransientError, SeeCancelled, consVars
<1>16. CASE ResumeLost
  <2>1. CASE attempt = 1 /\ ~cancelled
    <3>1. /\ resumeToken' = 0 /\ resumeTime' = 0
          /\ attempt' = 2 /\ cursor' = 0 /\ UNCHANGED cancelled
          /\ BeginRunOnce(resumeToken', resumeTime')
          /\ UNCHANGED <<dbVars, live, changes, applied, serving, faults>>
      BY <1>16, <2>1 DEF ResumeLost, consVars
    <3>2. cancelled' \in BOOLEAN
      BY <3>1 DEF CDCInv, TypeOK
    <3>. QED BY <3>1, <3>2, BeginPreserves
  <2>2. CASE ~(attempt = 1 /\ ~cancelled)
    <3>1. faults \in Nat
      BY DEF CDCInv, TypeOK
    <3>. QED BY <1>16, <2>2, <3>1, ReturnPreserves DEF ResumeLost, consVars
  <2>. QED BY <2>1, <2>2
<1>17. CASE Cancel
  <2>1. UNCHANGED <<oplog, coll, oldest, changes, applied, live, resumeToken, resumeTime,
                    pc, pin, toScan, docs, toSend, cursor, attempt, serving>>
    BY <1>17 DEF Cancel, dbVars, posVars, scanVars, consVars
  <2>2. faults' \in Nat /\ cancelled' \in BOOLEAN
    BY <1>17 DEF Cancel, CDCInv, TypeOK
  <2>3. TypeOK'
    BY <2>1, <2>2 DEF CDCInv, TypeOK
  <2>4. /\ EntryOK' /\ CollIsLastImage' /\ LiveIsTold' /\ ResumePositionCovers'
    BY <2>1, QuietFrame, LiveFrame, PositionFrame
  <2>5. SnapshotCovers' /\ CursorCovers'
    BY <2>1 DEF CDCInv, SnapshotCovers, CursorCovers, Explained, ToldIs, Ahead, Touches
  <2>. QED BY <2>3, <2>4, <2>5 DEF CDCInv
<1>18. CASE Restart
  BY <1>18, RestartPreserves
<1>19. CASE Consume
  BY <1>19, ConsumePreserves
<1>20. CASE UNCHANGED vars
  <2>1. UNCHANGED <<oplog, coll, oldest, changes, applied, live, resumeToken, resumeTime,
                    pc, pin, toScan, docs, toSend, cursor, attempt, cancelled, serving,
                    faults>>
    BY <1>20 DEF vars, dbVars, posVars, scanVars, consVars
  <2>2. TypeOK'
    BY <2>1 DEF CDCInv, TypeOK
  <2>3. /\ EntryOK' /\ CollIsLastImage' /\ LiveIsTold' /\ ResumePositionCovers'
    BY <2>1, QuietFrame, LiveFrame, PositionFrame
  <2>4. SnapshotCovers' /\ CursorCovers'
    BY <2>1 DEF CDCInv, SnapshotCovers, CursorCovers, Explained, ToldIs, Ahead, Touches
  <2>. QED BY <2>2, <2>3, <2>4 DEF CDCInv
<1>. QED
  BY <1>1, <1>2, <1>3, <1>4, <1>5, <1>6, <1>7, <1>8, <1>9, <1>10, <1>11, <1>12, <1>13,
     <1>14, <1>15, <1>16, <1>17, <1>18, <1>19, <1>20
     DEF Next, Store, CDC, Environment

\* FilterCDC keeps its inductive invariant, for every set of names and
\* definitions, channel capacity and number of writes and faults.
THEOREM CDCInvariant == Spec => []CDCInv
BY InitEstablishes, NextPreserves, PTL DEF Spec

\* A caught-up feed is exact: when the change stream has delivered all there is
\* and the consumer has drained the channel, the consumer holds exactly the
\* active filters of the collection (runOnce, snapshot, rememberPosition).
THEOREM CaughtUp == Spec => []CaughtUpIsExact
<1>1. CDCInv => CaughtUpIsExact
  <2> SUFFICES ASSUME CDCInv, pc = "stream", cursor > Len(oplog), changes = <<>>,
                      NEW n \in Names
               PROVE  applied[n] = Active(coll[n])
    BY DEF CaughtUpIsExact
  <2>1. Len(changes) = 0 /\ cursor \in Nat /\ Len(oplog) \in Nat
    BY DEF CDCInv, TypeOK
  <2>2. ~Ahead(cursor, n)
    BY <2>1 DEF Ahead
  <2>3. ToldIs(n, Active(coll[n]))
    BY <2>2 DEF CDCInv, CursorCovers, Explained
  <2>. QED BY <2>1, <2>3 DEF ToldIs
<1>. QED BY <1>1, CDCInvariant, PTL

\* The saved resume position never skips a change the consumer still needs.
THEOREM PositionCovers == Spec => []ResumePositionCovers
<1>1. CDCInv => ResumePositionCovers
  BY DEF CDCInv
<1>. QED BY <1>1, CDCInvariant, PTL

\* live is what the consumer holds once it has drained the channel (track).
THEOREM LiveTold == Spec => []LiveIsTold
<1>1. CDCInv => LiveIsTold
  BY DEF CDCInv
<1>. QED BY <1>1, CDCInvariant, PTL

-----------------------------------------------------------------------------
(* What is taken from a consumer.  A delete on the channel speaks of a name *)
(* that the oplog shows without an active document: because the event is    *)
(* one, because a lookup found one, or because a scan missed a name that was*)
(* live before.                                                             *)

Named(n) == \E i \in 1..Len(oplog) : Touches(i, n)
Gone(n) == \E i \in 1..Len(oplog) : Touches(i, n) /\ Active(oplog[i].doc) = None

StoreExplained ==
    \A n \in Names : /\ Named(n) /\ Active(coll[n]) = None => Gone(n)
                     /\ Active(coll[n]) # None => Named(n)
DeletesExplained == \A i \in 1..Len(changes) : changes[i].op = "delete" => Gone(changes[i].name)
ScanExplained ==
    pc \in {"scan", "sync"} =>
      /\ \A n \in toSend : Named(n)
      /\ \A n \in live : n \in toScan \/ docs[n] # None \/ Gone(n)

DropInv ==
    /\ StoreExplained
    /\ \A n \in live : Named(n)
    /\ DeletesExplained
    /\ ScanExplained

\* What the oplog shows depends on the oplog alone.
LEMMA ShownFrame ==
    ASSUME UNCHANGED oplog, NEW n
    PROVE  (Named(n)' <=> Named(n)) /\ (Gone(n)' <=> Gone(n))
BY DEF Named, Gone, Touches, Active

\* A write shows its image, and nothing that was shown is lost.
LEMMA LogExplains ==
    ASSUME CDCInv, DropInv,
           NEW op \in {"insert", "update", "delete", "drop", "noop"},
           NEW names \in SUBSET Names,
           NEW doc \in Document \union {Absent},
           Log(op, names, doc)
    PROVE  DropInv'
<1> DEFINE e == [op |-> op, names |-> names, doc |-> doc]
           L == Len(oplog)
<1>1. /\ oplog \in Seq(Entry) /\ e \in Entry /\ oplog' = Append(oplog, e)
      /\ L \in Nat /\ Len(oplog') = L + 1 /\ oplog'[L + 1] = e
      /\ \A i \in 1..L : oplog'[i] = oplog[i]
  BY DEF CDCInv, TypeOK, Log, Entry
<1>2. UNCHANGED <<changes, live, pc, toScan, toSend, docs>>
  BY DEF Log, scanVars
<1>3. ASSUME NEW n PROVE (Named(n) => Named(n)') /\ (Gone(n) => Gone(n)')
  BY <1>1 DEF Named, Gone, Touches, Active
<1>4. ASSUME NEW n \in Names, n \in names
      PROVE  Named(n)' /\ (Active(coll'[n]) = None => Gone(n)')
  <2>1. coll'[n] = doc /\ L + 1 \in 1..Len(oplog')
    BY <1>1, <1>4 DEF Log
  <2> QED
    BY <1>1, <1>4, <2>1 DEF Named, Gone, Touches, Active
<1>5. ASSUME NEW n \in Names, n \notin names
      PROVE  coll'[n] = coll[n] /\ (Named(n)' => Named(n))
  <2>1. coll'[n] = coll[n]
    BY <1>5 DEF Log
  <2>2. ASSUME NEW i \in 1..Len(oplog'), n \in oplog'[i].names PROVE Named(n)
    BY <1>1, <1>5, <2>2 DEF Named, Touches
  <2> QED
    BY <2>1, <2>2 DEF Named, Touches
<1>6. StoreExplained'
  BY <1>3, <1>4, <1>5 DEF DropInv, StoreExplained, Active
<1> QED
  BY <1>2, <1>3, <1>6 DEF DropInv, DeletesExplained, ScanExplained

\* A change that is sent is either no delete or explained.
LEMMA SendExplains ==
    ASSUME CDCInv, DropInv, UNCHANGED oplog, NEW c \in Change, Send(c),
           c.op = "delete" => Gone(c.name)
    PROVE  DeletesExplained'
<1>1. /\ changes' = Append(changes, c) /\ changes \in Seq(Change)
      /\ Len(changes') = Len(changes) + 1 /\ Len(changes) \in Nat
      /\ changes'[Len(changes) + 1] = c
      /\ \A i \in 1..Len(changes) : changes'[i] = changes[i]
  BY DEF Send, CDCInv, TypeOK
<1>2. ASSUME NEW i \in 1..Len(changes'), changes'[i].op = "delete" PROVE Gone(changes'[i].name)
  BY <1>1, <1>2 DEF DropInv, DeletesExplained
<1> QED
  BY <1>2 DEF DeletesExplained, Gone, Touches, Active

\* The frame of all steps that leave the store alone.
LEMMA StoreFrame ==
    ASSUME DropInv, UNCHANGED <<oplog, coll>> PROVE StoreExplained'
BY ShownFrame DEF DropInv, StoreExplained, Active

LEMMA ChannelFrame ==
    ASSUME DropInv, UNCHANGED <<oplog, changes>> PROVE DeletesExplained'
BY ShownFrame DEF DropInv, DeletesExplained

LEMMA ScanFrame ==
    ASSUME DropInv, UNCHANGED <<oplog, live, toScan, toSend, docs>>, pc' \in {"scan", "sync"} => pc' = pc
    PROVE  ScanExplained'
BY ShownFrame DEF DropInv, ScanExplained

\* Steps of Run that tell nothing.
LEMMA QuietExplains ==
    ASSUME CDCInv, DropInv, UNCHANGED <<oplog, coll, changes, live>>,
           \/ UNCHANGED <<toScan, toSend, docs>> /\ (pc' \in {"scan", "sync"} => pc' = pc)
           \/ toScan' = Names /\ toSend' = {}
    PROVE  DropInv'
<1>1. CASE UNCHANGED <<toScan, toSend, docs>> /\ (pc' \in {"scan", "sync"} => pc' = pc)
  BY <1>1, StoreFrame, ChannelFrame, ScanFrame, ShownFrame DEF DropInv
<1>2. CASE toScan' = Names /\ toSend' = {}
  <2>1. ScanExplained'
    BY <1>2 DEF ScanExplained, CDCInv, TypeOK
  <2> QED
    BY <2>1, StoreFrame, ChannelFrame, ShownFrame DEF DropInv
<1> QED
  BY <1>1, <1>2

LEMMA ScanExplains ==
    ASSUME CDCInv, DropInv, NEW n \in Names, ScanName(n) PROVE DropInv'
<1>1. /\ UNCHANGED <<oplog, coll, changes, live>> /\ pc = "scan" /\ toScan' = toScan \ {n}
      /\ docs' = [docs EXCEPT ![n] = Active(coll[n])]
      /\ toSend' = IF Active(coll[n]) = None THEN toSend ELSE toSend \union {n}
  BY DEF ScanName, dbVars
<1>2. /\ docs'[n] = Active(coll[n])
      /\ \A m \in Names : m # n => docs'[m] = docs[m]
  BY <1>1 DEF CDCInv, TypeOK
<1>3. /\ \A m \in toSend : Named(m)
      /\ \A m \in live : Named(m) /\ (m \in toScan \/ docs[m] # None \/ Gone(m))
      /\ live \subseteq Names
  BY <1>1 DEF CDCInv, TypeOK, DropInv, ScanExplained
<1>4. /\ Named(n) /\ Active(coll[n]) = None => Gone(n)
      /\ Active(coll[n]) # None => Named(n)
  BY DEF DropInv, StoreExplained
<1>5. \A m \in toSend' : Named(m)
  BY <1>1, <1>3, <1>4
<1>6. \A m \in live : m \in toScan' \/ docs'[m] # None \/ Gone(m)
  BY <1>1, <1>2, <1>3, <1>4
<1>7. ScanExplained'
  BY <1>1, <1>5, <1>6, ShownFrame DEF ScanExplained
<1> QED
  BY <1>1, <1>7, StoreFrame, ChannelFrame, ShownFrame DEF DropInv

\* The changes of a snapshot.
LEMMA SnapshotExplains ==
    ASSUME CDCInv, DropInv, NEW n \in Names, SendSnapshotUpsert(n) \/ SendSnapshotDelete(n)
    PROVE  DropInv'
<1>0. UNCHANGED <<oplog, coll, pc, toScan, docs>> /\ pc = "sync"
  BY DEF SendSnapshotUpsert, SendSnapshotDelete, dbVars, scanVars
<1>1. toScan = {} /\ live \subseteq Names /\ docs \in [Names -> Defs \union {None}]
  BY <1>0 DEF CDCInv, TypeOK, SnapshotCovers
<1>2. /\ \A m \in toSend : Named(m) /\ docs[m] # None
      /\ \A m \in live : Named(m) /\ (docs[m] # None \/ Gone(m))
  BY <1>0, <1>1 DEF CDCInv, SnapshotCovers, DropInv, ScanExplained
<1>3. CASE SendSnapshotUpsert(n)
  <2>1. n \in toSend /\ toSend' = toSend \ {n} /\ Send(Upsert(n, docs[n]))
    BY <1>3 DEF SendSnapshotUpsert
  <2>2. live' = live \union {n}
    BY <1>3 DEF SendSnapshotUpsert, track, Upsert
  <2>3. Upsert(n, docs[n]) \in Change /\ Upsert(n, docs[n]).op # "delete"
    BY <1>1, <1>2, <2>1 DEF Upsert, Change
  <2>4. DeletesExplained'
    BY <1>0, <2>1, <2>3, SendExplains
  <2>5. ScanExplained' /\ \A m \in live' : Named(m)'
    BY <1>0, <1>2, <2>1, <2>2, ShownFrame DEF ScanExplained
  <2> QED
    BY <1>0, <2>4, <2>5, StoreFrame DEF DropInv
<1>4. CASE SendSnapshotDelete(n)
  <2>1. n \in live /\ docs[n] = None /\ toSend' = toSend /\ Send(Delete(n))
    BY <1>4 DEF SendSnapshotDelete, staleNames, scanVars
  <2>2. live' = live \ {n}
    BY <1>4 DEF SendSnapshotDelete, track, Delete
  <2>3. Delete(n) \in Change /\ Delete(n).name = n
    BY DEF Delete, Change
  <2>4. DeletesExplained'
    BY <1>0, <1>2, <2>1, <2>3, SendExplains
  <2>5. ScanExplained' /\ \A m \in live' : Named(m)'
    BY <1>0, <1>2, <2>1, <2>2, ShownFrame DEF ScanExplained
  <2> QED
    BY <1>0, <2>4, <2>5, StoreFrame DEF DropInv
<1> QED
  BY <1>3, <1>4

\* An event, decoded with any document its lookup may have found.
LEMMA StreamExplains ==
    ASSUME CDCInv, DropInv, NEW n \in Names, StreamEvent(n) PROVE DropInv'
<1>1. /\ UNCHANGED <<oplog, coll>> /\ pc = "stream" /\ pc' = pc
      /\ cursor \in 1..Len(oplog) /\ Touches(cursor, n)
      /\ oplog[cursor].op \in {"insert", "update", "delete"}
      /\ oplog \in Seq(Entry) /\ Len(oplog) \in Nat
  BY DEF StreamEvent, AtEvent, dbVars, CDCInv, TypeOK
<1>2. ScanExplained'
  BY <1>1 DEF ScanExplained
<1>3. Named(n)
  BY <1>1 DEF Named
<1>4. PICK doc \in FullDocument(n) :
          IF doc = Absent /\ oplog[cursor].op # "delete"
            THEN UNCHANGED <<changes, live>>
            ELSE /\ Send(decodeEvent(n, doc))
                 /\ track(decodeEvent(n, doc))
  BY DEF StreamEvent
<1>5. PICK j \in 1..Len(oplog) : Touches(j, n) /\ doc = oplog[j].doc
  BY <1>1, <1>4 DEF FullDocument
<1>6. CASE UNCHANGED <<changes, live>>
  BY <1>1, <1>2, <1>6, StoreFrame, ChannelFrame, ShownFrame DEF DropInv
<1>7. CASE Send(decodeEvent(n, doc)) /\ track(decodeEvent(n, doc)) /\ ~(doc = Absent /\ oplog[cursor].op # "delete")
  <2>1. CASE oplog[cursor].op = "delete" \/ doc.deleted
    <3>1. decodeEvent(n, doc) = Delete(n)
      BY <2>1 DEF decodeEvent
    <3>2. Gone(n)
      <4>1. CASE oplog[cursor].op = "delete"
        BY <1>1, <4>1 DEF CDCInv, EntryOK, Gone, Active, Absent
      <4>2. CASE doc.deleted
        BY <1>5, <4>2 DEF Gone, Active
      <4> QED
        BY <2>1, <4>1, <4>2
    <3>3. Delete(n) \in Change /\ Delete(n).name = n /\ live' = live \ {n}
      BY <1>7, <3>1 DEF Delete, Change, track
    <3>4. DeletesExplained'
      BY <1>1, <1>7, <3>1, <3>2, <3>3, SendExplains
    <3> QED
      BY <1>1, <1>2, <3>3, <3>4, StoreFrame, ShownFrame DEF DropInv
  <2>2. CASE ~(oplog[cursor].op = "delete" \/ doc.deleted)
    <3>1. decodeEvent(n, doc) = Upsert(n, doc.def)
      BY <2>2 DEF decodeEvent
    <3>2. doc \in Document
      <4>1. doc # Absent
        BY <1>7, <2>2
      <4>2. oplog[j] \in Entry
        BY <1>1, <1>5
      <4> QED
        BY <1>5, <4>1, <4>2 DEF Entry
    <3>3. Upsert(n, doc.def) \in Change /\ Upsert(n, doc.def).op # "delete" /\ live' = live \union {n}
      BY <1>7, <3>1, <3>2 DEF Upsert, Change, track, Document
    <3>4. DeletesExplained'
      BY <1>1, <1>7, <3>1, <3>3, SendExplains
    <3> QED
      BY <1>1, <1>2, <1>3, <3>3, <3>4, StoreFrame, ShownFrame DEF DropInv
  <2> QED
    BY <2>1, <2>2
<1> QED
  BY <1>4, <1>6, <1>7


\* What the consumer applies is what the channel held.
LEMMA ConsumeExplains ==
    ASSUME CDCInv, DropInv, Consume
    PROVE  /\ DropInv'
           /\ \A n \in Names : applied[n] # None /\ applied'[n] = None => Gone(n)
<1> DEFINE c == Head(changes)
<1>1. /\ changes \in Seq(Change) /\ changes # <<>> /\ applied \in [Names -> Defs \union {None}]
      /\ UNCHANGED <<oplog, coll, live, pc, toScan, toSend, docs>>
      /\ applied' = IF c.op = "ready" THEN applied ELSE [applied EXCEPT ![c.name] = c.def]
  BY DEF Consume, CDCInv, TypeOK, dbVars, scanVars
<1>2. /\ Len(changes) \in Nat \ {0} /\ c = changes[1] /\ c \in Change
      /\ Len(changes') = Len(changes) - 1
      /\ \A i \in 1..Len(changes') : changes'[i] = changes[i + 1]
  BY <1>1 DEF Consume
<1>3. ASSUME NEW n \in Names, applied[n] # None, applied'[n] = None PROVE Gone(n)
  <2>1. c.op # "ready" /\ c.name = n /\ c.def = None
    BY <1>1, <1>3
  <2>2. c.op = "delete"
    BY <1>2, <2>1, CDCAssumption DEF Change, Ready
  <2> QED
    BY <1>2, <2>1, <2>2 DEF DropInv, DeletesExplained
<1>4. DeletesExplained'
  <2>1. ASSUME NEW i \in 1..Len(changes'), changes'[i].op = "delete" PROVE Gone(changes'[i].name)
    BY <1>2, <2>1 DEF DropInv, DeletesExplained
  <2> QED
    BY <1>1, <2>1 DEF DeletesExplained, Gone, Touches, Active
<1> QED
  BY <1>1, <1>3, <1>4, StoreFrame, ScanFrame, ShownFrame DEF DropInv

\* Every step keeps the deletes explained, and only a consumer's step or a
\* restart takes anything from the consumer.
LEMMA NextExplains ==
    ASSUME CDCInv, DropInv, [Next]_vars
    PROVE  /\ DropInv'
           /\ \A n \in Names : applied[n] # None /\ applied'[n] = None /\ ~Restart => Gone(n)
<1>1. ASSUME NEW n \in Names, NEW d \in Defs, StoreUpsert(n, d) PROVE DropInv' /\ UNCHANGED applied
  <2>1. [def |-> d, deleted |-> FALSE] \in Document
    BY DEF Document
  <2>2. PICK op \in {"insert", "update"} : Log(op, {n}, [def |-> d, deleted |-> FALSE])
    BY <1>1 DEF StoreUpsert
  <2> QED
    BY <2>1, <2>2, LogExplains DEF Log, consVars
<1>2. ASSUME NEW n \in Names, SoftDelete(n) PROVE DropInv' /\ UNCHANGED applied
  <2>1. coll[n] \in Document \union {Absent} /\ coll[n] # Absent
    BY <1>2 DEF SoftDelete, CDCInv, TypeOK, Active, Absent
  <2>2. [coll[n] EXCEPT !.deleted = TRUE] \in Document
    BY <2>1 DEF Document
  <2> QED
    BY <1>2, <2>2, LogExplains DEF SoftDelete, Log, consVars
<1>3. ASSUME NEW n \in Names, HardDelete(n) PROVE DropInv' /\ UNCHANGED applied
  BY <1>3, LogExplains DEF HardDelete, Log, consVars
<1>4. CASE DropCollection \/ NoopWrite
  BY <1>4, LogExplains DEF DropCollection, NoopWrite, Log, consVars
<1>5. CASE TruncateOplog \/ Cancel \/ UNCHANGED vars
  BY <1>5, QuietExplains DEF TruncateOplog, Cancel, vars, dbVars, scanVars, consVars
<1>6. CASE Run \/ ResumeLost
  BY <1>6, QuietExplains DEF Run, ResumeLost, BeginRunOnce, Return, dbVars, scanVars, consVars
<1>7. CASE FinishSnapshot \/ Watch \/ StreamForeign
  BY <1>7, QuietExplains DEF FinishSnapshot, Watch, StreamForeign, dbVars, scanVars, consVars
<1>8. CASE Invalidated \/ TransientError \/ SeeCancelled
  BY <1>8, QuietExplains DEF Invalidated, TransientError, SeeCancelled, Return, dbVars, scanVars, consVars
<1>9. ASSUME NEW n \in Names, ScanName(n) \/ SendSnapshotUpsert(n) \/ SendSnapshotDelete(n) \/ StreamEvent(n)
      PROVE  DropInv' /\ UNCHANGED applied
  <2>1. DropInv'
    BY <1>9, ScanExplains, SnapshotExplains, StreamExplains
  <2> QED
    BY <1>9, <2>1 DEF ScanName, SendSnapshotUpsert, SendSnapshotDelete, StreamEvent, consVars
<1>10. CASE SendReady
  <2>1. /\ UNCHANGED <<oplog, coll, live, toScan, toSend, docs, applied>> /\ pc' = "stream"
        /\ Send(Ready)
    BY <1>10 DEF SendReady, dbVars, scanVars, consVars
  <2>2. Ready \in Change /\ Ready.op # "delete"
    BY DEF Ready, Change
  <2>3. DeletesExplained'
    BY <2>1, <2>2, SendExplains
  <2> QED
    BY <2>1, <2>3, StoreFrame, ScanFrame, ShownFrame DEF DropInv
<1>11. CASE Restart
  <2>1. UNCHANGED <<oplog, coll>> /\ live' = {} /\ changes' = <<>> /\ pc' = "idle"
    BY <1>11 DEF Restart, Return, dbVars
  <2>2. DeletesExplained' /\ ScanExplained'
    BY <2>1 DEF DeletesExplained, ScanExplained
  <2> QED
    BY <1>11, <2>1, <2>2, StoreFrame DEF DropInv
<1>12. CASE Consume
  BY <1>12, ConsumeExplains
<1> QED
  BY <1>1, <1>2, <1>3, <1>4, <1>5, <1>6, <1>7, <1>8, <1>9, <1>10, <1>11, <1>12
     DEF Next, Store, CDC, Environment

\* For every set of names and definitions, channel capacity and number of
\* writes and faults, a filter that was never deleted is never taken from a
\* consumer that holds it (snapshot, staleNames, decodeEvent).
THEOREM NeverDropped == Spec => NeverDeletedNeverDropped
<1>1. Init => DropInv
  BY DEF Init, DropInv, StoreExplained, DeletesExplained, ScanExplained, Named, Touches, Active, Absent
<1>2. CDCInv /\ DropInv /\ [Next]_vars => DropInv'
  BY NextExplains
<1>3. CDCInv /\ DropInv /\ [Next]_vars =>
        [\A n \in Names :
          applied[n] # None /\ applied'[n] = None /\ ~Restart =>
             \E i \in DOMAIN oplog : Touches(i, n) /\ Active(oplog[i].doc) = None]_vars
  <2> SUFFICES ASSUME CDCInv, DropInv, [Next]_vars, NEW n \in Names,
                      applied[n] # None, applied'[n] = None, ~Restart
               PROVE  \E i \in DOMAIN oplog : Touches(i, n) /\ Active(oplog[i].doc) = None
    OBVIOUS
  <2>1. Gone(n)
    BY NextExplains
  <2>2. DOMAIN oplog = 1..Len(oplog)
    BY DEF CDCInv, TypeOK
  <2> QED
    BY <2>1, <2>2 DEF Gone
<1> QED
  BY <1>1, <1>2, <1>3, CDCInvariant, PTL DEF Spec, NeverDeletedNeverDropped

=============================================================================
