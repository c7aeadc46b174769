---------------------------- MODULE MemoryCache ----------------------------
(***************************************************************************)
(* services/common/cache/inmemory.go: the in-memory cache (one key of it)  *)
(* and its concurrent callers.  ttlcache is external: a map of items and   *)
(* an expiry queue that a cleaner works off late.  Setting a key whose     *)
(* item has expired but is still in the map builds a new item and leaves   *)
(* the old one in the queue, and the cleaner later evicts it BY KEY; the   *)
(* service clears such an item before it sets (dropExpired), with a Get    *)
(* and a Remove of their own.  GetOrInsertE runs its adder in a            *)
(* singleflight group.                                                     *)
(***************************************************************************)
EXTENDS Integers

CONSTANTS
  Callers,    \* concurrent users of the cache; a value is known by its writer
  MaxTTL,     \* the longest time to live
  None        \* no item, no flight

ASSUME MaxTTLAssumption == MaxTTL \in Nat \ {0}
ASSUME NoneAssumption == None \notin Callers

VARIABLES
  item,     \* the key's item in ttlcache's map, or None
  orphan,   \* an expired item of this key is in the expiry queue, not the map
  flight,   \* the caller that leads the key's singleflight call, or None
  pc,       \* where each caller is
  ttl,      \* the time to live a caller is about to set
  result    \* what a caller's last GetOrInsertE returned

vars == <<item, orphan, flight, pc, ttl, result>>

Items == [val : Callers, left : 0..MaxTTL, ttl : 1..MaxTTL, age : 0..MaxTTL]

\* ttlcache answers with an item only before its expiry.
Live == item # None /\ item.left > 0

\* A caller that is setting, in a flight of its own or not.
SetPcs == {"dropget", "dropremove", "put"}

CacheOK ==
  /\ item \in Items \cup {None}
  /\ orphan \in BOOLEAN
  /\ flight \in Callers \cup {None}
  /\ pc \in [Callers -> {"idle", "look", "join", "recheck", "adding", "wait"}
                        \cup SetPcs]
  /\ ttl \in [Callers -> 1..MaxTTL]
  /\ result \in [Callers -> Callers \cup {None}]

Init ==
  /\ item = None
  /\ orphan = FALSE
  /\ flight = None
  /\ pc = [c \in Callers |-> "idle"]
  /\ ttl = [c \in Callers |-> MaxTTL]
  /\ result = [c \in Callers |-> None]

Goto(c, p) == pc' = [pc EXCEPT ![c] = p]

\* The leader's function returns: whoever waits gets its result.
Land(v) ==
  /\ flight' = None
  /\ pc' = [d \in Callers |-> IF pc[d] = "wait" \/ d = flight THEN "idle" ELSE pc[d]]
  /\ result' = [d \in Callers |-> IF pc[d] = "wait" \/ d = flight THEN v ELSE result[d]]

(***************************************************************************)
(* Set, SetWithTTL.                                                        *)
(***************************************************************************)
SetWithTTL(c, t) ==
  /\ pc[c] = "idle"
  /\ ttl' = [ttl EXCEPT ![c] = t]
  /\ Goto(c, "dropget")
  /\ UNCHANGED <<item, orphan, flight, result>>

\* dropExpired: Get ...
DropGet(c) ==
  /\ pc[c] = "dropget"
  /\ Goto(c, IF Live THEN "put" ELSE "dropremove")
  /\ UNCHANGED <<item, orphan, flight, ttl, result>>

\* ... and Remove, if Get found nothing.
DropRemove(c) ==
  /\ pc[c] = "dropremove"
  /\ item' = None
  /\ Goto(c, "put")
  /\ UNCHANGED <<orphan, flight, ttl, result>>

\* ttlcache's Set: it updates a live item, and builds a new one over an
\* expired one, which stays in the queue.
Put(c) ==
  /\ pc[c] = "put"
  /\ item' = [val |-> c, left |-> ttl[c], ttl |-> ttl[c], age |-> 0]
  /\ orphan' = (orphan \/ (item # None /\ ~Live))
  /\ UNCHANGED ttl
  /\ IF flight = c THEN Land(c) ELSE Goto(c, "idle") /\ UNCHANGED <<flight, result>>

(***************************************************************************)
(* GetOrInsertE.                                                           *)
(***************************************************************************)
GetOrInsertE(c) ==
  /\ pc[c] = "idle"
  /\ Goto(c, "look")
  /\ result' = [result EXCEPT ![c] = None]
  /\ UNCHANGED <<item, orphan, flight, ttl>>

\* The first Get.
Look(c) ==
  /\ pc[c] = "look"
  /\ IF Live
     THEN result' = [result EXCEPT ![c] = item.val] /\ Goto(c, "idle")
     ELSE Goto(c, "join") /\ UNCHANGED result
  /\ UNCHANGED <<item, orphan, flight, ttl>>

\* inflight.Do: lead, or wait for the one that does.
Join(c) ==
  /\ pc[c] = "join"
  /\ IF flight = None THEN flight' = c /\ Goto(c, "recheck")
                      ELSE Goto(c, "wait") /\ UNCHANGED flight
  /\ UNCHANGED <<item, orphan, ttl, result>>

\* Mutant: no second look, a caller that missed before the last flight landed
\* runs the adder again.
RecheckSkipped(c) ==
  /\ pc[c] = "recheck"
  /\ Goto(c, "adding")
  /\ UNCHANGED <<item, orphan, flight, ttl, result>>

\* The second Get, inside the flight; on a miss the adder is called.
Recheck(c) ==
  /\ pc[c] = "recheck"
  /\ IF Live THEN Land(item.val) ELSE Goto(c, "adding") /\ UNCHANGED <<flight, result>>
  /\ UNCHANGED <<item, orphan, ttl>>

Adder(c, t) ==
  /\ pc[c] = "adding"
  /\ ttl' = [ttl EXCEPT ![c] = t]
  /\ Goto(c, "dropget")
  /\ UNCHANGED <<item, orphan, flight, result>>

\* Mutant: an adder that fails leaves the flight open.
AdderFailsKeepsFlight(c) ==
  /\ pc[c] = "adding"
  /\ Goto(c, "idle")
  /\ UNCHANGED <<item, orphan, flight, ttl, result>>

AdderFails(c) ==
  /\ pc[c] = "adding"
  /\ Land(None)
  /\ UNCHANGED <<item, orphan, ttl>>

(***************************************************************************)
(* Remove, Purge; time and ttlcache's cleaner.                             *)
(***************************************************************************)
Remove(c) ==
  /\ pc[c] = "idle"
  /\ item # None
  /\ item' = None
  /\ UNCHANGED <<orphan, flight, pc, ttl, result>>

Purge(c) ==
  /\ pc[c] = "idle"
  /\ item' = None
  /\ orphan' = FALSE
  /\ UNCHANGED <<flight, pc, ttl, result>>

Tick ==
  /\ Live
  /\ item' = [item EXCEPT !.left = @ - 1, !.age = @ + 1]
  /\ UNCHANGED <<orphan, flight, pc, ttl, result>>

\* The cleaner takes one expired item off the queue, at any later time.
Clean ==
  /\ \/ item # None /\ ~Live /\ UNCHANGED orphan
     \/ orphan /\ orphan' = FALSE
  /\ item' = None
  /\ UNCHANGED <<flight, pc, ttl, result>>

Next ==
  \/ \E c \in Callers :
       \/ \E t \in 1..MaxTTL : SetWithTTL(c, t) \/ Adder(c, t)
       \/ DropGet(c) \/ DropRemove(c) \/ Put(c)
       \/ GetOrInsertE(c) \/ Look(c) \/ Join(c) \/ Recheck(c) \/ AdderFails(c)
       \/ Remove(c) \/ Purge(c)
  \/ Tick
  \/ Clean

Spec == Init /\ [][Next]_vars

\* Each goroutine runs on, and adders return.
Progress(c) ==
  \/ DropGet(c) \/ DropRemove(c) \/ Put(c) \/ Look(c) \/ Join(c)
  \/ Recheck(c) \/ AdderFails(c) \/ \E t \in 1..MaxTTL : Adder(c, t)

FairSpec == Spec /\ \A c \in Callers : WF_vars(Progress(c))

(***************************************************************************)
(* Properties.                                                             *)
(***************************************************************************)
InFlight == {"recheck", "adding"}

\* One flight per key: whoever checks again or runs the adder leads it, and
\* nobody waits for a flight that has landed ("runs the adder once for
\* concurrent misses on the same key").
FlightInv ==
  /\ CacheOK
  /\ \A c \in Callers : pc[c] \in InFlight => flight = c
  /\ flight # None => pc[flight] \in InFlight \cup SetPcs
  /\ (\E c \in Callers : pc[c] = "wait") => flight # None

\* An entry expires its TTL after it was set, however often it is read: TTLs
\* are absolute (NewMemoryCache).
AbsoluteTTL == item # None => item.left + item.age = item.ttl

\* The adder is only called while the key has no live entry, also by a caller
\* whose first look was a miss long ago ("Another caller may have filled k
\* while we waited to get in").
AdderRunsOnAMiss ==
  [][\A c \in Callers : (pc[c] # "adding" /\ pc'[c] = "adding") => ~Live]_vars

\* Every GetOrInsertE returns, the ones behind a failing adder too.
CallsReturn == \A c \in Callers : []<>(pc[c] = "idle")

\* A live entry leaves the cache only by Remove, by Purge or to make room for
\* the value that replaces it: the cleaner never takes it, it survives its own
\* TTL ("a 10ms-old entry with a 40ms TTL must still be there").
EntryLivesItsTTL ==
  [][(Live /\ item' = None) =>
        \E c \in Callers : Remove(c) \/ Purge(c) \/ DropRemove(c)]_vars
=============================================================================
