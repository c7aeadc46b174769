--------------------------- MODULE TaskScheduler ----------------------------
(***************************************************************************)
(* The tasks service: a scheduler that is made by Start and thrown away by *)
(* Stop.  Its other calls fetch the scheduler under the mutex and use it   *)
(* after giving the mutex back.                                            *)
(***************************************************************************)
EXTENDS Naturals, Sequences

CONSTANTS TaskUsers,        \* goroutines that use the service
          TaskIDs,          \* names of tasks
          MaxSchedulers     \* how often the service is started

VARIABLES current,          \* the service's scheduler, 0 for none
          scheduled,        \* per scheduler: the tasks it holds
          raced,            \* history: schedulers stopped while a call was about to use them
          tuser             \* per user: the scheduler it fetched, its operation
taskVars == <<current, scheduled, raced, tuser>>

IdleUser == [op |-> "idle", sch |-> 0, id |-> "none", err |-> "none"]

TaskInit ==
    /\ current = 0
    /\ scheduled = <<>>
    /\ raced = {}
    /\ tuser = [u \in TaskUsers |-> IdleUser]

Start ==
    /\ Len(scheduled) < MaxSchedulers
    /\ IF current # 0 THEN UNCHANGED <<current, scheduled>>
       ELSE current' = Len(scheduled) + 1 /\ scheduled' = Append(scheduled, {})
    /\ UNCHANGED <<raced, tuser>>

\* Mutant: the scheduler is forgotten before its tasks are.
StopForgets ==
    /\ current # 0
    /\ current' = 0
    /\ UNCHANGED <<scheduled, raced, tuser>>

\* madflojo's Stop deletes every task.
Stop ==
    /\ current # 0
    /\ scheduled' = [scheduled EXCEPT ![current] = {}]
    /\ raced' = raced \union {s \in {current} : \E u \in TaskUsers : tuser[u].sch = s}
    /\ current' = 0
    /\ UNCHANGED tuser

\* Each operation first fetches the scheduler.  Without one, Add, AddWithID
\* and Lookup report it, Del does nothing and Tasks is empty.
Fetch(u, op, id) ==
    /\ tuser[u].op = "idle"
    /\ tuser' = [tuser EXCEPT ![u] =
                   IF current # 0 THEN [op |-> op, sch |-> current, id |-> id, err |-> "none"]
                   ELSE [IdleUser EXCEPT !.err = IF op \in {"Add", "AddWithID", "Lookup"}
                                                 THEN "ErrNotStarted" ELSE "none"]]
    /\ UNCHANGED <<current, scheduled, raced>>

Finish(u, err) == tuser' = [tuser EXCEPT ![u] = [IdleUser EXCEPT !.err = err]]

\* The library refuses a name it has.
AddWithID(u) ==
    LET t == tuser[u]
    IN  /\ t.op \in {"Add", "AddWithID"}
        /\ scheduled' = [scheduled EXCEPT ![t.sch] = @ \union {t.id}]
        /\ Finish(u, IF t.op = "AddWithID" /\ t.id \in scheduled[t.sch] THEN "ErrIDInUse" ELSE "none")
        /\ UNCHANGED <<current, raced>>

Del(u) ==
    /\ tuser[u].op = "Del"
    /\ scheduled' = [scheduled EXCEPT ![tuser[u].sch] = @ \ {tuser[u].id}]
    /\ Finish(u, "none")
    /\ UNCHANGED <<current, raced>>

Lookup(u) ==
    /\ tuser[u].op \in {"Lookup", "Tasks"}
    /\ Finish(u, IF tuser[u].op = "Lookup" /\ tuser[u].id \notin scheduled[tuser[u].sch]
                 THEN "not found" ELSE "none")
    /\ UNCHANGED <<current, scheduled, raced>>

TaskNext ==
    \/ Start \/ Stop
    \/ \E u \in TaskUsers :
         \/ \E op \in {"Add", "AddWithID", "Del", "Lookup", "Tasks"}, id \in TaskIDs : Fetch(u, op, id)
         \/ AddWithID(u) \/ Del(u) \/ Lookup(u)

TaskSpec == TaskInit /\ [][TaskNext]_taskVars

\* A task runs on the service's scheduler, where it can be looked up and
\* deleted.  The one way past that is a call that fetched the scheduler before
\* a Stop and uses it afterwards.
NoStrayTask == \A i \in DOMAIN scheduled : scheduled[i] # {} => i = current \/ i \in raced
=============================================================================
