---------------------------- MODULE ChangeCursor ----------------------------
(***************************************************************************)
(* How a panel learns that the data changed: the variable LastUpdate, the  *)
(* writers that set it after a commit (SaveWithApply, saveConfigWithApply, *)
(* saveEndpointWithApply, DepleteClients) and the poll that compares it    *)
(* with the cursor of the panel (getData of src/api/apiService.go,         *)
(* CheckChanges of src/service/config.go).  Time is in whole seconds.      *)
(***************************************************************************)
EXTENDS Integers

CONSTANTS Savers,      \* requests; configSaveMu lets one at a time write
          Depleters,   \* runs of the deplete job, which do not take it
          Endpoint,    \* savers of endpoints: they stamp after the commit
          MaxTime,     \* bound of the clock
          MaxWrites,   \* bound: commits
          Warm,        \* TRUE: LastUpdate was set since the process started
          Overlap      \* FALSE: only a save of an endpoint overlaps a poll

ASSUME CursorAssumption ==
    /\ Savers \cap Depleters = {} /\ Endpoint \subseteq Savers
    /\ MaxTime \in Nat /\ MaxWrites \in Nat
    /\ Warm \in BOOLEAN /\ Overlap \in BOOLEAN

Writers == Savers \cup Depleters

VARIABLES
    now,         \* time.Now().Unix()
    lastUpdate,  \* LastUpdate
    version,     \* the number of commits: stands for the data
    maxDate,     \* MAX(date_time) of the changes table
    pc, dt,      \* control point and local variable of each writer
    poll,        \* control point of the poll
    next,        \* the cursor this poll will return
    loaded,      \* what CheckChanges works with
    cursor,      \* the cursor the panel sends, the one it got last
    view         \* the data the panel shows

vars == <<now, lastUpdate, version, maxDate, pc, dt, poll, next, loaded, cursor, view>>

WritersIdle == \A w \in Writers : pc[w] = "idle"

\* The environment of a passing run: a write overlaps a poll only if it takes
\* its time after the commit, and LastUpdate has been loaded.
MayOverlap(w) == Overlap \/ (w \in Endpoint /\ lastUpdate # 0)

Start == 1      \* the change that is in the table already

-----------------------------------------------------------------------------
(* Writers *)

\* dt is taken before the rows are written, the core restarted and the
\* transaction committed.
Stamp(w) ==
    /\ pc[w] = "idle" /\ version < MaxWrites
    /\ MayOverlap(w) \/ poll = "idle"
    /\ \A u \in Writers : MayOverlap(u) \/ pc[u] = "idle"
    /\ w \in Savers => \A u \in Savers : pc[u] = "idle"
    /\ pc' = [pc EXCEPT ![w] = "commit"]
    /\ dt' = [dt EXCEPT ![w] = now]
    /\ UNCHANGED <<now, lastUpdate, version, maxDate, poll, next, loaded, cursor, view>>

\* A periodic reset of clients writes no row of the changes table.
Commit(w) ==
    /\ pc[w] = "commit"
    /\ version' = version + 1
    /\ \/ maxDate' = IF dt[w] > maxDate THEN dt[w] ELSE maxDate
       \/ w \in Depleters /\ UNCHANGED maxDate
    /\ pc' = [pc EXCEPT ![w] = "store"]
    /\ UNCHANGED <<now, lastUpdate, dt, poll, next, loaded, cursor, view>>

Store(w) ==
    /\ pc[w] = "store"
    /\ lastUpdate' = IF w \in Endpoint THEN now ELSE dt[w]
    /\ pc' = [pc EXCEPT ![w] = "idle"]
    /\ dt' = [dt EXCEPT ![w] = 0]
    /\ UNCHANGED <<now, version, maxDate, poll, next, loaded, cursor, view>>

-----------------------------------------------------------------------------
(* The poll *)

\* Mutant: the cursor is not one second behind.
PollNow ==
    /\ poll = "idle" /\ \A w \in Writers : MayOverlap(w) \/ pc[w] = "idle"
    /\ next' = now
    /\ poll' = "load"
    /\ UNCHANGED <<now, lastUpdate, version, maxDate, pc, dt, loaded, cursor, view>>

Poll ==
    /\ poll = "idle" /\ \A w \in Writers : MayOverlap(w) \/ pc[w] = "idle"
    /\ next' = now - 1
    /\ poll' = "load"
    /\ UNCHANGED <<now, lastUpdate, version, maxDate, pc, dt, loaded, cursor, view>>

Load ==
    /\ poll = "load"
    /\ loaded' = lastUpdate
    /\ poll' = IF lastUpdate = 0 THEN "query" ELSE "decide"
    /\ UNCHANGED <<now, lastUpdate, version, maxDate, pc, dt, next, cursor, view>>

Query ==
    /\ poll = "query"
    /\ loaded' = maxDate
    /\ poll' = IF maxDate > 0 THEN "keep" ELSE "decide"
    /\ UNCHANGED <<now, lastUpdate, version, maxDate, pc, dt, next, cursor, view>>

Keep ==
    /\ poll = "keep"
    /\ lastUpdate' = loaded
    /\ poll' = "decide"
    /\ UNCHANGED <<now, version, maxDate, pc, dt, next, loaded, cursor, view>>

\* The answer: with the data or without, and with the next cursor.
Decide ==
    /\ poll = "decide"
    /\ view' = IF loaded > cursor THEN version ELSE view
    /\ cursor' = next
    /\ loaded' = 0 /\ next' = 0
    /\ poll' = "idle"
    /\ UNCHANGED <<now, lastUpdate, version, maxDate, pc, dt>>

Tick ==
    /\ now < MaxTime
    /\ now' = now + 1
    /\ UNCHANGED <<lastUpdate, version, maxDate, pc, dt, poll, next, loaded, cursor, view>>

\* The panel has just loaded the data for the first time, with an empty lu.
Init ==
    /\ now = Start + 1
    /\ lastUpdate = IF Warm THEN Start ELSE 0
    /\ version = 0 /\ maxDate = Start
    /\ pc = [w \in Writers |-> "idle"]
    /\ dt = [w \in Writers |-> 0]
    /\ poll = "idle" /\ next = 0 /\ loaded = 0
    /\ cursor = now - 1 /\ view = 0

PollStep == Load \/ Query \/ Keep \/ Decide

Next ==
    \/ \E w \in Writers : Stamp(w) \/ Commit(w) \/ Store(w)
    \/ Poll \/ PollStep
    \/ Tick

Spec == Init /\ [][Next]_vars

-----------------------------------------------------------------------------
(* Properties *)

\* What the comment in getData promises ("updates written during this request
\* are observed by the next poll"): when neither a poll nor a write is under
\* way, a panel that shows old data holds a cursor that the next poll finds
\* to be behind.
NoMissedUpdate ==
    poll = "idle" /\ WritersIdle /\ view # version =>
        (IF lastUpdate = 0 THEN maxDate ELSE lastUpdate) > cursor

=============================================================================
