---------------------------- MODULE CoreRuntime ----------------------------
(***************************************************************************)
(* The life of the embedded sing-box core and the saving of configuration  *)
(* (src/core/main.go, src/service/config.go, src/core/endpoint.go).        *)
(*                                                                         *)
(* Goroutines: the "@every 5s" check jobs of the cron (Checkers, running   *)
(* StartCore), the handlers of the restartSb request (Restarters, running  *)
(* RestartCore), the main goroutine (Main: App.Start, and App.Stop then    *)
(* App.Start on SIGHUP) and the one request that holds configSaveMu        *)
(* (Saver: SaveWithApply and the two functions it delegates to).           *)
(*                                                                         *)
(* A configuration maps every object to the version of it, or to Absent.   *)
(* Hot objects (clients, TLS, inbounds, outbounds, services) are removed   *)
(* from and added to the running box; cold ones (the base config and the   *)
(* endpoints) reach it only through a restart of the box.                  *)
(***************************************************************************)
EXTENDS FiniteSets

CONSTANTS Checkers, Restarters, Main, Saver,
          HotObjects, ColdObjects, Versions, Absent,
          Boxes,      \* identities of the boxes that exist at one time
          NoBox,      \* the nil *Box
          ApplyFlags, \* the values of apply that requests send
          Overlap,    \* FALSE: an operation begins only when none is under way
          Kills       \* TRUE: the process may be killed, and is started again

Threads == Checkers \cup Restarters \cup {Main, Saver}
Objects == HotObjects \cup ColdObjects
Configs == [Objects -> Versions \cup {Absent}]

ASSUME ThreadsAssumption ==
    /\ Checkers \cap Restarters = {}
    /\ Main # Saver
    /\ {Main, Saver} \cap (Checkers \cup Restarters) = {}

ASSUME ValuesAssumption ==
    /\ HotObjects \cap ColdObjects = {}
    /\ Versions # {}
    /\ Absent \notin Versions
    /\ NoBox \notin Boxes
    /\ ApplyFlags \subseteq BOOLEAN
    /\ Overlap \in BOOLEAN
    /\ Kills \in BOOLEAN

VARIABLES
    running,     \* Core.isRunning
    instance,    \* Core.instance
    manager,     \* the box the package-level inbound_manager, ... belong to
    boxes,       \* of each box: whether it is open, and its configuration
    inProgress,  \* startCoreInProgress
    cooling,     \* lastStartFailTime is less than startCooldown ago
    services,    \* what App.Start has started: the cron, the web server
    db,          \* the committed configuration
    leaked,      \* a transaction was left open: it holds SQLite's write lock
    skipped,     \* history: a save with apply = false that no configuration
                 \* read for a start has taken up yet
    pc, op,      \* control point and running operation of each thread
    cfg,         \* the configuration a thread passes to Core.Start
    ref,         \* the receiver of the Box method a thread is in
    failed,      \* the threads that leave the region with an error
    save         \* the locals of the Saver

core == <<running, instance, manager, boxes>>
flags == <<inProgress, cooling, services>>
store == <<db, leaked, skipped>>
vars == <<core, flags, store, pc, op, cfg, ref, failed, save>>

BoxStates == {"closed", "built", "live"}
StartPcs == {"new", "boot", "booting", "bootfail", "publish"}
StopPcs == {"stop", "close", "closing", "clear"}
SavePcs == {"hot_check", "hot", "commit", "undo", "validate", "restore"}
Pcs == {"idle", "app", "sc_check", "sc_lock", "sc_config", "rr_lock", "rr_check",
        "rr_verify", "release"} \cup StartPcs \cup StopPcs \cup SavePcs
Ops == {"none", "StartCore", "RestartCore", "Apply", "Restore", "Halt"}
Saves == [staged : Configs, old : Configs, was : BOOLEAN, apply : BOOLEAN,
          cold : BOOLEAN, todo : SUBSET HotObjects]

\* Each goroutine is between the two sections of startCoreMu: it has set
\* startCoreInProgress and has not cleared it yet.
InRegion(t) ==
    \/ pc[t] \in StartPcs \cup {"sc_config", "rr_check", "rr_verify", "release"}
    \/ pc[t] \in StopPcs /\ op[t] \in {"Apply", "Restore"}

AllIdle == \A t \in Threads : pc[t] = "idle"

\* The check jobs are run by the cron, the requests by the web server.
CanBegin(t) ==
    /\ pc[t] = "idle" /\ (Overlap \/ AllIdle)
    /\ t \in Checkers => "cron" \in services
    /\ t \in Restarters \cup {Saver} => "web" \in services

Live == {b \in Boxes : boxes[b].st = "live"}

\* Values of what is out of scope: a box that is closed, a local variable.
NoConfig == [o \in Objects |-> Absent]
Closed == [st |-> "closed", cfg |-> NoConfig]
NoSave == [staged |-> NoConfig, old |-> NoConfig, was |-> FALSE,
           apply |-> FALSE, cold |-> FALSE, todo |-> {}]

Goto(t, l) == pc' = [pc EXCEPT ![t] = l]

\* The operation of a thread is over.
Done(t) ==
    /\ Goto(t, "idle")
    /\ op' = [op EXCEPT ![t] = "none"]
    /\ save' = IF t = Saver THEN NoSave ELSE save

-----------------------------------------------------------------------------
(* A nil *Box is dereferenced.  The panic ends the process when nothing     *)
(* recovers it (cron and main goroutines); gin recovers it in a handler,    *)
(* after the deferred functions ran: the flag is cleared, and a transaction *)
(* of saveConfigWithApply or saveEndpointWithApply stays open.              *)

ProcessStart ==
    /\ running' = FALSE /\ instance' = NoBox /\ manager' = NoBox
    /\ boxes' = [b \in Boxes |-> Closed]
    /\ inProgress' = FALSE /\ cooling' = FALSE /\ services' = {}
    /\ leaked' = FALSE
    /\ pc' = [t \in Threads |-> IF t = Main THEN "app" ELSE "idle"]
    /\ op' = [t \in Threads |-> IF t = Main THEN "StartCore" ELSE "none"]
    /\ ref' = [t \in Threads |-> NoBox]
    /\ failed' = {}
    /\ cfg' = [t \in Threads |-> NoConfig]
    /\ save' = NoSave
    /\ UNCHANGED <<db, skipped>>

\* Mutant: the flag is cleared by a plain statement, not by a deferred one.
HandlerPanicKeepsFlag(t) ==
    /\ Done(t)
    /\ ref' = [ref EXCEPT ![t] = NoBox]
    /\ leaked' = (leaked \/ (op[t] = "Apply" /\ save.cold))
    /\ UNCHANGED <<core, flags, db, skipped, cfg, failed>>

HandlerPanic(t) ==
    /\ Done(t)
    /\ ref' = [ref EXCEPT ![t] = NoBox]
    /\ inProgress' = (inProgress /\ ~InRegion(t))
    /\ leaked' = (leaked \/ (op[t] = "Apply" /\ save.cold))
    /\ UNCHANGED <<core, cooling, services, db, skipped, cfg, failed>>

Panic(t) ==
    IF t \in Checkers \cup {Main} THEN ProcessStart ELSE HandlerPanic(t)

Kill == Kills /\ ProcessStart

-----------------------------------------------------------------------------
(* ConfigService.StartCore *)

CheckCore(t) ==
    /\ t \in Checkers /\ CanBegin(t)
    /\ Goto(t, "sc_check")
    /\ op' = [op EXCEPT ![t] = "StartCore"]
    /\ UNCHANGED <<core, flags, store, cfg, ref, failed, save>>

StartCoreCheck(t) ==
    /\ pc[t] = "sc_check"
    /\ IF running THEN Done(t) ELSE Goto(t, "sc_lock") /\ UNCHANGED <<op, save>>
    /\ UNCHANGED <<core, flags, store, cfg, ref, failed>>

\* Mutant: StartCore does not look at startCoreInProgress.
StartCoreLockUnchecked(t) ==
    /\ pc[t] = "sc_lock"
    /\ IF cooling
       THEN Done(t) /\ UNCHANGED inProgress
       ELSE /\ Goto(t, "sc_config")
            /\ inProgress' = TRUE
            /\ UNCHANGED <<op, save>>
    /\ UNCHANGED <<core, cooling, services, store, cfg, ref, failed>>

StartCoreLock(t) ==
    /\ pc[t] = "sc_lock"
    /\ IF inProgress \/ cooling
       THEN Done(t) /\ UNCHANGED inProgress
       ELSE /\ Goto(t, "sc_config")
            /\ inProgress' = TRUE
            /\ UNCHANGED <<op, save>>
    /\ UNCHANGED <<core, cooling, services, store, cfg, ref, failed>>

StartCoreConfig(t) ==
    /\ pc[t] = "sc_config"
    /\ \/ /\ Goto(t, "new")
          /\ cfg' = [cfg EXCEPT ![t] = db]
          /\ skipped' = FALSE
          /\ UNCHANGED failed
       \/ /\ Goto(t, "release")          \* GetConfig fails
          /\ failed' = failed \cup {t}
          /\ UNCHANGED <<cfg, skipped>>
    /\ UNCHANGED <<core, flags, db, leaked, op, ref, save>>

CoolDown ==
    /\ cooling
    /\ cooling' = FALSE
    /\ UNCHANGED <<core, inProgress, services, store, pc, op, cfg, ref, failed, save>>

-----------------------------------------------------------------------------
(* Core.Start: parse, NewBox, Box.Start, publish the managers.             *)

\* Boxes nothing refers to; an identity is used again once it is closed.
FreeBoxes == {b \in Boxes : /\ boxes[b].st = "closed"
                            /\ b \notin {instance, manager}
                            /\ \A t \in Threads : ref[t] # b}

StartFails(t) ==
    /\ Goto(t, "release")
    /\ failed' = failed \cup {t}
    /\ cooling' = (cooling \/ op[t] = "StartCore")

NewBox(t) ==
    /\ pc[t] = "new"
    /\ \/ /\ FreeBoxes # {}
          /\ LET b == CHOOSE x \in FreeBoxes : TRUE IN
               /\ instance' = b
               /\ boxes' = [boxes EXCEPT ![b].st = "built", ![b].cfg = cfg[t]]
          /\ Goto(t, "boot")
          /\ UNCHANGED <<failed, cooling>>
       \/ /\ StartFails(t)               \* the options do not parse ...
          /\ instance' \in {instance, NoBox}   \* ... or NewBox fails
          /\ UNCHANGED boxes
    /\ cfg' = [cfg EXCEPT ![t] = NoConfig]
    /\ UNCHANGED <<running, manager, inProgress, services, store, op, ref, save>>

\* Mutant: a nil instance reaches Box.Start.
BootBoxNil(t) ==
    /\ pc[t] = "boot"
    /\ ref' = [ref EXCEPT ![t] = instance]
    /\ Goto(t, "booting")
    /\ UNCHANGED <<core, flags, store, op, cfg, failed, save>>

BootBox(t) ==
    /\ pc[t] = "boot"
    /\ IF instance = NoBox THEN Panic(t)
       ELSE /\ ref' = [ref EXCEPT ![t] = instance]
            /\ Goto(t, "booting")
            /\ UNCHANGED <<core, flags, store, op, cfg, failed, save>>

\* Box.Start does not look at the done channel: a box that was closed under
\* it may still open its listeners.
BoxStarts(t) ==
    /\ pc[t] = "booting"
    /\ boxes' = [boxes EXCEPT ![ref[t]].st = "live"]
    /\ ref' = [ref EXCEPT ![t] = NoBox]
    /\ Goto(t, "publish")
    /\ UNCHANGED <<running, instance, manager, flags, store, op, cfg, failed, save>>

BoxStartFails(t) ==
    /\ pc[t] = "booting"
    /\ ref' = [ref EXCEPT ![t] = NoBox]
    /\ Goto(t, "bootfail")
    /\ UNCHANGED <<core, flags, store, op, cfg, failed, save>>

\* Mutant: the box whose start failed is forgotten, not closed.
DropFailedBox(t) ==
    /\ pc[t] = "bootfail"
    /\ instance' = NoBox
    /\ StartFails(t)
    /\ UNCHANGED <<running, manager, boxes, inProgress, services, store, op, cfg, ref,
                   save>>

CloseFailedBox(t) ==
    /\ pc[t] = "bootfail"
    /\ IF instance = NoBox THEN Panic(t)
       ELSE /\ boxes' = [boxes EXCEPT ![instance] = Closed]
            /\ instance' = NoBox
            /\ StartFails(t)
            /\ UNCHANGED <<running, manager, inProgress, services, store, op, cfg, ref,
                           save>>

Publish(t) ==
    /\ pc[t] = "publish"
    /\ IF instance = NoBox THEN Panic(t)
       ELSE /\ manager' = instance
            /\ running' = TRUE
            /\ Goto(t, IF op[t] = "StartCore" THEN "release" ELSE "rr_verify")
            /\ failed' = failed \ {t}
            /\ UNCHANGED <<instance, boxes, flags, store, op, cfg, ref, save>>

-----------------------------------------------------------------------------
(* Core.Stop, and where its callers go on with its result.                  *)

CallStartCore(t) ==
    Goto(t, "sc_check") /\ op' = [op EXCEPT ![t] = "StartCore"]

AfterStop(t, err) ==
    \/ /\ op[t] \in {"Apply", "Restore"}      \* restartCoreWithRaw
       /\ Goto(t, IF err THEN "release" ELSE "new")
       /\ failed' = IF err THEN failed \cup {t} ELSE failed
       /\ UNCHANGED <<op, save>>
    \/ /\ op[t] = "Halt"                      \* restoreRuntimeState
       /\ Done(t)
       /\ UNCHANGED failed
    \/ /\ op[t] = "RestartCore"               \* RestartCore, App.Stop
       /\ \/ t = Main /\ Goto(t, "app") /\ UNCHANGED <<op, save>>
          \/ t # Main /\ err /\ Done(t)
          \/ t # Main /\ ~err /\ CallStartCore(t) /\ UNCHANGED save
       /\ UNCHANGED failed

StopCore(t) ==
    /\ pc[t] = "stop"
    /\ running' = FALSE
    /\ IF instance = NoBox
       THEN AfterStop(t, FALSE)
       ELSE Goto(t, "close") /\ UNCHANGED <<op, failed, save>>
    /\ UNCHANGED <<instance, manager, boxes, flags, store, cfg, ref>>

CloseBox(t) ==
    /\ pc[t] = "close"
    /\ IF instance = NoBox THEN Panic(t)
       ELSE /\ ref' = [ref EXCEPT ![t] = instance]
            /\ Goto(t, "closing")
            /\ UNCHANGED <<core, flags, store, op, cfg, failed, save>>

\* The configuration of a closed box matters only if it is being started.
BoxCloses(t) ==
    /\ pc[t] = "closing"
    /\ boxes' = [boxes EXCEPT ![ref[t]] =
          IF \E u \in Threads : pc[u] = "booting" /\ ref[u] = ref[t]
          THEN [st |-> "closed", cfg |-> boxes[ref[t]].cfg] ELSE Closed]
    /\ ref' = [ref EXCEPT ![t] = NoBox]
    /\ Goto(t, "clear")
    /\ UNCHANGED <<running, instance, manager, flags, store, op, cfg, failed, save>>

ClearInstance(t) ==
    /\ pc[t] = "clear"
    /\ instance' = NoBox
    /\ \E err \in BOOLEAN : AfterStop(t, err)
    /\ UNCHANGED <<running, manager, boxes, flags, store, cfg, ref>>

\* RestartCore of the restartSb handler; on SIGHUP App.Stop, which stops the
\* cron and the web server before the core.  (A request that is under way goes
\* on, and so does a job.)
RestartCore(t) ==
    /\ t \in Restarters \cup {Main} /\ CanBegin(t)
    /\ Goto(t, "stop")
    /\ op' = [op EXCEPT ![t] = "RestartCore"]
    /\ services' = IF t = Main THEN {} ELSE services
    /\ UNCHANGED <<core, inProgress, cooling, store, cfg, ref, failed, save>>

-----------------------------------------------------------------------------
(* App.Start: settings, cron, web server, subscription server, StartCore.   *)

\* What is started when App.Start returns an error: nothing when a setting is
\* not read, the cron when the web server fails, both when the subscription
\* server does.  runApp ends the process then (and the service manager starts
\* it again); RestartApp drops the error.
AppStart ==
    /\ pc[Main] = "app"
    /\ \/ /\ services' = {"cron", "web"}
          /\ CallStartCore(Main)
          /\ UNCHANGED <<core, inProgress, cooling, store, cfg, ref, failed, save>>
       \/ /\ op[Main] = "RestartCore"
          /\ services' \in {{}, {"cron"}, {"cron", "web"}}
          /\ Done(Main)
          /\ UNCHANGED <<core, inProgress, cooling, store, cfg, ref, failed>>
       \/ op[Main] = "StartCore" /\ ProcessStart

-----------------------------------------------------------------------------
(* ConfigService.restartCoreWithRaw, called with op "Apply" or "Restore".   *)

CallRaw(o, c) ==
    /\ Goto(Saver, "rr_lock")
    /\ op' = [op EXCEPT ![Saver] = o]
    /\ cfg' = [cfg EXCEPT ![Saver] = c]

\* What the Saver does with the result of restartCoreWithRaw.
AfterRaw(err) ==
    /\ IF op[Saver] = "Restore" THEN Done(Saver)
       ELSE /\ Goto(Saver, IF err THEN "restore" ELSE "commit")
            /\ op' = [op EXCEPT ![Saver] = "none"]
            /\ UNCHANGED save
    /\ cfg' = [cfg EXCEPT ![Saver] = NoConfig]

RawLock ==
    /\ pc[Saver] = "rr_lock"
    /\ IF inProgress
       THEN AfterRaw(TRUE) /\ UNCHANGED <<inProgress, skipped>>
       ELSE /\ Goto(Saver, "rr_check")
            /\ inProgress' = TRUE
            /\ skipped' = FALSE
            /\ UNCHANGED <<op, cfg, save>>
    /\ UNCHANGED <<core, cooling, services, db, leaked, ref, failed>>

RawCheck ==
    /\ pc[Saver] = "rr_check"
    /\ Goto(Saver, IF running THEN "stop" ELSE "new")
    /\ UNCHANGED <<core, flags, store, op, cfg, ref, failed, save>>

RawVerify ==
    /\ pc[Saver] = "rr_verify"
    /\ failed' = IF running THEN failed ELSE failed \cup {Saver}
    /\ Goto(Saver, "release")
    /\ UNCHANGED <<core, flags, store, op, cfg, ref, save>>

\* Mutant: the flag is cleared on the successful return only.
ReleaseOnSuccess(t) ==
    /\ pc[t] = "release"
    /\ inProgress' = (t \in failed)
    /\ IF op[t] = "StartCore" THEN Done(t) /\ UNCHANGED cfg ELSE AfterRaw(t \in failed)
    /\ failed' = failed \ {t}
    /\ UNCHANGED <<core, cooling, services, store, ref>>

\* The deferred clearing of startCoreInProgress, and the return.
Release(t) ==
    /\ pc[t] = "release"
    /\ inProgress' = FALSE
    /\ IF op[t] = "StartCore" THEN Done(t) /\ UNCHANGED cfg ELSE AfterRaw(t \in failed)
    /\ failed' = failed \ {t}
    /\ UNCHANGED <<core, cooling, services, store, ref>>

-----------------------------------------------------------------------------
(* ConfigService.SaveWithApply for the hot objects: the runtime is changed  *)
(* object by object inside the transaction, which is committed afterwards.  *)

SaveHot(S, v, apply) ==
    /\ CanBegin(Saver)
    /\ S # {} /\ (v = Absent => Cardinality(S) = 1)
    /\ save' = [staged |-> [o \in Objects |-> IF o \in S THEN v ELSE db[o]],
                old |-> db, was |-> running, apply |-> apply,
                cold |-> FALSE, todo |-> S]
    /\ Goto(Saver, "hot_check")
    /\ UNCHANGED <<core, flags, store, op, cfg, ref, failed>>

HotCheck ==
    /\ pc[Saver] = "hot_check"
    /\ \/ Goto(Saver, IF running THEN "hot" ELSE "commit")
       \/ Goto(Saver, "undo")             \* the input or the row is refused
    /\ UNCHANGED <<core, flags, store, op, cfg, ref, failed, save>>

Mutate(o, v) ==
    boxes' = IF manager \in Boxes /\ boxes[manager].st # "closed"
             THEN [boxes EXCEPT ![manager].cfg[o] = v] ELSE boxes

\* Remove then Add of one object, each of which fails when the core is not
\* running.  RestartInbounds takes the connection tracker of the instance
\* between the two, and panics on a nil one: the deferred function of
\* SaveWithApply then finds err = nil and commits.
HotStep(o) ==
    /\ pc[Saver] = "hot" /\ o \in save.todo
    /\ \/ /\ running
          /\ Mutate(o, save.staged[o])
          /\ save' = [save EXCEPT !.todo = @ \ {o}]
          /\ Goto(Saver, IF save.todo = {o} THEN "commit" ELSE "hot")
       \/ /\ running
          /\ Mutate(o, Absent)
          /\ Goto(Saver, IF instance = NoBox THEN "commit" ELSE "undo")
          /\ UNCHANGED save
       \/ /\ Goto(Saver, "undo")
          /\ UNCHANGED <<boxes, save>>
    /\ UNCHANGED <<running, instance, manager, flags, store, op, cfg, ref, failed>>

-----------------------------------------------------------------------------
(* saveConfigWithApply and saveEndpointWithApply: the staged configuration  *)
(* is validated, applied by a restart and only then committed.              *)

SaveCold(o, v, apply) ==
    /\ CanBegin(Saver)
    /\ save' = [staged |-> [db EXCEPT ![o] = v], old |-> db, was |-> running,
                apply |-> apply, cold |-> TRUE, todo |-> {}]
    /\ Goto(Saver, "validate")
    /\ UNCHANGED <<core, flags, store, op, cfg, ref, failed>>

Validate ==
    /\ pc[Saver] = "validate"
    /\ \/ /\ ~leaked
          /\ IF save.apply THEN CallRaw("Apply", save.staged)
             ELSE Goto(Saver, "commit") /\ UNCHANGED <<op, cfg>>
          /\ UNCHANGED save
       \/ Done(Saver) /\ UNCHANGED cfg   \* refused, and rolled back
    /\ UNCHANGED <<core, flags, store, ref, failed>>

-----------------------------------------------------------------------------
(* Commit, roll back and restore, shared by the two kinds of save.          *)

Commit ==
    /\ pc[Saver] = "commit" /\ ~leaked
    /\ db' = save.staged
    /\ skipped' = (skipped \/ (save.cold /\ ~save.apply))
    /\ IF save.apply /\ ~save.cold
       THEN CallStartCore(Saver) /\ save' = NoSave
       ELSE Done(Saver)
    /\ UNCHANGED <<core, flags, leaked, cfg, ref, failed>>

CommitFails ==
    /\ pc[Saver] = "commit"
    /\ \/ ~save.cold /\ Goto(Saver, "undo") /\ UNCHANGED <<op, save>>
       \/ save.cold /\ save.apply /\ Goto(Saver, "restore") /\ UNCHANGED <<op, save>>
       \/ save.cold /\ ~save.apply /\ Done(Saver)
    /\ UNCHANGED <<core, flags, store, cfg, ref, failed>>

\* Mutant: the transaction is rolled back and the runtime left as it is.
UndoRowsOnly ==
    /\ pc[Saver] = "undo"
    /\ Done(Saver)
    /\ UNCHANGED <<core, flags, store, cfg, ref, failed>>

\* The deferred function of SaveWithApply after an error.
Undo ==
    /\ pc[Saver] = "undo"
    /\ IF save.was THEN CallRaw("Restore", save.old) /\ UNCHANGED save
       ELSE Done(Saver) /\ UNCHANGED cfg
    /\ UNCHANGED <<core, flags, store, ref, failed>>

restoreRuntimeState ==
    /\ pc[Saver] = "restore"
    /\ \/ save.was /\ CallRaw("Restore", save.old) /\ UNCHANGED save
       \/ /\ ~save.was /\ running
          /\ Goto(Saver, "stop")
          /\ op' = [op EXCEPT ![Saver] = "Halt"]
          /\ UNCHANGED <<cfg, save>>
       \/ ~save.was /\ ~running /\ Done(Saver) /\ UNCHANGED cfg
    /\ UNCHANGED <<core, flags, store, ref, failed>>

-----------------------------------------------------------------------------
Init ==
    /\ running = FALSE /\ instance = NoBox /\ manager = NoBox
    /\ db \in [Objects -> Versions]
    /\ boxes = [b \in Boxes |-> Closed]
    /\ inProgress = FALSE /\ cooling = FALSE /\ services = {}
    /\ leaked = FALSE /\ skipped = FALSE
    /\ pc = [t \in Threads |-> IF t = Main THEN "app" ELSE "idle"]
    /\ op = [t \in Threads |-> IF t = Main THEN "StartCore" ELSE "none"]
    /\ cfg = [t \in Threads |-> NoConfig]
    /\ ref = [t \in Threads |-> NoBox]
    /\ failed = {}
    /\ save = NoSave

\* One step of the code shared by all goroutines.
CoreStep(t) ==
    \/ StartCoreCheck(t) \/ StartCoreLock(t) \/ StartCoreConfig(t)
    \/ NewBox(t) \/ BootBox(t) \/ BoxStarts(t) \/ BoxStartFails(t)
    \/ CloseFailedBox(t) \/ Publish(t)
    \/ StopCore(t) \/ CloseBox(t) \/ BoxCloses(t) \/ ClearInstance(t)
    \/ Release(t)

SaverStep ==
    \/ RawLock \/ RawCheck \/ RawVerify
    \/ HotCheck \/ (\E o \in HotObjects : HotStep(o))
    \/ Validate \/ Commit \/ CommitFails \/ Undo \/ restoreRuntimeState

SaveRequest ==
    \E v \in Versions \cup {Absent}, apply \in ApplyFlags :
        \/ \E S \in SUBSET HotObjects : SaveHot(S, v, apply)
        \/ \E o \in ColdObjects : SaveCold(o, v, apply)

Next ==
    \/ \E t \in Threads : CoreStep(t) \/ CheckCore(t) \/ RestartCore(t)
    \/ AppStart
    \/ SaverStep
    \/ SaveRequest
    \/ CoolDown
    \/ Kill

Spec == Init /\ [][Next]_vars

\* A goroutine that is in the middle of a function goes on; the cooldown
\* passes.  (Box.Start and Box.Close are assumed to return.)
Progress ==
    /\ \A t \in Threads : WF_vars(CoreStep(t))
    /\ WF_vars(SaverStep)
    /\ WF_vars(AppStart)
    /\ WF_vars(CoolDown)

FairSpec == Spec /\ Progress

\* The cron also fires again and again between the other operations, and a
\* box that is started over and over starts at last.
WatchdogSpec ==
    /\ FairSpec
    /\ \A t \in Checkers :
          /\ SF_vars(CheckCore(t))
          /\ SF_vars(StartCoreConfig(t) /\ pc'[t] = "new")
          /\ SF_vars(NewBox(t) /\ pc'[t] = "boot")
          /\ SF_vars(BoxStarts(t))

-----------------------------------------------------------------------------
(* Properties *)

CoreTypes ==
    /\ running \in BOOLEAN
    /\ instance \in Boxes \cup {NoBox}
    /\ manager \in Boxes \cup {NoBox}
    /\ boxes \in [Boxes -> [st : BoxStates, cfg : Configs]]
    /\ inProgress \in BOOLEAN /\ cooling \in BOOLEAN
    /\ services \subseteq {"cron", "web"}

StoreTypes ==
    /\ db \in Configs /\ leaked \in BOOLEAN /\ skipped \in BOOLEAN
    /\ save \in Saves

LocalTypes ==
    /\ pc \in [Threads -> Pcs]
    /\ op \in [Threads -> Ops]
    /\ cfg \in [Threads -> Configs]
    /\ ref \in [Threads -> Boxes \cup {NoBox}]
    /\ failed \subseteq Threads

Receivers ==
    \A t \in Threads : pc[t] \in {"booting", "closing"} => ref[t] \in Boxes

\* Every variable has its type, and a goroutine inside a method of Box has a
\* receiver (NewBox, Box.Start and Box.Close of src/core/main.go).
TypeOK == CoreTypes /\ StoreTypes /\ LocalTypes /\ Receivers

\* startCoreInProgress works as a lock although it is tested, set and cleared
\* in separate sections of startCoreMu: it is set exactly while one goroutine
\* is between taking and clearing it, through every error return, recovered
\* panic and restart of the process.  So no two Core.Start ever overlap.
StartExclusive ==
    /\ inProgress <=> \E t \in Threads : InRegion(t)
    /\ \A t, u \in Threads : InRegion(t) /\ InRegion(u) => t = u

\* While operations do not overlap, whatever step of them failed: a core that
\* reports running is an open box that serves the committed configuration
\* (unless the last save asked not to apply it).
RuntimeFollowsDb ==
    AllIdle /\ running =>
        /\ instance \in Live
        /\ skipped \/ boxes[instance].cfg = db

\* While operations do not overlap, no box stays open unless it is the
\* instance of a running core: a failed start or apply leaves no listener.
NoOrphans ==
    AllIdle => \A b \in Boxes : boxes[b].st = "closed" \/ (running /\ b = instance)

\* A goroutine that takes startCoreInProgress clears it: no error path or
\* recovered panic leaves every later start refused.
FlagReleased == inProgress ~> ~inProgress

\* Once the operators rest and the cron is started, its check job brings the
\* core back, whatever start, stop, apply or restore failed before, and also
\* when App.Start returned after the cron (the web or the subscription server
\* did not start) and so never called StartCore.
OperatorsRest == \A t \in Threads \ Checkers : pc[t] = "idle"

CoreComesBack ==
    <>[](OperatorsRest /\ "cron" \in services) => []<>(running /\ instance \in Live)

\* The same without a word about the cron, which is what a restart of the panel
\* leaves the operator to expect: false when App.Start, called by RestartApp,
\* returns before cronJob.Start.
RestartComesBack == <>[]OperatorsRest => []<>(running /\ instance \in Live)

\* What the cron promises ("Start core if it is not running"): once every
\* operation has returned, a core that reports running has an open box; the
\* check job does nothing about a core that reports running without one.
WatchdogCoversCore == AllIdle /\ running => instance \in Live

\* What the apply of a configuration promises: once every operation has
\* returned, the configuration that was saved and applied is the one served.
AppliedIsServed ==
    AllIdle /\ running /\ instance \in Live /\ ~skipped =>
        boxes[instance].cfg = db

=============================================================================
