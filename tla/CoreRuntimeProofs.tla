------------------------- MODULE CoreRuntimeProofs -------------------------
(* Proofs about CoreRuntime for any number of goroutines, objects, versions *)
(* and boxes.                                                               *)
EXTENDS CoreRuntime, TLAPS

\* Which operation a control point belongs to, and whose it is: what a step
\* needs to know of op[t] to tell whether it is inside the region.
OpOK(t) ==
    /\ op[t] \in {"Apply", "Restore", "Halt"} => t = Saver
    /\ pc[t] = "app" => t = Main /\ op[t] \in {"StartCore", "RestartCore"}
    /\ pc[t] \in {"sc_check", "sc_lock", "sc_config"} => op[t] = "StartCore"
    /\ pc[t] \in StartPcs \cup {"release"} => op[t] \in {"StartCore", "Apply", "Restore"}
    /\ pc[t] \in StopPcs => op[t] \in {"RestartCore", "Apply", "Restore", "Halt"}
    /\ pc[t] \in {"rr_lock", "rr_check", "rr_verify"} => op[t] \in {"Apply", "Restore"}

ControlOK == \A t \in Threads : OpOK(t)

IInv == TypeOK /\ ControlOK /\ StartExclusive

USE DEF Threads, Ops, Pcs, StartPcs, StopPcs, SavePcs, BoxStates

\* The initial values of the locals and the two single goroutines are typed.
LEMMA Constants ==
    /\ Main \in Threads /\ Saver \in Threads
    /\ NoConfig \in Configs
    /\ NoSave \in Saves
    /\ Closed \in [st : BoxStates, cfg : Configs]
BY DEF NoConfig, Configs, NoSave, Saves, Closed

-----------------------------------------------------------------------------
(* Types *)

USE DEF TypeOK, CoreTypes, StoreTypes, LocalTypes, Receivers
USE DEF vars, core, flags, store, Goto, Done

\* A nil dereference keeps the types, in a handler and in a cron goroutine.
LEMMA PanicType ==
    ASSUME TypeOK, NEW t \in Threads, Panic(t)
    PROVE  TypeOK'
<1>1. CASE ProcessStart
  BY <1>1, Constants DEF ProcessStart
<1>2. CASE HandlerPanic(t)
  <2>1. inProgress' \in BOOLEAN /\ leaked' \in BOOLEAN
    BY <1>2 DEF HandlerPanic
  <2>2. (CoreTypes /\ StoreTypes)'
    BY <1>2, <2>1, Constants DEF HandlerPanic
  <2>3. (LocalTypes /\ Receivers)'
    BY <1>2 DEF HandlerPanic
  <2>4. QED BY <2>2, <2>3
<1>3. QED BY <1>1, <1>2 DEF Panic

\* A box built from a configuration is well-formed.
BoxTypes == [Boxes -> [st : BoxStates, cfg : Configs]]

\* Building one box leaves the boxes well-formed.
LEMMA BuildType ==
    ASSUME NEW f \in BoxTypes, NEW b \in Boxes, NEW c \in Configs
    PROVE  [f EXCEPT ![b].st = "built", ![b].cfg = c] \in BoxTypes
BY DEF BoxTypes

\* Changing one object of a box keeps the boxes well-formed.
LEMMA ChangeType ==
    ASSUME NEW f \in BoxTypes, NEW b \in Boxes, NEW o \in Objects,
           NEW v \in Versions \cup {Absent}
    PROVE  [f EXCEPT ![b].cfg[o] = v] \in BoxTypes
<1>1. f[b] \in [st : BoxStates, cfg : Configs]
  BY DEF BoxTypes
<1>2. [f[b].cfg EXCEPT ![o] = v] \in Configs
  BY <1>1 DEF Configs
<1>3. [f[b] EXCEPT !.cfg = [f[b].cfg EXCEPT ![o] = v]] \in [st : BoxStates, cfg : Configs]
  BY <1>1, <1>2
<1>4. QED BY <1>3 DEF BoxTypes

\* So does changing one of the published box.
LEMMA MutateType ==
    ASSUME TypeOK, NEW o \in HotObjects, NEW v \in Versions \cup {Absent},
           Mutate(o, v)
    PROVE  (boxes \in [Boxes -> [st : BoxStates, cfg : Configs]])'
<1>1. boxes \in BoxTypes
  BY DEF BoxTypes
<1>2. o \in Objects
  BY DEF Objects
<1>. HIDE DEF TypeOK, BoxStates
<1>3. CASE manager \in Boxes
  <2>1. [boxes EXCEPT ![manager].cfg[o] = v] \in BoxTypes
    BY <1>1, <1>2, <1>3, ChangeType
  <2>2. QED BY <1>1, <2>1 DEF Mutate, BoxTypes
<1>4. CASE manager \notin Boxes
  BY <1>1, <1>4 DEF Mutate, BoxTypes
<1>5. QED BY <1>3, <1>4

\* One step keeps the types: Next is taken apart into its actions.
LEMMA TypeStep ==
    ASSUME TypeOK, [Next]_vars
    PROVE  TypeOK'
<1>. USE Constants
<1>1. ASSUME NEW t \in Threads, CoreStep(t) \/ CheckCore(t) \/ RestartCore(t)
      PROVE  TypeOK'
  <2>1. CASE StartCoreCheck(t)
    BY <2>1 DEF StartCoreCheck
  <2>2. CASE StartCoreLock(t)
    <3>1. (CoreTypes /\ StoreTypes)'
      BY <2>2 DEF StartCoreLock
    <3>2. (LocalTypes)'
      BY <2>2 DEF StartCoreLock
    <3>3. (Receivers)'
      BY <2>2 DEF StartCoreLock
    <3>4. QED BY <3>1, <3>2, <3>3
  <2>3. CASE StartCoreConfig(t)
    <3>1. (CoreTypes /\ StoreTypes)'
      BY <2>3 DEF StartCoreConfig
    <3>2. (LocalTypes)'
      BY <2>3 DEF StartCoreConfig
    <3>3. (Receivers)'
      BY <2>3 DEF StartCoreConfig
    <3>4. QED BY <3>1, <3>2, <3>3
  <2>4. CASE NewBox(t)
    <3>1. cooling' \in BOOLEAN
      BY <2>4 DEF NewBox, StartFails
    <3>2. (instance \in Boxes \cup {NoBox})'
      BY <2>4 DEF NewBox, FreeBoxes
    <3>3. \/ UNCHANGED boxes
          \/ \E b \in Boxes :
                boxes' = [boxes EXCEPT ![b].st = "built", ![b].cfg = cfg[t]]
      <4>1. FreeBoxes # {} => (CHOOSE x \in FreeBoxes : TRUE) \in Boxes
        BY DEF FreeBoxes
      <4>2. CASE UNCHANGED boxes
        BY <4>2
      <4>3. CASE boxes' # boxes
        BY <2>4, <4>1, <4>3 DEF NewBox
      <4> QED
        BY <4>2, <4>3
    <3>4. (boxes \in [Boxes -> [st : BoxStates, cfg : Configs]])'
      <4>1. CASE UNCHANGED boxes
        BY <4>1
      <4>2. ASSUME NEW b \in Boxes,
                   boxes' = [boxes EXCEPT ![b].st = "built", ![b].cfg = cfg[t]]
            PROVE  (boxes \in [Boxes -> [st : BoxStates, cfg : Configs]])'
        <5>1. cfg[t] \in Configs
          OBVIOUS
        <5>2. boxes \in BoxTypes
          BY DEF BoxTypes
        <5>3. [boxes EXCEPT ![b].st = "built", ![b].cfg = cfg[t]] \in BoxTypes
          BY <5>1, <5>2, BuildType
        <5>4. QED BY <4>2, <5>3 DEF BoxTypes
      <4>3. QED BY <3>3, <4>1, <4>2
    <3>5. UNCHANGED <<running, manager, inProgress, services>>
      BY <2>4 DEF NewBox
    <3>6. StoreTypes'
      BY <2>4 DEF NewBox
    <3>7. LocalTypes'
      BY <2>4 DEF NewBox, StartFails
    <3>8. Receivers'
      BY <2>4, ZenonT(60) DEF NewBox, StartFails
    <3>9. QED BY <3>1, <3>2, <3>4, <3>5, <3>6, <3>7, <3>8
  <2>5. CASE BootBox(t)
    <3>1. CASE instance = NoBox
      BY <2>5, <3>1, PanicType DEF BootBox
    <3>2. CASE instance # NoBox
      <4>1. (CoreTypes /\ StoreTypes)'
        BY <2>5, <3>2 DEF BootBox
      <4>2. (LocalTypes /\ Receivers)'
        BY <2>5, <3>2 DEF BootBox
      <4>3. QED BY <4>1, <4>2
    <3>3. QED BY <3>1, <3>2
  <2>6. CASE BoxStarts(t)
    BY <2>6 DEF BoxStarts
  <2>7. CASE BoxStartFails(t)
    BY <2>7 DEF BoxStartFails
  <2>8. CASE CloseFailedBox(t)
    <3>1. CASE instance = NoBox
      BY <2>8, <3>1, PanicType DEF CloseFailedBox
    <3>2. CASE instance # NoBox
      <4>1. cooling' \in BOOLEAN /\ UNCHANGED <<inProgress, services>>
        BY <2>8, <3>2 DEF CloseFailedBox, StartFails
      <4>2. CoreTypes'
        BY <2>8, <3>2, <4>1 DEF CloseFailedBox
      <4>3. StoreTypes'
        BY <2>8, <3>2 DEF CloseFailedBox
      <4>4. (LocalTypes /\ Receivers)'
        BY <2>8, <3>2 DEF CloseFailedBox, StartFails
      <4>5. QED BY <4>2, <4>3, <4>4
    <3>3. QED BY <3>1, <3>2
  <2>9. CASE Publish(t)
    <3>1. CASE instance = NoBox
      BY <2>9, <3>1, PanicType DEF Publish
    <3>2. CASE instance # NoBox
      <4>1. (CoreTypes /\ StoreTypes)'
        BY <2>9, <3>2 DEF Publish
      <4>2. (LocalTypes /\ Receivers)'
        BY <2>9, <3>2 DEF Publish
      <4>3. QED BY <4>1, <4>2
    <3>3. QED BY <3>1, <3>2
  <2>10. CASE StopCore(t)
    <3>1. (CoreTypes /\ StoreTypes)'
      BY <2>10 DEF StopCore, AfterStop, CallStartCore
    <3>2. (LocalTypes)'
      BY <2>10 DEF StopCore, AfterStop, CallStartCore
    <3>3. (Receivers)'
      BY <2>10 DEF StopCore, AfterStop, CallStartCore
    <3>4. QED BY <3>1, <3>2, <3>3
  <2>11. CASE CloseBox(t)
    <3>1. CASE instance = NoBox
      BY <2>11, <3>1, PanicType DEF CloseBox
    <3>2. CASE instance # NoBox
      <4>1. (CoreTypes /\ StoreTypes)'
        BY <2>11, <3>2 DEF CloseBox
      <4>2. (LocalTypes /\ Receivers)'
        BY <2>11, <3>2 DEF CloseBox
      <4>3. QED BY <4>1, <4>2
    <3>3. QED BY <3>1, <3>2
  <2>12. CASE BoxCloses(t)
    BY <2>12 DEF BoxCloses
  <2>13. CASE ClearInstance(t)
    <3>1. (CoreTypes /\ StoreTypes)'
      BY <2>13 DEF ClearInstance, AfterStop, CallStartCore
    <3>2. (LocalTypes /\ Receivers)'
      BY <2>13 DEF ClearInstance, AfterStop, CallStartCore
    <3>3. QED BY <3>1, <3>2
  <2>14. CASE Release(t)
    <3>1. (CoreTypes /\ StoreTypes)'
      BY <2>14 DEF Release, AfterRaw
    <3>2. (LocalTypes)'
      BY <2>14 DEF Release, AfterRaw
    <3>3. (Receivers)'
      BY <2>14 DEF Release, AfterRaw
    <3>4. QED BY <3>1, <3>2, <3>3
  <2>15. CASE CheckCore(t)
    BY <2>15 DEF CheckCore
  <2>16. CASE RestartCore(t)
    BY <2>16, ZenonT(60) DEF RestartCore
  <2>17. QED BY <1>1, <2>1, <2>2, <2>3, <2>4, <2>5, <2>6, <2>7, <2>8, <2>9,
           <2>10, <2>11, <2>12, <2>13, <2>14, <2>15, <2>16 DEF CoreStep
<1>2. CASE SaverStep
  <2>1. CASE RawLock
    <3>1. (CoreTypes /\ StoreTypes)'
      BY <2>1 DEF RawLock, AfterRaw
    <3>2. (LocalTypes)'
      BY <2>1 DEF RawLock, AfterRaw
    <3>3. (Receivers)'
      BY <2>1 DEF RawLock, AfterRaw
    <3>4. QED BY <3>1, <3>2, <3>3
  <2>2. CASE RawCheck
    BY <2>2 DEF RawCheck
  <2>3. CASE RawVerify
    BY <2>3 DEF RawVerify
  <2>4. CASE HotCheck
    BY <2>4 DEF HotCheck
  <2>5. ASSUME NEW o \in HotObjects, HotStep(o)
        PROVE  TypeOK'
    <3>1. save.staged[o] \in Versions \cup {Absent}
      BY DEF Saves, Configs, Objects
    <3>2. UNCHANGED boxes \/ Mutate(o, save.staged[o]) \/ Mutate(o, Absent)
      BY <2>5 DEF HotStep
    <3>3. CoreTypes'
      BY <2>5, <3>1, <3>2, MutateType DEF HotStep
    <3>4. (StoreTypes /\ LocalTypes /\ Receivers)'
      BY <2>5 DEF HotStep, Saves
    <3>5. QED BY <3>3, <3>4
  <2>6. CASE Validate
    BY <2>6 DEF Validate, CallRaw, Saves
  <2>7. CASE Commit
    BY <2>7 DEF Commit, CallStartCore, Saves
  <2>8. CASE CommitFails
    BY <2>8 DEF CommitFails
  <2>9. CASE Undo
    BY <2>9 DEF Undo, CallRaw, Saves
  <2>10. CASE restoreRuntimeState
    BY <2>10 DEF restoreRuntimeState, CallRaw, Saves
  <2>11. QED BY <1>2, <2>1, <2>2, <2>3, <2>4, <2>5, <2>6, <2>7, <2>8, <2>9,
           <2>10 DEF SaverStep
<1>3. CASE SaveRequest
  <2>1. ASSUME NEW v \in Versions \cup {Absent}, NEW apply \in BOOLEAN,
               NEW S \in SUBSET HotObjects, SaveHot(S, v, apply)
        PROVE  TypeOK'
    <3>1. save' \in Saves
      BY <2>1 DEF SaveHot, Saves, Configs
    <3>2. QED BY <2>1, <3>1 DEF SaveHot, CanBegin
  <2>2. ASSUME NEW v \in Versions \cup {Absent}, NEW apply \in BOOLEAN,
               NEW o \in ColdObjects, SaveCold(o, v, apply)
        PROVE  TypeOK'
    <3>1. save' \in Saves
      BY <2>2 DEF SaveCold, Saves, Configs
    <3>2. QED BY <2>2, <3>1 DEF SaveCold, CanBegin
  <2>3. QED BY <1>3, <2>1, <2>2, ValuesAssumption DEF SaveRequest
<1>4. CASE CoolDown
  BY <1>4 DEF CoolDown
<1>5. CASE Kill
  BY <1>5 DEF Kill, ProcessStart
<1>6. CASE UNCHANGED vars
  BY <1>6
<1>7. CASE AppStart
  <2>1. CASE ProcessStart
    BY <2>1 DEF ProcessStart
  <2>2. CASE ~ProcessStart
    <3>1. (CoreTypes /\ StoreTypes)'
      BY <1>7, <2>2 DEF AppStart, CallStartCore
    <3>2. (LocalTypes /\ Receivers)'
      BY <1>7, <2>2 DEF AppStart, CallStartCore
    <3>3. QED BY <3>1, <3>2
  <2>3. QED BY <2>1, <2>2
<1>8. QED BY <1>1, <1>2, <1>3, <1>4, <1>5, <1>6, <1>7 DEF Next

\* The initial states are well typed.
LEMMA InitType == Init => TypeOK
<1>1. Init => CoreTypes
  <2>1. Init => boxes \in [Boxes -> [st : BoxStates, cfg : Configs]]
    BY Constants DEF Init
  <2>2. QED BY <2>1 DEF Init
<1>2. Init => StoreTypes
  <2>1. Init => db \in Configs
    BY DEF Init, Configs
  <2>2. QED BY <2>1, Constants DEF Init
<1>3. Init => LocalTypes /\ Receivers
  BY Constants DEF Init
<1>4. QED BY <1>1, <1>2, <1>3

\* The type invariant: every variable of the core, the flags, the store and
\* the goroutines keeps its type, and a goroutine inside a method of Box has a
\* receiver, for every set of goroutines, objects, versions and boxes.
THEOREM TypeCorrect == Spec => []TypeOK
<1>1. TypeOK /\ [Next]_vars => TypeOK'
  BY TypeStep
<1>2. QED BY <1>1, InitType, PTL DEF Spec

-----------------------------------------------------------------------------
(* Exclusion *)

\* The four things a step can do to the region: nothing, one goroutine enters
\* it while the flag is clear, one leaves it, or the process starts again.
Stays == /\ inProgress' = inProgress
         /\ \A u \in Threads : InRegion(u)' <=> InRegion(u)
Enters(t) == /\ ~inProgress /\ inProgress' /\ InRegion(t)'
             /\ \A u \in Threads \ {t} : InRegion(u)' <=> InRegion(u)
Leaves(t) == /\ InRegion(t) /\ ~inProgress' /\ ~InRegion(t)'
             /\ \A u \in Threads \ {t} : InRegion(u)' <=> InRegion(u)
Empties == ~inProgress' /\ \A u \in Threads : ~InRegion(u)'

RegionStep == \/ Stays \/ Empties
              \/ \E t \in Threads : Enters(t) \/ Leaves(t)

\* Each of the four keeps the flag equal to "someone is in the region" and
\* the region held by one goroutine at most.
LEMMA RegionStepKeepsExclusion ==
    ASSUME StartExclusive, RegionStep
    PROVE  StartExclusive'
<1>1. CASE Stays
  BY <1>1 DEF Stays, StartExclusive
<1>2. CASE Empties
  BY <1>2 DEF Empties, StartExclusive
<1>3. ASSUME NEW t \in Threads, Enters(t)
      PROVE  StartExclusive'
  BY <1>3 DEF Enters, StartExclusive
<1>4. ASSUME NEW t \in Threads, Leaves(t)
      PROVE  StartExclusive'
  BY <1>4 DEF Leaves, StartExclusive
<1>5. QED BY <1>1, <1>2, <1>3, <1>4 DEF RegionStep

USE DEF ControlOK, OpOK, InRegion

\* A panic takes its goroutine out of the region, or ends the process.
LEMMA PanicRegion ==
    ASSUME IInv, NEW t \in Threads, Panic(t)
    PROVE  ControlOK' /\ RegionStep
<1>1. CASE ProcessStart
  BY <1>1, Constants DEF ProcessStart, RegionStep, Empties, IInv
<1>2. CASE HandlerPanic(t)
  <2>1. ControlOK'
    BY <1>2 DEF HandlerPanic, IInv
  <2>2. CASE InRegion(t)
    <3>1. Leaves(t)
      BY <1>2, <2>2 DEF HandlerPanic, IInv, Leaves
    <3>2. QED BY <2>1, <3>1 DEF RegionStep
  <2>3. CASE ~InRegion(t)
    <3>1. Stays
      BY <1>2, <2>3 DEF HandlerPanic, IInv, Stays
    <3>2. QED BY <2>1, <3>1 DEF RegionStep
  <2>4. QED BY <2>2, <2>3
<1>3. QED BY <1>1, <1>2 DEF Panic

\* Every action does one of the four things, and keeps the operations right.
LEMMA RegionOfStep ==
    ASSUME IInv, [Next]_vars
    PROVE  ControlOK' /\ RegionStep
<1>. USE Constants, ThreadsAssumption DEF IInv, RegionStep, Stays, Enters, Leaves
<1>1. ASSUME NEW t \in Threads, CoreStep(t) \/ CheckCore(t) \/ RestartCore(t)
      PROVE  ControlOK' /\ RegionStep
  <2>1. CASE StartCoreCheck(t)
    BY <2>1 DEF StartCoreCheck
  <2>2. CASE StartCoreLock(t)
    BY <2>2 DEF StartCoreLock
  <2>3. CASE StartCoreConfig(t)
    BY <2>3 DEF StartCoreConfig
  <2>4. CASE NewBox(t)
    BY <2>4 DEF NewBox, StartFails
  <2>5. CASE BootBox(t)
    <3>1. CASE instance = NoBox
      BY <2>5, <3>1, PanicRegion DEF BootBox
    <3>2. CASE instance # NoBox
      BY <2>5, <3>2 DEF BootBox
    <3>3. QED BY <3>1, <3>2
  <2>6. CASE BoxStarts(t)
    BY <2>6 DEF BoxStarts
  <2>7. CASE BoxStartFails(t)
    BY <2>7 DEF BoxStartFails
  <2>8. CASE CloseFailedBox(t)
    <3>1. CASE instance = NoBox
      BY <2>8, <3>1, PanicRegion DEF CloseFailedBox
    <3>2. CASE instance # NoBox
      BY <2>8, <3>2 DEF CloseFailedBox, StartFails
    <3>3. QED BY <3>1, <3>2
  <2>9. CASE Publish(t)
    <3>1. CASE instance = NoBox
      BY <2>9, <3>1, PanicRegion DEF Publish
    <3>2. CASE instance # NoBox
      BY <2>9, <3>2 DEF Publish
    <3>3. QED BY <3>1, <3>2
  <2>10. CASE StopCore(t)
    BY <2>10 DEF StopCore, AfterStop, CallStartCore
  <2>11. CASE CloseBox(t)
    <3>1. CASE instance = NoBox
      BY <2>11, <3>1, PanicRegion DEF CloseBox
    <3>2. CASE instance # NoBox
      BY <2>11, <3>2 DEF CloseBox
    <3>3. QED BY <3>1, <3>2
  <2>12. CASE BoxCloses(t)
    BY <2>12 DEF BoxCloses
  <2>13. CASE ClearInstance(t)
    BY <2>13, SMTT(30) DEF ClearInstance, AfterStop, CallStartCore
  <2>14. CASE Release(t)
    BY <2>14, SMTT(30) DEF Release, AfterRaw
  <2>15. CASE CheckCore(t)
    BY <2>15 DEF CheckCore, CanBegin
  <2>16. CASE RestartCore(t)
    BY <2>16 DEF RestartCore, CanBegin
  <2>17. QED BY <1>1, <2>1, <2>2, <2>3, <2>4, <2>5, <2>6, <2>7, <2>8, <2>9,
           <2>10, <2>11, <2>12, <2>13, <2>14, <2>15, <2>16 DEF CoreStep
<1>2. CASE SaverStep
  <2>1. CASE RawLock
    BY <2>1 DEF RawLock, AfterRaw
  <2>2. CASE RawCheck
    BY <2>2 DEF RawCheck
  <2>3. CASE RawVerify
    BY <2>3 DEF RawVerify
  <2>4. CASE HotCheck
    BY <2>4 DEF HotCheck
  <2>5. ASSUME NEW o \in HotObjects, HotStep(o)
        PROVE  ControlOK' /\ RegionStep
    BY <2>5 DEF HotStep
  <2>6. CASE Validate
    BY <2>6 DEF Validate, CallRaw
  <2>7. CASE Commit
    BY <2>7 DEF Commit, CallStartCore
  <2>8. CASE CommitFails
    BY <2>8 DEF CommitFails
  <2>9. CASE Undo
    BY <2>9 DEF Undo, CallRaw
  <2>10. CASE restoreRuntimeState
    BY <2>10 DEF restoreRuntimeState, CallRaw
  <2>11. QED BY <1>2, <2>1, <2>2, <2>3, <2>4, <2>5, <2>6, <2>7, <2>8, <2>9,
           <2>10 DEF SaverStep
<1>3. CASE SaveRequest
  <2>1. ASSUME NEW v, NEW apply, NEW S, SaveHot(S, v, apply)
        PROVE  ControlOK' /\ RegionStep
    BY <2>1 DEF SaveHot, CanBegin
  <2>2. ASSUME NEW v, NEW apply, NEW o, SaveCold(o, v, apply)
        PROVE  ControlOK' /\ RegionStep
    BY <2>2 DEF SaveCold, CanBegin
  <2>3. QED BY <1>3, <2>1, <2>2 DEF SaveRequest
<1>4. CASE CoolDown
  BY <1>4 DEF CoolDown
<1>5. CASE Kill
  BY <1>5 DEF Kill, ProcessStart, Empties
<1>6. CASE UNCHANGED vars
  BY <1>6
<1>7. CASE AppStart
  <2>1. CASE ProcessStart
    BY <2>1 DEF ProcessStart, Empties
  <2>2. CASE ~ProcessStart
    BY <1>7, <2>2 DEF AppStart, CallStartCore
  <2>3. QED BY <2>1, <2>2
<1>8. QED BY <1>1, <1>2, <1>3, <1>4, <1>5, <1>6, <1>7 DEF Next

\* The inductive invariant behind the exclusion theorem.
THEOREM Inductive == Spec => []IInv
<1>1. Init => IInv
  <2>1. Init => ControlOK
    BY Constants DEF Init
  <2>2. Init => StartExclusive
    BY Constants DEF Init, StartExclusive
  <2>3. Init => TypeOK
    BY InitType
  <2>4. QED BY <2>1, <2>2, <2>3 DEF IInv
<1>2. IInv /\ [Next]_vars => IInv'
  BY TypeStep, RegionOfStep, RegionStepKeepsExclusion DEF IInv
<1>3. QED BY <1>1, <1>2, PTL DEF Spec

\* startCoreInProgress, set and cleared in separate sections of startCoreMu, is
\* set exactly while one goroutine is between the two, and no two goroutines
\* are ever inside Core.Start at once: for any number of check jobs, restart
\* requests, saves, panics and restarts of the process.
THEOREM Exclusion == Spec => []StartExclusive
<1>1. IInv => StartExclusive
  BY DEF IInv
<1>2. QED BY <1>1, Inductive, PTL

-----------------------------------------------------------------------------
(* One operation at a time *)

\* The core is up: it reports running, and its instance is the open box that
\* the managers belong to.  It is down: neither.
Up == running /\ instance \in Boxes /\ boxes[instance].st = "live" /\ manager = instance
Down == ~running /\ instance = NoBox
Serves(c) == boxes[instance].cfg = c

\* What holds between two operations.
Settled == (Up \/ Down) /\ (running => skipped \/ Serves(db))

\* No box is open but the instance.
OnlyInstance == \A b \in Boxes : boxes[b].st # "closed" => b = instance

\* At most one goroutine is inside an operation.
Lone == \A t, u \in Threads : pc[t] # "idle" /\ pc[u] # "idle" => t = u

\* The configuration a goroutine is about to start the core with.
Target(t) == IF op[t] = "Apply" THEN save.staged ELSE db

\* The core while a goroutine t starts it ...
Starting(t) ==
    /\ pc[t] = "sc_check" => Settled
    /\ pc[t] \in {"app", "sc_lock", "sc_config", "new"} => Down
    /\ pc[t] \in {"boot", "booting", "bootfail", "publish"} => ~running /\ instance \in Boxes
    /\ pc[t] \in {"boot", "booting", "publish"} => Serves(Target(t))
    /\ pc[t] = "booting" => ref[t] = instance
    /\ pc[t] = "publish" => boxes[instance].st = "live"
    /\ pc[t] = "rr_verify" => Up /\ Serves(Target(t)) /\ t \notin failed
    /\ pc[t] = "release" => IF t \in failed THEN Down ELSE Up /\ Serves(Target(t))

\* ... while it stops it ...
Stopping(t) ==
    /\ pc[t] = "stop" => Up \/ Down
    /\ pc[t] \in {"close", "closing", "clear"} => ~running /\ instance \in Boxes
    /\ pc[t] = "closing" => ref[t] = instance
    /\ pc[t] = "clear" => boxes[instance].st = "closed"

\* ... and while it saves: between the changes of the running box and the
\* commit, the box serves the staged configuration but for what is left to do.
Saving(t) ==
    /\ pc[t] \in SavePcs \cup {"rr_lock", "rr_check"} => Up \/ Down
    /\ pc[t] \in {"hot_check", "hot", "undo"} => ~save.cold /\ save.was = running
    /\ pc[t] = "hot_check" =>
          Settled /\ \A o \in Objects \ save.todo : save.staged[o] = db[o]
    /\ pc[t] = "hot" =>
          /\ running
          /\ skipped \/ \A o \in Objects : boxes[instance].cfg[o] =
                            IF o \in save.todo THEN db[o] ELSE save.staged[o]
    /\ pc[t] = "validate" => Settled /\ save.cold
    /\ pc[t] = "commit" =>
          IF save.cold THEN save.apply \/ Settled ELSE save.was = running
    /\ pc[t] = "commit" /\ (save.cold => save.apply) /\ running =>
          skipped \/ Serves(save.staged)

\* What it restores is what is committed, and what it passes on is the target.
Restoring(t) ==
    /\ pc[t] \in SavePcs \/ op[t] \in {"Apply", "Restore"} => save.old = db
    /\ op[t] = "Apply" => save.cold /\ save.apply
    /\ pc[t] \in {"idle"} \cup SavePcs => op[t] = "none"
    /\ /\ pc[t] \in {"rr_lock", "rr_check", "new"} \cup StopPcs
       /\ op[t] \in {"StartCore", "Apply", "Restore"}
       => cfg[t] = Target(t)

At(t) == Starting(t) /\ Stopping(t) /\ Saving(t) /\ Restoring(t)

Serial == /\ OnlyInstance /\ Lone
          /\ AllIdle => Settled
          /\ \A t \in Threads : At(t)

\* A goroutine t may be inside an operation, no other is, and the core is as it
\* should be where t is: Serial, seen from t.
Rest(t) == \A u \in Threads \ {t} : pc[u] = "idle" /\ op[u] = "none"
Good(t) == Rest(t) /\ OnlyInstance /\ At(t) /\ (pc[t] = "idle" => Settled)

HIDE DEF TypeOK, CoreTypes, StoreTypes, LocalTypes, Receivers, ControlOK, OpOK, InRegion

\* Serial says the same as Good, for the goroutine that is not idle.
LEMMA SerialIsGood ==
    /\ \A t \in Threads : Good(t) => Serial
    /\ \A t \in Threads : Serial /\ (AllIdle \/ pc[t] # "idle") => Good(t)
<1>1. ASSUME NEW t \in Threads, Good(t) PROVE Serial
  <2>1. \A u \in Threads \ {t} : At(u)
    BY <1>1 DEF Good, Rest, At, Starting, Stopping, Saving, Restoring
  <2> QED
    BY <1>1, <2>1 DEF Serial, Good, Rest, Lone, AllIdle
<1>2. ASSUME NEW t \in Threads, Serial, AllIdle \/ pc[t] # "idle" PROVE Good(t)
  <2>1. \A u \in Threads \ {t} : pc[u] = "idle"
    BY <1>2 DEF Serial, Lone, AllIdle
  <2>2. \A u \in Threads : pc[u] = "idle" => op[u] = "none"
    BY <1>2 DEF Serial, At, Restoring
  <2>3. pc[t] = "idle" => AllIdle
    BY <2>1 DEF AllIdle
  <2> QED
    BY <1>2, <2>1, <2>2, <2>3 DEF Serial, Good, Rest
<1> QED
  BY <1>1, <1>2

\* The same, of the state a step leads to.
LEMMA GoodIsSerialNext == (\A t \in Threads : Good(t) => Serial)'
BY SerialIsGood, PTL

\* Types and operations of one goroutine.
LEMMA Facts ==
    ASSUME IInv, NEW t \in Threads
    PROVE  /\ pc \in [Threads -> Pcs] /\ op \in [Threads -> Ops] /\ cfg \in [Threads -> Configs]
           /\ ref \in [Threads -> Boxes \cup {NoBox}] /\ running \in BOOLEAN
           /\ boxes \in [Boxes -> [st : BoxStates, cfg : Configs]]
           /\ save \in Saves /\ db \in Configs
           /\ instance \in Boxes \cup {NoBox} /\ OpOK(t) /\ NoBox \notin Boxes
BY ValuesAssumption DEF IInv, TypeOK, CoreTypes, StoreTypes, LocalTypes, ControlOK

\* Where a goroutine in a step of Core.Start goes, the core is as it should be.
LEMMA StartSteps ==
    ASSUME IInv, NEW t \in Threads, Good(t), pc[t] # "idle",
           \/ StartCoreCheck(t) \/ StartCoreLock(t) \/ StartCoreConfig(t)
           \/ NewBox(t) \/ BootBox(t) \/ BoxStarts(t) \/ BoxStartFails(t)
           \/ CloseFailedBox(t) \/ Publish(t)
    PROVE  Good(t)'
<1>. USE Facts DEF At, Good, Rest, OnlyInstance, OpOK
<1>1. CASE StartCoreCheck(t)
  BY <1>1
  DEF StartCoreCheck, Starting, Stopping, Saving, Restoring, Settled, Up, Down, Serves, Target
<1>2. CASE StartCoreLock(t)
  BY <1>2
  DEF StartCoreLock, Starting, Stopping, Saving, Restoring, Settled, Up, Down, Serves, Target
<1>3. CASE StartCoreConfig(t)
  BY <1>3
  DEF StartCoreConfig, Starting, Stopping, Saving, Restoring, Settled, Up, Down, Serves, Target
<1>4. CASE NewBox(t)
  <2>1. CASE pc' = [pc EXCEPT ![t] = "release"]
    <3>1. StartFails(t) /\ instance' \in {instance, NoBox} /\ UNCHANGED boxes
      BY <1>4, <2>1 DEF NewBox, Goto
    <3> QED
      BY <1>4, <2>1, <3>1 DEF NewBox, StartFails, Starting, Stopping, Saving, Restoring,
                              Settled, Up, Down, Serves, Target
  <2>2. CASE pc' = [pc EXCEPT ![t] = "boot"]
    <3>1. FreeBoxes # {} /\ instance' = CHOOSE x \in FreeBoxes : TRUE
      BY <1>4, <2>2 DEF NewBox, StartFails, Goto
    <3>2. instance' \in FreeBoxes
      BY <3>1
    <3>3. boxes' = [boxes EXCEPT ![instance'].st = "built", ![instance'].cfg = cfg[t]]
      BY <1>4, <2>2 DEF NewBox, StartFails, Goto
    <3>4. /\ instance' \in Boxes /\ boxes'[instance'].cfg = cfg[t]
          /\ \A b \in Boxes \ {instance'} : boxes'[b] = boxes[b]
      BY <3>2, <3>3 DEF FreeBoxes
    <3>5. cfg[t] = Target(t) /\ Target(t)' = Target(t)
      BY <1>4 DEF NewBox, Restoring, Target
    <3>6. Starting(t)'
      BY <1>4, <2>2, <3>4, <3>5 DEF NewBox, Starting, Up, Down, Serves
    <3>7. Stopping(t)' /\ Saving(t)' /\ Restoring(t)'
      BY <1>4, <2>2 DEF NewBox, Stopping, Saving, Restoring, Target
    <3>8. OnlyInstance'
      BY <1>4, <3>4 DEF NewBox, Starting, Down
    <3> QED
      BY <1>4, <2>2, <3>6, <3>7, <3>8 DEF NewBox
  <2> QED
    BY <1>4, <2>1, <2>2 DEF NewBox, StartFails, Goto
<1>5. CASE BootBox(t)
  BY <1>5 DEF BootBox, Starting, Stopping, Saving, Restoring, Settled, Up, Down, Serves, Target
<1>6. CASE BoxStarts(t)
  BY <1>6 DEF BoxStarts, Starting, Stopping, Saving, Restoring, Settled, Up, Down, Serves, Target
<1>7. CASE BoxStartFails(t)
  BY <1>7
  DEF BoxStartFails, Starting, Stopping, Saving, Restoring, Settled, Up, Down, Serves, Target
<1>8. CASE CloseFailedBox(t)
  BY <1>8
  DEF CloseFailedBox, StartFails, Closed, Starting, Stopping, Saving, Restoring, Settled, Up,
      Down, Serves, Target
<1>9. CASE Publish(t)
  BY <1>9 DEF Publish, Starting, Stopping, Saving, Restoring, Settled, Up, Down, Serves, Target
<1> QED
  BY <1>1, <1>2, <1>3, <1>4, <1>5, <1>6, <1>7, <1>8, <1>9

\* ... in a step of Core.Stop ...
LEMMA StopSteps ==
    ASSUME IInv, NEW t \in Threads, Good(t), pc[t] # "idle",
           StopCore(t) \/ CloseBox(t) \/ BoxCloses(t) \/ ClearInstance(t) \/ Release(t)
    PROVE  Good(t)'
<1>. USE Facts DEF At, Good, Rest, OnlyInstance, OpOK
<1>1. CASE StopCore(t)
  BY <1>1 DEF StopCore, AfterStop, CallStartCore, Starting, Stopping, Saving, Restoring,
              Settled, Up, Down, Serves, Target
<1>2. CASE CloseBox(t)
  BY <1>2 DEF CloseBox, Starting, Stopping, Saving, Restoring, Settled, Up, Down, Serves, Target
<1>3. CASE BoxCloses(t)
  BY <1>3 DEF BoxCloses, Closed, Starting, Stopping, Saving, Restoring, Settled, Up, Down,
              Serves, Target
<1>4. CASE ClearInstance(t)
  BY <1>4 DEF ClearInstance, AfterStop, CallStartCore, Starting, Stopping, Saving, Restoring,
              Settled, Up, Down, Serves, Target
<1>5. CASE Release(t)
  BY <1>5 DEF Release, AfterRaw, Starting, Stopping, Saving, Restoring, Settled, Up, Down,
              Serves, Target
<1> QED
  BY <1>1, <1>2, <1>3, <1>4, <1>5

\* ... and in a step of a save.
LEMMA SaveSteps ==
    ASSUME IInv, Good(Saver), pc[Saver] # "idle", SaverStep
    PROVE  Good(Saver)'
<1>0. Saver \in Threads
  BY Constants
<1>. USE <1>0, Facts DEF At, Good, Rest, OnlyInstance, OpOK
<1>1. CASE RawLock
  <2>1. ~inProgress
    BY <1>1 DEF RawLock, IInv, StartExclusive, InRegion
  <2> QED
    BY <1>1, <2>1 DEF RawLock, Starting, Stopping, Saving, Restoring, Settled, Up, Down,
                      Serves, Target
<1>2. CASE RawCheck
  BY <1>2 DEF RawCheck, Starting, Stopping, Saving, Restoring, Settled, Up, Down, Serves, Target
<1>3. CASE RawVerify
  BY <1>3, ZenonT(60) DEF RawVerify, Starting, Stopping, Saving, Restoring, Settled, Up, Down,
                          Serves, Target
<1>4. CASE HotCheck
  BY <1>4 DEF HotCheck, Starting, Stopping, Saving, Restoring, Settled, Up, Down, Serves, Target
<1>5. ASSUME NEW o \in HotObjects, HotStep(o) PROVE Good(Saver)'
  <2>1. pc[Saver] = "hot" /\ o \in save.todo /\ Up /\ ~save.cold /\ save.was
    BY <1>5 DEF HotStep, Saving, Up, Down
  <2>2. CASE pc' = [pc EXCEPT ![Saver] = "undo"] /\ UNCHANGED <<boxes, save>>
    BY <1>5, <2>1, <2>2, ZenonT(60) DEF HotStep, Starting, Stopping, Saving, Restoring,
                                          Settled, Up, Down, Serves, Target
  <2>3. ASSUME NEW v, Mutate(o, v)
        PROVE  /\ \A b \in Boxes : boxes'[b].st = boxes[b].st
               /\ boxes'[instance].cfg = [boxes[instance].cfg EXCEPT ![o] = v]
    BY <2>1, <2>3 DEF Mutate, Up
  <2>4. CASE /\ Mutate(o, Absent) /\ UNCHANGED save
             /\ pc' = [pc EXCEPT ![Saver] = "undo"]
    <3>1. \A b \in Boxes : boxes'[b].st = boxes[b].st
      BY <2>3, <2>4
    <3>2. UNCHANGED <<running, instance, manager, skipped, db, op, cfg, ref, failed, save>>
      BY <1>5, <2>4 DEF HotStep, flags, store
    <3>3. Up'
      BY <2>1, <3>1, <3>2 DEF Up
    <3>4. Starting(Saver)' /\ Stopping(Saver)'
      BY <2>1, <2>4, <3>3 DEF Starting, Stopping
    <3>5. Saving(Saver)' /\ Restoring(Saver)'
      BY <2>1, <2>4, <3>2, <3>3 DEF Saving, Restoring, Target, Up
    <3> QED
      BY <2>1, <2>4, <3>1, <3>2, <3>4, <3>5
  <2>5. CASE /\ Mutate(o, save.staged[o])
             /\ save' = [save EXCEPT !.todo = save.todo \ {o}]
             /\ pc' = [pc EXCEPT ![Saver] = IF save.todo = {o} THEN "commit" ELSE "hot"]
    <3>0. /\ boxes[instance].cfg \in Configs /\ save.staged \in Configs
          /\ boxes'[instance].cfg = [boxes[instance].cfg EXCEPT ![o] = save.staged[o]]
      BY <2>1, <2>3, <2>5 DEF Up, Saves
    <3>1. /\ \A b \in Boxes : boxes'[b].st = boxes[b].st
          /\ \A x \in Objects : boxes'[instance].cfg[x] =
                         IF x = o THEN save.staged[o] ELSE boxes[instance].cfg[x]
      BY <2>3, <2>5, <3>0 DEF Configs
    <3>2. /\ save'.staged = save.staged /\ save'.old = save.old /\ save'.was
          /\ ~save'.cold /\ save'.todo = save.todo \ {o} /\ save'.apply = save.apply
      BY <2>1, <2>5 DEF Saves
    <3>3. UNCHANGED <<running, instance, manager, skipped, db, op, cfg, ref, failed>>
      BY <1>5 DEF HotStep, flags, store
    <3>4. skipped \/ \A x \in Objects : boxes'[instance].cfg[x] =
                         IF x \in save'.todo THEN db[x] ELSE save.staged[x]
      BY <2>1, <3>1, <3>2 DEF Saving
    <3>5. Up'
      BY <2>1, <3>1, <3>3 DEF Up
    <3>6. Starting(Saver)' /\ Stopping(Saver)'
      BY <2>1, <2>5, <3>5 DEF Starting, Stopping
    <3>7. Restoring(Saver)'
      BY <2>1, <2>5, <3>2, <3>3 DEF Restoring, Target
    <3>8. save.todo = {o} => (skipped \/ Serves(save.staged))'
      <4>1. SUFFICES ASSUME save.todo = {o}, ~skipped PROVE Serves(save.staged)'
        BY <3>3
      <4>2. \A x \in Objects : boxes'[instance].cfg[x] = save.staged[x]
        BY <3>2, <3>4, <4>1
      <4>3. boxes'[instance].cfg = save.staged
        BY <3>0, <4>2 DEF Configs
      <4> QED
        BY <3>2, <3>3, <4>3 DEF Serves
    <3>9. Saving(Saver)'
      <4>1. pc'[Saver] = IF save.todo = {o} THEN "commit" ELSE "hot"
        BY <2>5
      <4>2. running'
        BY <3>5 DEF Up
      <4>3. CASE save.todo = {o}
        BY <2>1, <3>2, <3>5, <3>8, <4>1, <4>2, <4>3 DEF Saving
      <4>4. CASE save.todo # {o}
        <5>1. skipped' \/ \A x \in Objects : boxes'[instance'].cfg[x] =
                             IF x \in save'.todo THEN db'[x] ELSE save'.staged[x]
          BY <3>2, <3>3, <3>4
        <5> QED
          BY <3>2, <3>5, <4>1, <4>2, <4>4, <5>1 DEF Saving
      <4> QED
        BY <4>3, <4>4
    <3> QED
      BY <1>5, <2>1, <2>5, <3>1, <3>3, <3>6, <3>7, <3>9
  <2>6. instance # NoBox
    BY <2>1 DEF Up
  <2> QED
    BY <1>5, <2>2, <2>4, <2>5, <2>6 DEF HotStep, Goto
<1>6. CASE Validate
  BY <1>6 DEF Validate, CallRaw, Starting, Stopping, Saving, Restoring, Settled, Up, Down,
              Serves, Target
<1>7. CASE Commit
  BY <1>7 DEF Commit, CallStartCore, Starting, Stopping, Saving, Restoring, Settled, Up, Down,
              Serves, Target
<1>8. CASE CommitFails
  BY <1>8 DEF CommitFails, Starting, Stopping, Saving, Restoring, Settled, Up, Down, Serves, Target
<1>9. CASE Undo
  BY <1>9
  DEF Undo, CallRaw, Starting, Stopping, Saving, Restoring, Settled, Up, Down, Serves, Target
<1>10. CASE restoreRuntimeState
  BY <1>10 DEF restoreRuntimeState, CallRaw, Starting, Stopping, Saving, Restoring, Settled,
               Up, Down, Serves, Target
<1> QED
  BY <1>1, <1>2, <1>3, <1>4, <1>5, <1>6, <1>7, <1>8, <1>9, <1>10 DEF SaverStep

\* An operation begins when none is under way.
LEMMA Begins ==
    ASSUME IInv, NEW t \in Threads, Good(t), AllIdle,
           \/ CheckCore(t) \/ RestartCore(t)
           \/ t = Saver /\ SaveRequest
    PROVE  Good(t)'
<1>. USE Facts DEF At, Good, Rest, OnlyInstance, OpOK, AllIdle
<1>1. CASE CheckCore(t)
  BY <1>1 DEF CheckCore, Starting, Stopping, Saving, Restoring, Settled, Up, Down, Serves, Target
<1>2. CASE RestartCore(t)
  BY <1>2 DEF RestartCore, Starting, Stopping, Saving, Restoring, Settled, Up, Down, Serves, Target
<1>3. ASSUME NEW S \in SUBSET HotObjects, NEW v, NEW apply, t = Saver, SaveHot(S, v, apply)
      PROVE  Good(t)'
  BY <1>3 DEF SaveHot, Starting, Stopping, Saving, Restoring, Settled, Up, Down, Serves, Target
<1>4. ASSUME NEW o, NEW v, NEW apply, t = Saver, SaveCold(o, v, apply) PROVE Good(t)'
  BY <1>4 DEF SaveCold, Starting, Stopping, Saving, Restoring, Settled, Up, Down, Serves, Target
<1> QED
  BY <1>1, <1>2, <1>3, <1>4 DEF SaveRequest

\* The process starts with the core down.
LEMMA StartGood == ProcessStart => Good(Main)'
BY Constants DEF ProcessStart, Good, Rest, OnlyInstance, At, Closed, Starting, Stopping,
                 Saving, Restoring, Settled, Up, Down, Serves, Target

\* App.Start begins with the core down, and either calls StartCore, or returns,
\* or ends the process.
LEMMA AppSteps ==
    ASSUME IInv, Good(Main), AppStart
    PROVE  Good(Main)'
<1>. USE Constants, Facts DEF At, Good, Rest, OnlyInstance, OpOK
<1>1. CASE ProcessStart
  BY <1>1, StartGood
<1>2. CASE ~ProcessStart
  BY <1>2 DEF AppStart, CallStartCore, Starting, Stopping, Saving, Restoring, Settled, Up, Down,
              Serves, Target
<1> QED
  BY <1>1, <1>2

\* Serial is inductive when operations do not overlap.
LEMMA SerialStep ==
    ASSUME ~Overlap, IInv, Serial, [Next]_vars
    PROVE  Serial'
<1>. USE Constants
<1>1. ASSUME NEW t \in Threads, CoreStep(t) PROVE Serial'
  <2>1. pc[t] # "idle"
    BY <1>1 DEF CoreStep, StartCoreCheck, StartCoreLock, StartCoreConfig, NewBox, BootBox,
                BoxStarts, BoxStartFails, CloseFailedBox, Publish, StopCore, CloseBox,
                BoxCloses, ClearInstance, Release
  <2>2. Good(t)
    BY <2>1, SerialIsGood
  <2>3. Good(t)'
    BY <1>1, <2>1, <2>2, StartSteps, StopSteps DEF CoreStep
  <2> QED
    BY <2>3, GoodIsSerialNext
<1>2. ASSUME NEW t \in Threads, CheckCore(t) \/ RestartCore(t) PROVE Serial'
  <2>1. AllIdle
    BY <1>2 DEF CheckCore, RestartCore, CanBegin
  <2>2. Good(t)'
    BY <1>2, <2>1, SerialIsGood, Begins
  <2> QED
    BY <2>2, GoodIsSerialNext
<1>3. CASE SaverStep
  <2>1. pc[Saver] # "idle"
    BY <1>3 DEF SaverStep, RawLock, RawCheck, RawVerify, HotCheck, HotStep, Validate, Commit,
                CommitFails, Undo, restoreRuntimeState
  <2>2. Good(Saver)'
    BY <1>3, <2>1, SerialIsGood, SaveSteps
  <2> QED
    BY <2>2, GoodIsSerialNext
<1>4. CASE SaveRequest
  <2>1. AllIdle
    BY <1>4 DEF SaveRequest, SaveHot, SaveCold, CanBegin
  <2>2. Good(Saver)'
    BY <1>4, <2>1, SerialIsGood, Begins
  <2> QED
    BY <2>2, GoodIsSerialNext
<1>5. CASE CoolDown \/ UNCHANGED vars
  BY <1>5 DEF CoolDown, Serial, OnlyInstance, Lone, AllIdle, At, Starting, Stopping, Saving,
              Restoring, Settled, Up, Down, Serves, Target
<1>6. CASE Kill
  BY <1>6, StartGood, GoodIsSerialNext DEF Kill
<1>7. CASE AppStart
  <2>1. Good(Main)
    BY <1>7, SerialIsGood DEF AppStart
  <2> QED
    BY <1>7, <2>1, AppSteps, GoodIsSerialNext
<1> QED
  BY <1>1, <1>2, <1>3, <1>4, <1>5, <1>6, <1>7 DEF Next

\* Serial holds from the start on.
THEOREM SerialHolds == ~Overlap => (Spec => []Serial)
<1> SUFFICES ASSUME ~Overlap PROVE Spec => []Serial
  OBVIOUS
<1>1. Init => Serial
  <2>1. Init => Good(Main)
    BY Constants DEF Init, Good, Rest, OnlyInstance, At, Closed, Starting, Stopping,
                     Saving, Restoring, Settled, Up, Down, Serves, Target
  <2> QED
    BY <2>1, SerialIsGood, Constants
<1>2. IInv /\ Serial /\ [Next]_vars => Serial'
  BY SerialStep
<1> QED
  BY <1>1, <1>2, Inductive, PTL DEF Spec

\* While operations do not overlap, whatever step of them failed or killed the
\* process: a core that reports running is an open box that serves the
\* committed configuration, unless the last save asked not to apply it
\* (SaveWithApply, restartCoreWithRaw, restoreRuntimeState).
THEOREM RuntimeFollows == ~Overlap => (Spec => []RuntimeFollowsDb)
<1> SUFFICES ASSUME ~Overlap PROVE Spec => []RuntimeFollowsDb
  OBVIOUS
<1>1. Serial => RuntimeFollowsDb
  BY DEF Serial, Settled, Up, Down, Serves, RuntimeFollowsDb, Live
<1> QED
  BY <1>1, SerialHolds, PTL

\* While operations do not overlap, no failed start, stop, apply or undo
\* leaves a box open that nothing refers to (Core.Start, Core.Stop).
THEOREM NoBoxLost == ~Overlap => (Spec => []NoOrphans)
<1> SUFFICES ASSUME ~Overlap PROVE Spec => []NoOrphans
  OBVIOUS
<1>1. Serial => NoOrphans
  BY ValuesAssumption DEF Serial, Settled, OnlyInstance, Up, Down, NoOrphans
<1> QED
  BY <1>1, SerialHolds, PTL

=============================================================================
