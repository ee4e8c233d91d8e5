------------------------ MODULE ModuleLifecycleProofs ------------------------
(***************************************************************************)
(* Proofs about ModuleLifecycle for every set of modules and every bound.  *)
(***************************************************************************)
EXTENDS ModuleLifecycle, TLAPS

\* The methods of class Module return module objects.
LEMMA ObjectMethods ==
    ASSUME NEW m \in Modules, NEW r \in ModuleObject
    PROVE  /\ OnEnable(r) \in ModuleObject
           /\ BaseOnDisable(r) \in ModuleObject
           /\ OnDisable(m, r) \in ModuleObject
           /\ ResetSettings(r) \in ModuleObject
           /\ \A b \in BOOLEAN : PostLoad(m, r, b) \in ModuleObject
<1>1. /\ OnEnable(r) \in ModuleObject
      /\ BaseOnDisable(r) \in ModuleObject
      /\ ResetSettings(r) \in ModuleObject
  BY DEF OnEnable, BaseOnDisable, ResetSettings, ModuleObject, Setting
<1>2. OnDisable(m, r) \in ModuleObject
  BY <1>1 DEF OnDisable, ModuleObject
<1>3. ASSUME NEW b \in BOOLEAN PROVE PostLoad(m, r, b) \in ModuleObject
  <2> DEFINE filled == [r EXCEPT !.enabled = IF @ = "absent" THEN Default(m) ELSE @]
  <2>1. filled \in ModuleObject
    BY DEF ModuleObject, Setting, Default, AsSetting
  <2>2. OnEnable(filled) \in ModuleObject
    BY <2>1 DEF OnEnable, ModuleObject, Setting
  <2> QED BY <2>1, <2>2 DEF PostLoad
<1> QED BY <1>1, <1>2, <1>3

\* And so do the assignments to single fields.
LEMMA ObjectFields ==
    ASSUME NEW r \in ModuleObject, NEW b \in BOOLEAN, NEW e \in Setting
    PROVE  /\ [r EXCEPT !.terminating = b] \in ModuleObject
           /\ [r EXCEPT !.enabledState = b] \in ModuleObject
           /\ [r EXCEPT !.enabledState = b, !.enabled = e] \in ModuleObject
           /\ [r EXCEPT !.enabledState = b, !.active = b] \in ModuleObject
BY DEF ModuleObject

\* So do the statements of RESET ALL.
LEMMA ResetFields ==
    ASSUME NEW r \in ModuleObject
    PROVE  /\ [r EXCEPT !.enabledState = FALSE, !.active = FALSE] \in ModuleObject
           /\ [r EXCEPT !.enabled = IF @ = "absent" THEN @ ELSE "on"] \in ModuleObject
           /\ [r EXCEPT !.enabledState = TRUE] \in ModuleObject
BY DEF ModuleObject, Setting

\* Loading a module's settings gives a module object.
LEMMA LoadedObject ==
    ASSUME NEW m \in Modules, NEW r \in ModuleObject, loaded \in [Modules -> Setting]
    PROVE  LoadSettings(m, r) \in ModuleObject
<1>1. [r EXCEPT !.enabled = loaded[m]] \in ModuleObject
  BY DEF ModuleObject
<1> QED BY <1>1, ObjectMethods DEF LoadSettings

\* While the render thread is between the two halves of a toggle, that toggle is at
\* the front of the queue: only DrainWrite pops (the lock of processPendingToggles).
FrontToggle == pcRender = "write" => pendingToggles # <<>>

\* A loop and a page that are in use are at a module.
Places ==
    /\ pcInit \in {"reset", "load"} => cur \in Modules
    /\ pcRender \in ResetPlaces => page \in Modules

TypeInv == TypeOK /\ FrontToggle /\ Places

\* A statement of RESET ALL that leaves a module object keeps the type.
LEMMA ResetStepTyped ==
    ASSUME TypeInv, NEW here \in ResetPlaces, NEW next \in ResetPlaces, NEW r,
           mod[page] \in ModuleObject => r \in ModuleObject, ResetStep(here, next, r)
    PROVE  TypeInv'
<1>1. page \in Modules /\ mod \in [Modules -> ModuleObject]
  BY DEF TypeInv, TypeOK, Places, ResetStep
<1>2. mod' \in [Modules -> ModuleObject]
  BY <1>1 DEF ResetStep
<1>3. pcRender' \in ResetPlaces /\ pcRender' # "write"
  BY DEF ResetStep, ResetPlaces
<1> QED
  BY <1>1, <1>2, <1>3
     DEF ResetStep, TypeInv, TypeOK, FrontToggle, Places, initVars, config, bounds

\* The initial state has its type.
LEMMA InitTyped == Init => TypeInv
<1> SUFFICES ASSUME Init PROVE TypeInv
  OBVIOUS
<1>1. \A m \in Modules : FreshModule(m) \in ModuleObject
  BY DEF FreshModule, ModuleObject, Setting
<1>2. /\ file \in [Modules -> Setting] /\ loaded \in [Modules -> Setting]
      /\ mod \in [Modules -> ModuleObject]
  BY <1>1, LoadedObject DEF Init
<1>3. /\ pendingToggles \in Seq(Toggle)
      /\ clicks \in 0..MaxClicks /\ restarts \in 0..MaxRestarts
  BY BoundsAssumption DEF Init
<1>4. pcRender = "idle"
  BY DEF Init
<1> QED
  <2>1. /\ initialized \in BOOLEAN /\ restartModules \in BOOLEAN /\ disable \in BOOLEAN
        /\ moduleMap \subseteq Modules /\ work \subseteq Modules /\ cur = NoModule
        /\ page = NoModule /\ wasEnabled = FALSE /\ raced = FALSE
        /\ pcInit = "loop" /\ pcGame = "idle" /\ faults = {}
    BY DEF Init
  <2> QED BY <1>2, <1>3, <1>4, <2>1 DEF TypeInv, TypeOK, FrontToggle, Places, ResetPlaces

\* What SaveSettings writes is a configuration.
LEMMA SavedTyped == TypeInv => SavedSettings \in [Modules -> Setting]
BY DEF TypeInv, TypeOK, SavedSettings, ModuleObject, Setting

\* Every step keeps the type.
LEMMA StepTyped == TypeInv /\ [Next]_vars => TypeInv'
<1> SUFFICES ASSUME TypeInv, [Next]_vars PROVE TypeInv'
  OBVIOUS
<1> USE ModulesAssumption, BoundsAssumption DEF TypeInv, TypeOK, FrontToggle, Places, ResetPlaces, renderVars, config
<1>1. CASE RestartBegin
  BY <1>1 DEF RestartBegin, bounds
<1>2. ASSUME NEW m \in Modules, RestartDisable(m) PROVE TypeInv'
  BY <1>2, ObjectMethods DEF RestartDisable, bounds
<1>3. CASE RestartReset
  BY <1>3, ObjectMethods DEF RestartReset, bounds
<1>4. CASE RestartLoad
  BY <1>4, LoadedObject DEF RestartLoad, bounds
<1>5. CASE RestartEnd
  BY <1>5 DEF RestartEnd, bounds
<1>6. CASE TerminateBegin
  BY <1>6 DEF TerminateBegin, bounds
<1>7. ASSUME NEW m \in Modules, TerminateModule(m) PROVE TypeInv'
  <2>1. [mod[m] EXCEPT !.terminating = TRUE] \in ModuleObject
    <3>1. mod[m] \in ModuleObject
      OBVIOUS
    <3> QED BY <3>1, ObjectFields DEF Setting
  <2>2. mod' \in [Modules -> ModuleObject]
    <3> DEFINE r == [mod[m] EXCEPT !.terminating = TRUE]
    <3>1. mod' = [mod EXCEPT ![m] = OnDisable(m, r)]
      BY <1>7 DEF TerminateModule
    <3> HIDE DEF r
    <3>2. OnDisable(m, r) \in ModuleObject
      BY <2>1, ObjectMethods DEF r
    <3>3. mod \in [Modules -> ModuleObject]
      OBVIOUS
    <3> QED BY <3>1, <3>2, <3>3
  <2> QED BY <1>7, <2>2 DEF TerminateModule, bounds
<1>8. CASE TerminateEnd
  BY <1>8 DEF TerminateEnd, bounds
<1>9. CASE Unhook
  BY <1>9 DEF Unhook, bounds
<1>10. CASE FrameBegin
  BY <1>10 DEF FrameBegin, initVars, bounds
<1>11. CASE DrainCallback
  <2>1. Head(pendingToggles) \in Toggle
    BY <1>11 DEF DrainCallback
  <2>2. Head(pendingToggles).module \in Modules
    BY <2>1 DEF Toggle
  <2>3. mod' \in [Modules -> ModuleObject]
    BY <1>11, <2>2, ObjectMethods DEF DrainCallback
  <2> QED BY <1>11, <2>3 DEF DrainCallback, initVars, bounds
<1>12. CASE DrainWrite
  <2> DEFINE t == Head(pendingToggles)
  <2>1. t \in Toggle /\ Tail(pendingToggles) \in Seq(Toggle)
    BY <1>12 DEF DrainWrite
  <2>2. t.module \in Modules /\ t.enable \in BOOLEAN
    BY <2>1 DEF Toggle
  <2>3. AsSetting(t.enable) \in Setting
    BY DEF AsSetting, Setting
  <2> HIDE DEF t
  <2>4. mod' \in [Modules -> ModuleObject]
    <3>1. mod' \in {[mod EXCEPT ![t.module].enabledState = t.enable],
                    [mod EXCEPT ![t.module].enabledState = t.enable,
                                ![t.module].enabled = AsSetting(t.enable)]}
      BY <1>12 DEF DrainWrite, t
    <3>2. mod \in [Modules -> ModuleObject]
      OBVIOUS
    <3>3. mod[t.module] \in ModuleObject
      BY <2>2, <3>2
    <3>4. /\ [mod[t.module] EXCEPT !.enabledState = t.enable] \in ModuleObject
          /\ [mod[t.module] EXCEPT !.enabledState = t.enable,
                                   !.enabled = AsSetting(t.enable)] \in ModuleObject
      BY <2>2, <2>3, <3>3, ObjectFields
    <3>5. mod' \in {[mod EXCEPT ![t.module] = [mod[t.module] EXCEPT !.enabledState = t.enable]],
                    [mod EXCEPT ![t.module] = [mod[t.module] EXCEPT
                                                !.enabledState = t.enable,
                                                !.enabled = AsSetting(t.enable)]]}
      BY <2>2, <3>1, <3>2
    <3> QED BY <2>2, <3>2, <3>4, <3>5
  <2>5. pcRender' = "drain" /\ pendingToggles' \in Seq(Toggle)
    BY <1>12, <2>1 DEF DrainWrite, t
  <2>6. faults' \subseteq {"null_toggle", "null_setting", "destroyed_module"}
    BY <1>12 DEF DrainWrite
  <2> QED BY <1>12, <2>4, <2>5, <2>6 DEF DrainWrite, initVars, bounds
<1>13. CASE TriggerRender
  BY <1>13 DEF TriggerRender, initVars, bounds
<1>14. ASSUME NEW m \in Modules, Click(m) PROVE TypeInv'
  <2>1. pendingToggles' \in Seq(Toggle)
    <3>1. [module |-> m, enable |-> mod[m].enabled = "off"] \in Toggle
      BY DEF Toggle
    <3> QED BY <1>14, <3>1 DEF Click
  <2>2. clicks' \in 0..MaxClicks
    BY <1>14 DEF Click
  <2>3. faults' \subseteq {"null_toggle", "null_setting", "destroyed_module"} /\ pcRender' = "dispatch"
    BY <1>14 DEF Click
  <2> QED BY <1>14, <2>1, <2>2, <2>3 DEF Click, initVars
<1>15. ASSUME NEW m \in Modules, ResetBegin(m) PROVE TypeInv'
  <2>1. mod[m].enabledState \in BOOLEAN
    BY DEF ModuleObject
  <2>2. clicks' \in 0..MaxClicks
    BY <1>15 DEF ResetBegin
  <2> QED BY <1>15, <2>1, <2>2 DEF ResetBegin, initVars
<1>16. ASSUME NEW m \in Modules, RenderHandler(m) PROVE TypeInv'
  BY <1>16 DEF RenderHandler, initVars, bounds
<1>17. CASE FrameEnd
  BY <1>17 DEF FrameEnd, initVars, bounds
<1>18. CASE TriggerGame
  BY <1>18 DEF TriggerGame, initVars, bounds
<1>19. ASSUME NEW m \in Modules, Keybind(m) PROVE TypeInv'
  <2>1. [mod[m] EXCEPT !.active = ~@] \in ModuleObject
    <3>1. mod[m] \in ModuleObject
      OBVIOUS
    <3> QED BY ONLY <3>1 DEF ModuleObject
  <2>2. mod' \in [Modules -> ModuleObject] /\ faults' \subseteq {"null_toggle", "null_setting", "destroyed_module"}
    BY <1>19, <2>1 DEF Keybind, Handles
  <2> QED BY <1>19, <2>2 DEF Keybind, Handles, initVars, bounds
<1>20. ASSUME NEW m \in Modules, Layout(m) PROVE TypeInv'
  <2>1. [mod[m] EXCEPT !.delayDisable = FALSE, !.restored = TRUE] \in ModuleObject
    <3>1. mod[m] \in ModuleObject
      OBVIOUS
    <3> QED BY ONLY <3>1 DEF ModuleObject
  <2>2. mod' \in [Modules -> ModuleObject] /\ faults' \subseteq {"null_toggle", "null_setting", "destroyed_module"}
    BY <1>20, <2>1 DEF Layout, Handles
  <2> QED BY <1>20, <2>2 DEF Layout, Handles, initVars, bounds
<1>21. CASE RequestRestart
  BY <1>21 DEF RequestRestart, initVars
<1>22. CASE Eject
  BY <1>22 DEF Eject, initVars, bounds
<1>23. CASE GameEnd
  BY <1>23 DEF GameEnd, initVars, bounds
<1>24. CASE UNCHANGED vars
  BY <1>24 DEF vars, initVars, bounds
<1>25. CASE RestartSave
  BY <1>25, SavedTyped DEF RestartSave, bounds
<1>26. CASE ResetOff
  <2>1. mod[page] \in ModuleObject => [mod[page] EXCEPT !.enabledState = FALSE, !.active = FALSE] \in ModuleObject
    BY ResetFields
  <2> QED BY ONLY TypeInv, <1>26, <2>1, ResetStepTyped DEF ResetOff, ResetPlaces
<1>27. CASE ResetClear
  <2>1. mod[page] \in ModuleObject => ResetSettings(mod[page]) \in ModuleObject
    BY DEF ResetSettings, ModuleObject, Setting
  <2> QED BY ONLY TypeInv, <1>27, <2>1, ResetStepTyped DEF ResetClear, ResetPlaces
<1>28. CASE ResetRefill
  <2> DEFINE next == IF wasEnabled THEN "set" ELSE "save"
             r == PostLoad(page, mod[page], TRUE)
  <2>1. page \in Modules /\ next \in ResetPlaces
    BY <1>28 DEF ResetRefill, ResetStep
  <2>2. mod[page] \in ModuleObject => r \in ModuleObject
    BY <2>1, ObjectMethods
  <2>3. ResetStep("refill", next, r)
    BY <1>28 DEF ResetRefill
  <2>4. "refill" \in ResetPlaces
    OBVIOUS
  <2> HIDE DEF next, r
  <2> QED BY ONLY TypeInv, <2>1, <2>2, <2>3, <2>4, ResetStepTyped
<1>29. CASE ResetSet
  <2>1. mod[page] \in ModuleObject => [mod[page] EXCEPT !.enabled = IF @ = "absent" THEN @ ELSE "on"] \in ModuleObject
    BY ResetFields
  <2> QED BY ONLY TypeInv, <1>29, <2>1, ResetStepTyped DEF ResetSet, ResetPlaces
<1>30. CASE ResetRaise
  <2>1. mod[page] \in ModuleObject => [mod[page] EXCEPT !.enabledState = TRUE] \in ModuleObject
    BY ResetFields
  <2> QED BY ONLY TypeInv, <1>30, <2>1, ResetStepTyped DEF ResetRaise, ResetPlaces
<1>31. CASE ResetSave
  BY <1>31, SavedTyped DEF ResetSave, initVars, bounds
<1>32. CASE ResetLoad
  BY <1>32 DEF ResetLoad, initVars, bounds
<1> QED
  BY <1>1, <1>2, <1>3, <1>4, <1>5, <1>6, <1>7, <1>8, <1>9, <1>10, <1>11, <1>12, <1>13,
     <1>14, <1>15, <1>16, <1>17, <1>18, <1>19, <1>20, <1>21, <1>22, <1>23, <1>24, <1>25,
     <1>26, <1>27, <1>28, <1>29, <1>30, <1>31, <1>32
     DEF Next, InitThread, RenderThread, GameThread, Stopped, ResetGoesOn

\* Type correctness of the whole state, for every set of modules and every bound.
THEOREM TypeCorrect == Spec => []TypeOK
<1>1. TypeInv => TypeOK
  BY DEF TypeInv
<1> QED BY <1>1, InitTyped, StepTyped, PTL DEF Spec

-----------------------------------------------------------------------------
(* FlagsAgree.  It is not inductive: a toggle leaves the object half changed *)
(* between onEnable and the two writes, RESET ALL between its statements,    *)
(* and restart() takes each module through a state without a setting.        *)
(* AgreeInv says what those states are, and that a restart which comes       *)
(* between such statements is on record (raced).                             *)

\* The client has not begun to terminate.
Running == pcInit \in {"loop", "restart", "reset", "load", "save"}

\* What is left of a module that restart() has disabled and not loaded yet.
SwitchedOff(m, r) == ~r.enabledState /\ ~r.active /\ (r.listening => m \in Movable)

\* What the statements of RESET ALL have made of a module that agreed with itself.
HalfReset(m, r) ==
    /\ ~r.enabledState /\ ~r.active
    /\ r.listening => wasEnabled \/ m \in Movable
    /\ wasEnabled => r.listening
    /\ pcRender = "refill" => r.enabled = "absent"
    /\ pcRender = "set" => wasEnabled /\ r.enabled # "absent"
    /\ pcRender = "raise" => wasEnabled /\ r.enabled = "on"

\* Every module agrees with itself, unless restart() is between disabling and loading
\* it, or RESET ALL between switching it off and on again.
Consistent(m) ==
    /\ ~mod[m].terminating
    /\ IF pcInit \in {"reset", "load"} /\ cur = m THEN SwitchedOff(m, mod[m])
       ELSE IF InReset(m) THEN HalfReset(m, mod[m]) ELSE Agrees(m, mod[m])
    /\ pcRender = "off" /\ page = m => wasEnabled = mod[m].enabledState

\* The callback of a toggle has already made the two writes that follow it.
CallbackDone ==
    pcRender = "write" =>
        /\ mod[Head(pendingToggles).module].enabledState = Head(pendingToggles).enable
        /\ mod[Head(pendingToggles).module].enabled = AsSetting(Head(pendingToggles).enable)

\* A restart that overlaps a toggle or RESET ALL is on record.
RaceRecorded == Restarting /\ Changing => raced

AgreeInv ==
    /\ TypeInv
    /\ RaceRecorded
    /\ pcInit \in {"terminated", "unloaded"} => moduleMap = {}
    /\ Running /\ ~raced => CallbackDone /\ \A m \in Modules : Consistent(m)

\* Disabling a module that agrees with itself switches it off, and it still agrees.
LEMMA DisabledAgrees ==
    ASSUME NEW m \in Modules, NEW r \in ModuleObject, ~r.terminating, Agrees(m, r)
    PROVE  LET d == OnDisable(m, r)
           IN  /\ Agrees(m, d) /\ SwitchedOff(m, d) /\ ~d.terminating
               /\ ~d.enabledState /\ d.enabled = "off"
<1> DEFINE b == BaseOnDisable(r)
<1>1. /\ b \in ModuleObject /\ ~b.terminating /\ ~b.enabledState /\ ~b.active
      /\ b.enabled = "off" /\ b.listening = r.listening
  BY DEF BaseOnDisable, ModuleObject, Setting, Agrees
<1> HIDE DEF b
<1>2. OnDisable(m, r) \in {[b EXCEPT !.delayDisable = TRUE], [b EXCEPT !.listening = FALSE]}
      /\ (m \notin Movable => OnDisable(m, r) = [b EXCEPT !.listening = FALSE])
  BY DEF OnDisable, b
<1> QED BY <1>1, <1>2 DEF ModuleObject, Agrees, SwitchedOff

\* Enabling a module that has its setting makes it agree with itself.
LEMMA EnabledAgrees ==
    ASSUME NEW m \in Modules, NEW r \in ModuleObject, ~r.terminating, r.enabled # "absent"
    PROVE  LET e == OnEnable(r)
           IN  /\ Agrees(m, e) /\ ~e.terminating
               /\ e.enabledState /\ e.enabled = "on"
BY DEF OnEnable, Agrees, ModuleObject, Setting

\* Loading a module that is switched off makes it agree with itself.
LEMMA LoadedAgrees ==
    ASSUME NEW m \in Modules, NEW r \in ModuleObject, loaded \in [Modules -> Setting],
           ~r.terminating, SwitchedOff(m, r)
    PROVE  LET l == LoadSettings(m, r) IN Agrees(m, l) /\ ~l.terminating
<1> DEFINE read == [r EXCEPT !.enabled = loaded[m]]
           filled == [read EXCEPT !.enabled = IF @ = "absent" THEN Default(m) ELSE @]
<1>1. /\ filled \in ModuleObject /\ ~filled.terminating /\ SwitchedOff(m, filled)
      /\ filled.enabled \in {"off", "on"}
  BY DEF ModuleObject, Setting, Default, AsSetting, SwitchedOff
<1>2. LoadSettings(m, r) = IF filled.enabled = "on" THEN OnEnable(filled) ELSE filled
  BY DEF LoadSettings, PostLoad
<1> HIDE DEF filled
<1>3. filled.enabled = "off" => Agrees(m, filled)
  BY <1>1 DEF Agrees, SwitchedOff, ModuleObject
<1> QED BY <1>1, <1>2, <1>3, EnabledAgrees

\* The invariant holds initially: initialize() loads every module.
LEMMA InitAgrees == Init => AgreeInv
<1> SUFFICES ASSUME Init PROVE AgreeInv
  OBVIOUS
<1>1. TypeInv
  BY InitTyped
<1>2. \A m \in Modules : Consistent(m)
  <2> TAKE m \in Modules
  <2>1. /\ FreshModule(m) \in ModuleObject /\ ~FreshModule(m).terminating
        /\ SwitchedOff(m, FreshModule(m))
    BY DEF FreshModule, ModuleObject, Setting, SwitchedOff
  <2>2. loaded \in [Modules -> Setting] /\ mod[m] = LoadSettings(m, FreshModule(m))
    BY DEF Init
  <2>3. Agrees(m, mod[m]) /\ ~mod[m].terminating
    BY <2>1, <2>2, LoadedAgrees
  <2> QED BY <2>3 DEF Init, Consistent, InReset
<1> QED BY <1>1, <1>2 DEF Init, AgreeInv, RaceRecorded, Restarting, CallbackDone

\* The second half of a toggle only repeats what the callback has written.
LEMMA WriteRepeats ==
    ASSUME AgreeInv, Running, ~raced, DrainWrite
    PROVE  mod' = mod
<1> DEFINE t == Head(pendingToggles)
<1>1. mod \in [Modules -> ModuleObject] /\ pcRender = "write" /\ t \in Toggle
  BY DEF AgreeInv, TypeInv, TypeOK, FrontToggle, DrainWrite
<1>2. t.module \in Modules
  BY <1>1 DEF Toggle
<1>3. mod[t.module].enabledState = t.enable /\ mod[t.module].enabled = AsSetting(t.enable)
  BY <1>1 DEF AgreeInv, CallbackDone
<1>4. mod' \in {[mod EXCEPT ![t.module].enabledState = t.enable],
               [mod EXCEPT ![t.module].enabledState = t.enable,
                           ![t.module].enabled = AsSetting(t.enable)]}
  BY DEF DrainWrite
<1> HIDE DEF t
<1>5. mod[t.module] \in ModuleObject
  BY <1>1, <1>2
<1>6. /\ [mod[t.module] EXCEPT !.enabledState = t.enable] = mod[t.module]
      /\ [mod[t.module] EXCEPT !.enabled = AsSetting(t.enable)] = mod[t.module]
  BY <1>3, <1>5 DEF ModuleObject
<1> QED BY <1>1, <1>2, <1>4, <1>6

\* The overlap of a restart with a toggle or RESET ALL is recorded where it begins,
\* and the record is never taken back.
LEMMA StepRecorded ==
    ASSUME TypeInv, RaceRecorded, [Next]_vars
    PROVE  RaceRecorded' /\ (raced => raced')
<1> USE DEF RaceRecorded, Restarting, Changing, ResetPlaces
<1>1. CASE InitThread
  BY <1>1 DEF InitThread, RestartBegin, RestartDisable, RestartReset, RestartLoad, RestartEnd,
     RestartSave, TerminateBegin, TerminateModule, TerminateEnd, Unhook, renderVars, bounds
<1>2. CASE RenderThread
  BY <1>2 DEF RenderThread, FrameBegin, DrainCallback, DrainWrite, TriggerRender, Click,
     ResetBegin, RenderHandler, FrameEnd, ResetGoesOn, ResetStep, ResetOff, ResetClear,
     ResetRefill, ResetSet, ResetRaise, ResetSave, ResetLoad, initVars, renderVars, bounds
<1>3. CASE GameThread
  BY <1>3 DEF GameThread, TriggerGame, Handles, Keybind, Layout, RequestRestart, Eject,
     GameEnd, initVars, renderVars, bounds
<1> QED BY <1>1, <1>2, <1>3 DEF Next, Stopped, vars, initVars, renderVars, bounds

\* The client never starts again once it terminates.
LEMMA RunningBefore == [Next]_vars /\ Running' => Running
BY DEF Running, Next, InitThread, RenderThread, GameThread, Stopped, RestartBegin,
   RestartDisable, RestartReset, RestartLoad, RestartEnd, RestartSave, TerminateBegin,
   TerminateModule, TerminateEnd, Unhook, FrameBegin, DrainCallback, DrainWrite, TriggerRender,
   Click, ResetBegin, RenderHandler, FrameEnd, ResetGoesOn, ResetStep, ResetOff, ResetClear,
   ResetRefill, ResetSet, ResetRaise, ResetSave, ResetLoad, TriggerGame, Handles, Keybind,
   Layout, RequestRestart, Eject, GameEnd, vars, initVars

\* Each statement of RESET ALL takes what the one before it has left one step further.
LEMMA ResetStepAgrees ==
    ASSUME NEW m \in Modules, NEW r \in ModuleObject,
           pcRender \in {"off", "clear", "refill", "set", "raise"}, wasEnabled \in BOOLEAN,
           IF pcRender = "off" THEN Agrees(m, r) /\ wasEnabled = r.enabledState
                               ELSE HalfReset(m, r)
    PROVE  /\ pcRender = "off" => LET c == [r EXCEPT !.enabledState = FALSE, !.active = FALSE] IN
                /\ ~c.enabledState /\ ~c.active /\ c.terminating = r.terminating
                /\ (c.listening => wasEnabled \/ m \in Movable) /\ (wasEnabled => c.listening)
           /\ pcRender = "clear" => LET c == ResetSettings(r) IN
                /\ ~c.enabledState /\ ~c.active /\ c.terminating = r.terminating
                /\ (c.listening => wasEnabled \/ m \in Movable) /\ (wasEnabled => c.listening)
                /\ c.enabled = "absent"
           /\ pcRender = "refill" => LET c == PostLoad(m, r, TRUE) IN
                /\ ~c.enabledState /\ ~c.active /\ c.terminating = r.terminating
                /\ (c.listening => wasEnabled \/ m \in Movable) /\ (wasEnabled => c.listening)
                /\ c.enabled = Default(m) /\ c.enabled # "absent"
                /\ ~wasEnabled => Agrees(m, c)
           /\ pcRender = "set" => LET c == [r EXCEPT !.enabled = IF @ = "absent" THEN @ ELSE "on"] IN
                /\ ~c.enabledState /\ ~c.active /\ c.terminating = r.terminating
                /\ (c.listening => wasEnabled \/ m \in Movable) /\ (wasEnabled => c.listening)
                /\ c.enabled = "on" /\ wasEnabled
           /\ pcRender = "raise" => LET c == [r EXCEPT !.enabledState = TRUE] IN
                Agrees(m, c) /\ c.terminating = r.terminating
<1>1. CASE pcRender = "off"
  BY <1>1 DEF Agrees, ModuleObject
<1>2. CASE pcRender = "clear"
  BY <1>2 DEF HalfReset, ResetSettings, ModuleObject, Setting
<1>3. CASE pcRender = "refill"
  <2>1. PostLoad(m, r, TRUE) = [r EXCEPT !.enabled = Default(m)]
    BY <1>3 DEF PostLoad, HalfReset, ModuleObject, Setting
  <2> QED BY <1>3, <2>1 DEF HalfReset, Agrees, Default, AsSetting, ModuleObject, Setting
<1>4. CASE pcRender = "set"
  BY <1>4 DEF HalfReset, ModuleObject, Setting
<1>5. CASE pcRender = "raise"
  BY <1>5 DEF HalfReset, Agrees, ModuleObject, Setting
<1> QED BY <1>1, <1>2, <1>3, <1>4, <1>5

\* Every step keeps the invariant.
LEMMA StepAgrees == AgreeInv /\ [Next]_vars => AgreeInv'
<1> SUFFICES ASSUME AgreeInv, [Next]_vars PROVE AgreeInv'
  OBVIOUS
<1>1. TypeInv /\ TypeInv'
  BY StepTyped DEF AgreeInv
<1>2. RaceRecorded /\ RaceRecorded' /\ (raced => raced')
  BY <1>1, StepRecorded DEF AgreeInv
<1>3. (pcInit \in {"terminated", "unloaded"} => moduleMap = {})'
  BY DEF AgreeInv, Next, InitThread, RenderThread, GameThread, Stopped, RestartBegin,
     RestartDisable, RestartReset, RestartLoad, RestartEnd, RestartSave, TerminateBegin,
     TerminateModule, TerminateEnd, Unhook, FrameBegin, DrainCallback, DrainWrite, TriggerRender,
     Click, ResetBegin, RenderHandler, FrameEnd, ResetGoesOn, ResetStep, ResetOff, ResetClear,
     ResetRefill, ResetSet, ResetRaise, ResetSave, ResetLoad, TriggerGame, Handles, Keybind,
     Layout, RequestRestart, Eject, GameEnd, vars, initVars
<1>4. ASSUME Running', ~raced' PROVE CallbackDone' /\ \A m \in Modules : Consistent(m)'
  <2>1. Running /\ ~raced
    BY <1>2, <1>4, RunningBefore
  <2>2. CallbackDone /\ \A m \in Modules : Consistent(m)
    BY <2>1 DEF AgreeInv
  <2>3. /\ mod \in [Modules -> ModuleObject] /\ loaded \in [Modules -> Setting]
        /\ wasEnabled \in BOOLEAN
    BY <1>1 DEF TypeInv, TypeOK
  <2>4. pcRender = "write" => pcInit \in {"loop", "save"} /\ Head(pendingToggles) \in Toggle
    <3>1. pcRender = "write" => pendingToggles # <<>> /\ pendingToggles \in Seq(Toggle)
      BY <1>1 DEF TypeInv, TypeOK, FrontToggle
    <3>2. pcRender = "write" => pcInit \in {"loop", "save"}
      BY <1>2, <2>1 DEF RaceRecorded, Restarting, Changing, Running
    <3> QED BY <3>1, <3>2
  \* A restart in progress overlaps no statement of RESET ALL.
  <2>5. pcInit \in {"restart", "reset", "load"} => pcRender # "off" /\ \A m \in Modules : ~InReset(m)
    BY <1>2, <2>1 DEF RaceRecorded, Restarting, Changing, ResetPlaces, InReset
  \* Steps that leave the objects, the queue, restart()'s place and RESET ALL alone.
  <2>6. ASSUME UNCHANGED <<mod, pendingToggles, cur, page, wasEnabled>>,
               pcInit' = pcInit \/ (pcInit \notin {"reset", "load"} /\ pcInit' \notin {"reset", "load"}),
               \/ pcRender' = pcRender
               \/ /\ pcRender \notin {"off", "clear", "refill", "set", "raise"}
                  /\ pcRender' \notin {"write", "off", "clear", "refill", "set", "raise"}
        PROVE  CallbackDone' /\ \A m \in Modules : Consistent(m)'
    <3>1. CallbackDone'
      BY <2>2, <2>6 DEF CallbackDone
    <3>2. ASSUME NEW m \in Modules PROVE Consistent(m)'
      <4>1. Consistent(m)
        BY <2>2
      <4>2. InReset(m)' = InReset(m)
        BY <2>6 DEF InReset
      <4>3. CASE InReset(m)
        BY <2>6, <4>1, <4>2, <4>3 DEF Consistent, HalfReset, InReset, SwitchedOff
      <4>4. CASE ~InReset(m)
        BY <2>6, <4>1, <4>2, <4>4 DEF Consistent, SwitchedOff, Agrees
      <4> QED BY <4>3, <4>4
    <3> QED BY <3>1, <3>2
  <2>7. CASE \/ RestartBegin \/ RestartEnd \/ RestartSave \/ FrameBegin \/ TriggerRender \/ FrameEnd
             \/ TriggerGame \/ GameEnd \/ RequestRestart \/ Eject \/ UNCHANGED vars
    BY <2>6, <2>7 DEF RestartBegin, RestartEnd, RestartSave, FrameBegin, TriggerRender, FrameEnd,
       TriggerGame, GameEnd, RequestRestart, Eject, vars, initVars, renderVars
  <2>8. CASE ResetSave
    BY <2>6, <2>8 DEF ResetSave, initVars
  <2>9. CASE TerminateBegin \/ TerminateEnd \/ Unhook \/ \E m \in Modules : TerminateModule(m)
    BY <1>4, <2>9 DEF Running, TerminateBegin, TerminateEnd, Unhook, TerminateModule
  <2>10. ASSUME NEW m \in Modules, RestartDisable(m)
        PROVE  CallbackDone' /\ \A x \in Modules : Consistent(x)'
    <3>1. /\ pcInit = "restart" /\ pcInit' = "reset" /\ cur' = m /\ pcRender' = pcRender
          /\ page' = page /\ pcRender # "write"
      BY <2>4, <2>10 DEF RestartDisable, renderVars
    <3>2. Agrees(m, mod[m]) /\ ~mod[m].terminating /\ mod[m] \in ModuleObject
      BY <2>2, <2>3, <2>5, <3>1 DEF Consistent
    <3>3. SwitchedOff(m, mod'[m]) /\ ~mod'[m].terminating
      <4>1. CASE mod[m].enabledState
        <5>1. mod'[m] = OnDisable(m, mod[m])
          BY <2>3, <2>10, <4>1 DEF RestartDisable
        <5> QED BY <3>2, <5>1, DisabledAgrees
      <4>2. CASE ~mod[m].enabledState
        <5>1. mod'[m] = mod[m]
          BY <2>3, <2>10, <4>2 DEF RestartDisable
        <5> QED BY <3>2, <4>2, <5>1 DEF Agrees, SwitchedOff
      <4> QED BY <4>1, <4>2
    <3>4. \A x \in Modules \ {m} : mod'[x] = mod[x]
      BY <2>3, <2>10 DEF RestartDisable
    <3>5. pcRender' # "off" /\ \A x \in Modules : ~InReset(x) /\ ~InReset(x)'
      BY <2>5, <3>1 DEF InReset
    <3> QED BY <2>2, <3>1, <3>3, <3>4, <3>5 DEF CallbackDone, Consistent, SwitchedOff, Agrees
  <2>11. CASE RestartReset
    <3>1. /\ pcInit = "reset" /\ pcInit' = "load" /\ cur' = cur /\ pcRender' = pcRender
          /\ page' = page /\ pcRender # "write" /\ cur \in Modules
          /\ mod' = [mod EXCEPT ![cur] = ResetSettings(@)]
      BY <1>1, <2>4, <2>11 DEF RestartReset, TypeInv, Places, renderVars
    <3>2. SwitchedOff(cur, mod[cur]) /\ ~mod[cur].terminating /\ mod[cur] \in ModuleObject
      BY <2>2, <2>3, <3>1 DEF Consistent
    <3>3. mod'[cur] = ResetSettings(mod[cur])
      BY <2>3, <3>1
    <3>4. SwitchedOff(cur, mod'[cur]) /\ ~mod'[cur].terminating
      BY <3>2, <3>3 DEF SwitchedOff, ResetSettings, ModuleObject
    <3>5. \A x \in Modules \ {cur} : mod'[x] = mod[x]
      BY <2>3, <3>1
    <3>6. pcRender' # "off" /\ \A x \in Modules : ~InReset(x) /\ ~InReset(x)'
      BY <2>5, <3>1 DEF InReset
    <3> QED BY <2>2, <3>1, <3>4, <3>5, <3>6 DEF CallbackDone, Consistent, SwitchedOff, Agrees
  <2>12. CASE RestartLoad
    <3>1. /\ pcInit = "load" /\ pcInit' = "restart" /\ pcRender' = pcRender
          /\ page' = page /\ pcRender # "write" /\ cur \in Modules
          /\ mod' = [mod EXCEPT ![cur] = LoadSettings(cur, @)]
      BY <1>1, <2>4, <2>12 DEF RestartLoad, TypeInv, Places, renderVars
    <3>2. SwitchedOff(cur, mod[cur]) /\ ~mod[cur].terminating /\ mod[cur] \in ModuleObject
      BY <2>2, <2>3, <3>1 DEF Consistent
    <3>3. mod'[cur] = LoadSettings(cur, mod[cur])
      BY <2>3, <3>1
    <3>4. Agrees(cur, mod'[cur]) /\ ~mod'[cur].terminating
      BY <2>3, <3>1, <3>2, <3>3, LoadedAgrees
    <3>5. \A x \in Modules \ {cur} : mod'[x] = mod[x]
      BY <2>3, <3>1
    <3>6. pcRender' # "off" /\ \A x \in Modules : ~InReset(x) /\ ~InReset(x)'
      BY <2>5, <3>1 DEF InReset
    <3> QED BY <2>2, <3>1, <3>4, <3>5, <3>6 DEF CallbackDone, Consistent, SwitchedOff, Agrees
  <2>13. CASE DrainCallback
    <3> DEFINE t == Head(pendingToggles)
    <3>1. t \in Toggle /\ pendingToggles # <<>>
      BY <1>1, <2>13 DEF DrainCallback, TypeInv, TypeOK
    <3>2. t.module \in Modules /\ t.enable \in BOOLEAN
      BY <3>1 DEF Toggle
    <3>3. /\ pcInit \in {"loop", "save"} /\ pcInit' = pcInit /\ pendingToggles' = pendingToggles
          /\ pcRender = "drain" /\ pcRender' = "write"
      BY <1>4, <2>1, <2>13 DEF Restarting, Running, DrainCallback, initVars
    <3>4. mod' = [mod EXCEPT ![t.module] = IF t.enable THEN OnEnable(@) ELSE OnDisable(t.module, @)]
      BY <2>13 DEF DrainCallback
    <3> HIDE DEF t
    <3>5. \A x \in Modules : Agrees(x, mod[x]) /\ ~mod[x].terminating
      BY <2>2, <3>3 DEF Consistent, InReset
    <3>6. /\ mod[t.module] \in ModuleObject /\ Agrees(t.module, mod[t.module])
          /\ ~mod[t.module].terminating /\ mod[t.module].enabled # "absent"
      BY <2>3, <3>2, <3>5 DEF Agrees, ModuleObject
    <3>7. /\ Agrees(t.module, mod'[t.module]) /\ ~mod'[t.module].terminating
          /\ mod'[t.module].enabledState = t.enable /\ mod'[t.module].enabled = AsSetting(t.enable)
      <4>1. CASE t.enable = TRUE
        <5>1. mod'[t.module] = OnEnable(mod[t.module])
          BY <2>3, <3>2, <3>4, <4>1
        <5>2. mod'[t.module] \in ModuleObject
          BY <3>2, <3>6, <5>1, ObjectMethods
        <5> QED BY <3>2, <3>6, <4>1, <5>1, <5>2, EnabledAgrees DEF AsSetting, ModuleObject
      <4>2. CASE t.enable = FALSE
        <5>1. mod'[t.module] = OnDisable(t.module, mod[t.module])
          BY <2>3, <3>2, <3>4, <4>2
        <5>2. mod'[t.module] \in ModuleObject
          BY <3>2, <3>6, <5>1, ObjectMethods
        <5> QED BY <3>2, <3>6, <4>2, <5>1, <5>2, DisabledAgrees DEF AsSetting, ModuleObject
      <4> QED BY <3>2, <4>1, <4>2
    <3>8. \A x \in Modules \ {t.module} : mod'[x] = mod[x]
      BY <2>3, <3>4
    <3>9. \A x \in Modules : Agrees(x, mod'[x]) /\ ~mod'[x].terminating
      BY <3>5, <3>7, <3>8
    <3>10. \A x \in Modules : Consistent(x)'
      BY <3>3, <3>9 DEF Consistent, InReset, Agrees
    <3>11. CallbackDone'
      BY <3>3, <3>7 DEF CallbackDone, t
    <3> QED BY <3>10, <3>11
  <2>14. CASE DrainWrite
    <3>1. /\ pcRender = "write" /\ pcRender' = "drain" /\ UNCHANGED <<pcInit, cur, page, wasEnabled>>
      BY <2>14 DEF DrainWrite, initVars
    <3>2. mod' = mod
      BY <2>1, <2>14, WriteRepeats
    <3>3. ASSUME NEW m \in Modules PROVE Consistent(m)'
      <4>1. Consistent(m) /\ ~InReset(m) /\ ~InReset(m)'
        BY <2>2, <3>1 DEF InReset
      <4> QED BY <3>1, <3>2, <4>1 DEF Consistent, SwitchedOff, Agrees
    <3> QED BY <3>1, <3>3 DEF CallbackDone
  <2>15. ASSUME NEW m \in Modules, Click(m) \/ RenderHandler(m)
         PROVE  CallbackDone' /\ \A x \in Modules : Consistent(x)'
    <3>1. /\ UNCHANGED <<mod, pcInit, cur, page, wasEnabled>> /\ pcRender = "dispatch"
          /\ pcRender' = "dispatch"
      BY <2>15 DEF Click, RenderHandler, initVars, renderVars
    <3>2. \A x \in Modules : ~InReset(x) /\ ~InReset(x)'
      BY <3>1 DEF InReset
    <3> QED BY <2>2, <3>1, <3>2 DEF CallbackDone, Consistent, SwitchedOff, Agrees
  <2>16. ASSUME NEW m \in Modules, ResetBegin(m)
         PROVE  CallbackDone' /\ \A x \in Modules : Consistent(x)'
    <3>1. /\ UNCHANGED <<mod, pcInit, cur>> /\ pcRender = "dispatch" /\ pcRender' = "off"
          /\ page' = m /\ wasEnabled' = mod[m].enabledState
      BY <2>16 DEF ResetBegin, initVars
    <3>2. \A x \in Modules : ~InReset(x) /\ ~InReset(x)'
      BY <3>1 DEF InReset
    <3> QED BY <2>2, <3>1, <3>2 DEF CallbackDone, Consistent, SwitchedOff, Agrees
  <2>17. CASE ResetOff \/ ResetClear \/ ResetRefill \/ ResetSet \/ ResetRaise
    <3> DEFINE r == mod[page]
               here == pcRender
    <3>1. /\ pcRender \in {"off", "clear", "refill", "set", "raise"} /\ page \in Modules
          /\ UNCHANGED <<pcInit, cur, page, wasEnabled, pendingToggles>>
      BY <1>1, <2>17 DEF ResetOff, ResetClear, ResetRefill, ResetSet, ResetRaise, ResetStep,
         TypeInv, Places, ResetPlaces, initVars
    <3>2. r \in ModuleObject /\ ~r.terminating
      BY <2>2, <2>3, <3>1 DEF Consistent
    <3>3. ~(pcInit \in {"reset", "load"})
      BY <1>2, <2>1, <3>1 DEF RaceRecorded, Restarting, Changing, ResetPlaces
    <3>4. IF pcRender = "off" THEN Agrees(page, r) /\ wasEnabled = r.enabledState
                              ELSE HalfReset(page, r)
      BY <2>2, <3>1, <3>3 DEF Consistent, InReset
    <3>5. \A x \in Modules \ {page} : mod'[x] = mod[x] /\ ~InReset(x) /\ ~InReset(x)'
      BY <2>3, <2>17, <3>1 DEF ResetOff, ResetClear, ResetRefill, ResetSet, ResetRaise, ResetStep,
         InReset
    <3>6. /\ pcRender = "off" =>
               pcRender' = "clear" /\ mod'[page] = [r EXCEPT !.enabledState = FALSE, !.active = FALSE]
          /\ pcRender = "clear" => pcRender' = "refill" /\ mod'[page] = ResetSettings(r)
          /\ pcRender = "refill" => /\ pcRender' = IF wasEnabled THEN "set" ELSE "save"
                                    /\ mod'[page] = PostLoad(page, r, TRUE)
          /\ pcRender = "set" => /\ pcRender' = "raise"
                                 /\ mod'[page] = [r EXCEPT !.enabled = IF @ = "absent" THEN @ ELSE "on"]
          /\ pcRender = "raise" => pcRender' = "save" /\ mod'[page] = [r EXCEPT !.enabledState = TRUE]
      BY <2>3, <2>17, <3>1 DEF ResetOff, ResetClear, ResetRefill, ResetSet, ResetRaise, ResetStep
    <3> HIDE DEF r
    <3>7. Consistent(page)'
      <4>1. CASE pcRender \in {"off", "clear", "set"} \/ (pcRender = "refill" /\ wasEnabled)
        <5>1. InReset(page)' /\ pcRender' # "off"
          BY <3>1, <3>6, <4>1 DEF InReset
        <5>2. LET c == mod'[page] IN
              /\ ~c.terminating /\ ~c.enabledState /\ ~c.active
              /\ (c.listening => wasEnabled \/ page \in Movable) /\ (wasEnabled => c.listening)
              /\ pcRender' = "refill" => c.enabled = "absent"
              /\ pcRender' = "set" => wasEnabled /\ c.enabled # "absent"
              /\ pcRender' = "raise" => wasEnabled /\ c.enabled = "on"
          <6>1. CASE pcRender = "off"
            BY <2>3, <3>1, <3>2, <3>4, <3>6, <6>1, ResetStepAgrees
          <6>2. CASE pcRender = "clear"
            BY <2>3, <3>1, <3>2, <3>4, <3>6, <6>2, ResetStepAgrees
          <6>3. CASE pcRender = "refill" /\ wasEnabled
            BY <2>3, <3>1, <3>2, <3>4, <3>6, <6>3, ResetStepAgrees
          <6>4. CASE pcRender = "set"
            BY <2>3, <3>1, <3>2, <3>4, <3>6, <6>4, ResetStepAgrees
          <6> QED BY <4>1, <6>1, <6>2, <6>3, <6>4
        <5>3. HalfReset(page, mod[page])'
          BY <3>1, <5>2 DEF HalfReset
        <5> QED BY <3>1, <3>3, <5>1, <5>2, <5>3 DEF Consistent
      <4>2. CASE pcRender = "raise" \/ (pcRender = "refill" /\ ~wasEnabled)
        <5>1. ~InReset(page)' /\ pcRender' # "off"
          BY <3>1, <3>6, <4>2 DEF InReset
        <5>2. ~mod'[page].terminating /\ Agrees(page, mod'[page])
          BY <2>3, <3>1, <3>2, <3>4, <3>6, <4>2, ResetStepAgrees
        <5> QED BY <3>1, <3>3, <5>1, <5>2 DEF Consistent, Agrees
      <4> QED BY <3>1, <4>1, <4>2
    <3>8. ASSUME NEW x \in Modules \ {page} PROVE Consistent(x)'
      <4>1. Consistent(x)
        BY <2>2
      <4> QED BY <3>1, <3>3, <3>5, <4>1 DEF Consistent, Agrees
    <3>9. pcRender' # "write"
      BY <3>1, <3>6
    <3> QED BY <3>1, <3>7, <3>8, <3>9 DEF CallbackDone
  <2>18. CASE ResetLoad
    <3>1. /\ UNCHANGED <<mod, pcInit, cur>> /\ pcRender = "load" /\ pcRender' = "dispatch"
      BY <2>18 DEF ResetLoad, initVars
    <3>2. \A x \in Modules : ~InReset(x) /\ ~InReset(x)'
      BY <3>1 DEF InReset
    <3> QED BY <2>2, <3>1, <3>2 DEF CallbackDone, Consistent, SwitchedOff, Agrees
  <2>19. ASSUME NEW m \in Modules, Keybind(m) \/ Layout(m)
         PROVE  CallbackDone' /\ \A x \in Modules : Consistent(x)'
    <3>1. UNCHANGED <<pcInit, cur, pcRender, page, wasEnabled, pendingToggles>>
      BY <2>19 DEF Keybind, Layout, Handles, initVars, renderVars
    <3>2. \/ mod' = mod
          \/ mod[m].enabledState /\ mod' = [mod EXCEPT ![m] = [mod[m] EXCEPT !.active = ~@]]
          \/ mod' = [mod EXCEPT ![m] = [mod[m] EXCEPT !.delayDisable = FALSE, !.restored = TRUE]]
      BY <2>19 DEF Keybind, Layout, Handles
    <3>3. mod[m] \in ModuleObject
      BY <2>3
    <3>4. \A x \in Modules :
            /\ x # m => mod'[x] = mod[x]
            /\ mod'[x].enabledState = mod[x].enabledState /\ mod'[x].enabled = mod[x].enabled
            /\ mod'[x].listening = mod[x].listening /\ mod'[x].terminating = mod[x].terminating
            /\ mod'[x].active => mod[x].active \/ mod[x].enabledState
      <4> DEFINE r == mod[m]
                 press == [r EXCEPT !.active = ~@]
                 lay == [r EXCEPT !.delayDisable = FALSE, !.restored = TRUE]
      <4>1. \A x \in Modules \ {m} : mod'[x] = mod[x]
        BY <2>3, <3>2
      <4>2. mod'[m] = r \/ (r.enabledState /\ mod'[m] = press) \/ mod'[m] = lay
        BY <2>3, <3>2
      <4> HIDE DEF press, lay
      <4>3. /\ press.enabledState = r.enabledState /\ press.enabled = r.enabled
            /\ press.listening = r.listening /\ press.terminating = r.terminating
        BY <3>3 DEF press, ModuleObject
      <4>4. /\ lay.enabledState = r.enabledState /\ lay.enabled = r.enabled
            /\ lay.listening = r.listening /\ lay.terminating = r.terminating
            /\ lay.active = r.active
        BY <3>3 DEF lay, ModuleObject
      <4> QED BY <4>1, <4>2, <4>3, <4>4
    <3>5. ASSUME NEW x \in Modules PROVE Consistent(x)'
      <4>1. Consistent(x) /\ InReset(x)' = InReset(x)
        BY <2>2, <3>1 DEF InReset
      <4>2. CASE InReset(x)
        BY <3>1, <3>4, <4>1, <4>2 DEF Consistent, HalfReset, SwitchedOff
      <4>3. CASE ~InReset(x)
        BY <3>1, <3>4, <4>1, <4>3 DEF Consistent, SwitchedOff, Agrees
      <4> QED BY <4>2, <4>3
    <3>6. CallbackDone'
      <4>1. CASE pcRender = "write"
        <5>1. Head(pendingToggles).module \in Modules
          BY <2>4, <4>1 DEF Toggle
        <5> QED BY <2>2, <3>1, <3>4, <5>1 DEF CallbackDone
      <4>2. CASE pcRender # "write"
        BY <3>1, <4>2 DEF CallbackDone
      <4> QED BY <4>1, <4>2
    <3> QED BY <3>5, <3>6
  <2> QED
    BY <2>7, <2>8, <2>9, <2>10, <2>11, <2>12, <2>13, <2>14, <2>15, <2>16, <2>17, <2>18, <2>19
       DEF Next, InitThread, RenderThread, GameThread, Stopped, ResetGoesOn
<1> QED BY <1>1, <1>2, <1>3, <1>4 DEF AgreeInv

\* The four views of a module agree whenever no thread is half-way through a change
\* of it, for every set of modules and every number of toggles, RESET ALLs and
\* restarts, until a restart has come between the statements of a toggle or of RESET ALL.
THEOREM FlagsAlwaysAgree == Spec => []FlagsAgree
<1>1. Init => AgreeInv
  BY InitAgrees
<1>2. AgreeInv /\ [Next]_vars => AgreeInv'
  BY StepAgrees
<1>3. AgreeInv => FlagsAgree
  <2> SUFFICES ASSUME AgreeInv, ~raced, NEW m \in Modules, Settled(m) PROVE Agrees(m, mod[m])
    BY DEF FlagsAgree
  <2>1. Running
    BY DEF AgreeInv, TypeInv, TypeOK, Settled, Running
  <2> QED BY <2>1 DEF AgreeInv, Settled, Consistent
<1> QED BY <1>1, <1>2, <1>3, PTL DEF Spec

-----------------------------------------------------------------------------
(* What one step does to one module.                                       *)

\* The values a module object r can take in one step; e is the state a toggle asks for.
Written(r) ==
    {[r EXCEPT !.enabledState = e] : e \in BOOLEAN} \cup
    {[r EXCEPT !.enabledState = e, !.enabled = AsSetting(e)] : e \in BOOLEAN}
Pressed(r) == [r EXCEPT !.active = ~@]
Restored(r) == [r EXCEPT !.delayDisable = FALSE, !.restored = TRUE]
Terminated(m, r) == OnDisable(m, [r EXCEPT !.terminating = TRUE])
SwitchedByReset(r) == [r EXCEPT !.enabledState = FALSE, !.active = FALSE]
SetByReset(r) == [r EXCEPT !.enabled = IF @ = "absent" THEN @ ELSE "on"]
RaisedByReset(r) == [r EXCEPT !.enabledState = TRUE]

LEMMA ObjectStep ==
    ASSUME TypeInv, [Next]_vars, NEW m \in Modules
    PROVE  LET r == mod[m] IN
           \/ mod'[m] = r
           \/ DrainCallback /\ mod'[m] = OnEnable(r)
           \/ (DrainCallback \/ RestartDisable(m)) /\ mod'[m] = OnDisable(m, r)
           \/ TerminateModule(m) /\ mod'[m] = Terminated(m, r)
           \/ RestartReset /\ m = cur /\ mod'[m] = ResetSettings(r)
           \/ RestartLoad /\ m = cur /\ mod'[m] = LoadSettings(m, r)
           \/ DrainWrite /\ mod'[m] \in Written(r)
           \/ ResetOff /\ m = page /\ mod'[m] = SwitchedByReset(r)
           \/ ResetClear /\ m = page /\ mod'[m] = ResetSettings(r)
           \/ ResetRefill /\ m = page /\ mod'[m] = PostLoad(m, r, TRUE)
           \/ ResetSet /\ m = page /\ mod'[m] = SetByReset(r)
           \/ ResetRaise /\ m = page /\ mod'[m] = RaisedByReset(r)
           \/ Keybind(m) /\ mod'[m] = Pressed(r)
           \/ Layout(m) /\ mod'[m] = Restored(r)
<1> DEFINE r == mod[m]
<1>1. mod \in [Modules -> ModuleObject]
  BY DEF TypeInv, TypeOK
<1>2. CASE DrainCallback
  <2> DEFINE t == Head(pendingToggles)
  <2>1. mod' = [mod EXCEPT ![t.module] = IF t.enable THEN OnEnable(@) ELSE OnDisable(t.module, @)]
    BY <1>2 DEF DrainCallback
  <2> HIDE DEF t
  <2>2. mod'[m] = r \/ mod'[m] = OnEnable(r) \/ mod'[m] = OnDisable(m, r)
    BY <1>1, <2>1
  <2> QED BY <1>2, <2>2
<1>3. CASE DrainWrite
  <2> DEFINE t == Head(pendingToggles)
  <2>1. t.enable \in BOOLEAN
    <3>1. t \in Toggle
      BY <1>3 DEF DrainWrite, TypeInv, TypeOK, FrontToggle
    <3> QED BY <3>1 DEF Toggle
  <2>2. mod' \in {[mod EXCEPT ![t.module].enabledState = t.enable],
                 [mod EXCEPT ![t.module].enabledState = t.enable,
                             ![t.module].enabled = AsSetting(t.enable)]}
    BY <1>3 DEF DrainWrite
  <2> HIDE DEF t
  <2>3. \/ mod'[m] = r
        \/ mod'[m] = [r EXCEPT !.enabledState = t.enable]
        \/ mod'[m] = [r EXCEPT !.enabledState = t.enable, !.enabled = AsSetting(t.enable)]
    BY <1>1, <2>2
  <2> QED BY <1>3, <2>1, <2>3 DEF Written
<1>4. ASSUME NEW x \in Modules, RestartDisable(x)
      PROVE  mod'[m] = r \/ (RestartDisable(m) /\ mod'[m] = OnDisable(m, r))
  BY <1>1, <1>4 DEF RestartDisable
<1>5. ASSUME NEW x \in Modules, TerminateModule(x)
      PROVE  mod'[m] = r \/ (TerminateModule(m) /\ mod'[m] = Terminated(m, r))
  BY <1>1, <1>5 DEF TerminateModule, Terminated
<1>6. CASE RestartReset
  BY <1>1, <1>6 DEF RestartReset
<1>7. CASE RestartLoad
  BY <1>1, <1>7 DEF RestartLoad
<1>8. CASE ResetOff
  BY <1>1, <1>8 DEF ResetOff, ResetStep, SwitchedByReset
<1>12. CASE ResetClear
  BY <1>1, <1>12 DEF ResetClear, ResetStep
<1>13. CASE ResetRefill
  BY <1>1, <1>13 DEF ResetRefill, ResetStep
<1>14. CASE ResetSet
  BY <1>1, <1>14 DEF ResetSet, ResetStep, SetByReset
<1>15. CASE ResetRaise
  BY <1>1, <1>15 DEF ResetRaise, ResetStep, RaisedByReset
<1>9. ASSUME NEW x \in Modules, Keybind(x)
      PROVE  mod'[m] = r \/ (Keybind(m) /\ mod'[m] = Pressed(r))
  <2>1. mod' = mod \/ mod' = [mod EXCEPT ![x] = Pressed(mod[x])]
    BY <1>9 DEF Keybind, Handles, Pressed
  <2> QED BY <1>1, <1>9, <2>1
<1>10. ASSUME NEW x \in Modules, Layout(x)
      PROVE  mod'[m] = r \/ (Layout(m) /\ mod'[m] = Restored(r))
  <2>1. mod' = mod \/ mod' = [mod EXCEPT ![x] = Restored(mod[x])]
    BY <1>10 DEF Layout, Handles, Restored
  <2> QED BY <1>1, <1>10, <2>1
<1>11. CASE UNCHANGED mod
  BY <1>11
<1> QED
  BY <1>2, <1>3, <1>4, <1>5, <1>6, <1>7, <1>8, <1>9, <1>10, <1>11, <1>12, <1>13, <1>14, <1>15
     DEF Next, InitThread, RenderThread, GameThread, Stopped, RestartBegin, RestartEnd,
         RestartSave, TerminateBegin, TerminateEnd, Unhook, FrameBegin, TriggerRender, Click,
         ResetBegin, ResetGoesOn, ResetSave, ResetLoad, RenderHandler, FrameEnd, TriggerGame,
         RequestRestart, Eject, GameEnd, vars

-----------------------------------------------------------------------------
(* How a step changes the fields that are about subscriptions and restores. *)

SameFields(r, w) ==
    /\ w.enabledState = r.enabledState /\ w.listening = r.listening
    /\ w.restored = r.restored /\ w.delayDisable = r.delayDisable
Enabling(r, w) ==
    w.enabledState /\ w.listening /\ ~w.restored /\ w.delayDisable = r.delayDisable
Disabling(m, r, w) ==
    /\ ~w.enabledState /\ w.restored = r.restored
    /\ \/ m \in Movable /\ ~r.restored /\ w.delayDisable /\ w.listening = r.listening
       \/ w.delayDisable = r.delayDisable /\ ~w.listening
Switching(r, w) ==
    w.listening = r.listening /\ w.restored = r.restored /\ w.delayDisable = r.delayDisable
Restoring(r, w) ==
    /\ w.enabledState = r.enabledState /\ w.listening = r.listening
    /\ w.restored /\ ~w.delayDisable

LEMMA EnablingFields == ASSUME NEW r \in ModuleObject PROVE Enabling(r, OnEnable(r))
BY DEF OnEnable, ModuleObject, Enabling

LEMMA DisablingFields ==
    ASSUME NEW m \in Modules, NEW r \in ModuleObject
    PROVE  Disabling(m, r, OnDisable(m, r)) /\ Disabling(m, r, Terminated(m, r))
<1>1. ASSUME NEW q \in ModuleObject PROVE Disabling(m, q, OnDisable(m, q))
  <2> DEFINE b == BaseOnDisable(q)
  <2>1. /\ b \in ModuleObject /\ ~b.enabledState /\ b.restored = q.restored
        /\ b.delayDisable = q.delayDisable /\ b.listening = q.listening
    BY DEF BaseOnDisable, ModuleObject, Setting
  <2>2. OnDisable(m, q) = IF m \in Movable /\ ~q.restored
                          THEN [b EXCEPT !.delayDisable = TRUE] ELSE [b EXCEPT !.listening = FALSE]
    BY DEF OnDisable
  <2> HIDE DEF b
  <2> QED BY <2>1, <2>2 DEF ModuleObject, Disabling
<1>2. Disabling(m, r, Terminated(m, r))
  <2> DEFINE q == [r EXCEPT !.terminating = TRUE]
  <2>1. /\ q \in ModuleObject /\ q.restored = r.restored /\ q.delayDisable = r.delayDisable
        /\ q.listening = r.listening
    BY DEF ModuleObject
  <2>2. Terminated(m, r) = OnDisable(m, q)
    BY DEF Terminated
  <2> HIDE DEF q
  <2> QED BY <1>1, <2>1, <2>2 DEF Disabling
<1> QED BY <1>1, <1>2

LEMMA LoadingFields ==
    ASSUME NEW m \in Modules, NEW r \in ModuleObject, loaded \in [Modules -> Setting]
    PROVE  SameFields(r, LoadSettings(m, r)) \/ Enabling(r, LoadSettings(m, r))
<1> DEFINE read == [r EXCEPT !.enabled = loaded[m]]
           filled == [read EXCEPT !.enabled = IF @ = "absent" THEN Default(m) ELSE @]
<1>1. filled \in ModuleObject /\ SameFields(r, filled)
  BY DEF ModuleObject, Setting, Default, AsSetting, SameFields
<1>2. LoadSettings(m, r) = IF filled.enabled = "on" THEN OnEnable(filled) ELSE filled
  BY DEF LoadSettings, PostLoad
<1> HIDE DEF filled
<1> QED BY <1>1, <1>2, EnablingFields DEF Enabling, SameFields

\* Only the methods below change those fields.
LEMMA FieldStep ==
    ASSUME TypeInv, [Next]_vars, NEW m \in Modules
    PROVE  LET r == mod[m]
               w == mod'[m] IN
           \/ SameFields(r, w)
           \/ (DrainCallback \/ (RestartLoad /\ m = cur)) /\ Enabling(r, w)
           \/ (DrainCallback \/ RestartDisable(m) \/ TerminateModule(m)) /\ Disabling(m, r, w)
           \/ (DrainWrite \/ (ResetOff /\ m = page) \/ (ResetRaise /\ m = page)) /\ Switching(r, w)
           \/ Layout(m) /\ Restoring(r, w)
<1> DEFINE r == mod[m]
           w == mod'[m]
<1>1. r \in ModuleObject /\ loaded \in [Modules -> Setting]
  BY DEF TypeInv, TypeOK
<1>2. CASE w = r
  BY <1>2 DEF SameFields
<1>3. CASE DrainCallback /\ w = OnEnable(r)
  BY <1>1, <1>3, EnablingFields
<1>4. CASE (DrainCallback \/ RestartDisable(m)) /\ w = OnDisable(m, r)
  BY <1>1, <1>4, DisablingFields
<1>5. CASE TerminateModule(m) /\ w = Terminated(m, r)
  BY <1>1, <1>5, DisablingFields
<1>6. CASE w = ResetSettings(r)
  BY <1>1, <1>6 DEF ResetSettings, SameFields, ModuleObject
<1>7. CASE RestartLoad /\ m = cur /\ w = LoadSettings(m, r)
  BY <1>1, <1>7, LoadingFields
<1>8. CASE DrainWrite /\ w \in Written(r)
  <2>1. Switching(r, w)
    BY <1>1, <1>8 DEF Written, Switching, ModuleObject
  <2> QED BY <1>8, <2>1
<1>9. CASE ResetOff /\ m = page /\ w = SwitchedByReset(r)
  <2>1. Switching(r, w)
    BY <1>1, <1>9 DEF SwitchedByReset, Switching, ModuleObject
  <2> QED BY <1>9, <2>1
<1>10. CASE w = PostLoad(m, r, TRUE)
  BY <1>1, <1>10 DEF PostLoad, SameFields, ModuleObject
<1>11. CASE w = SetByReset(r)
  BY <1>1, <1>11 DEF SetByReset, SameFields, ModuleObject
<1>12. CASE ResetRaise /\ m = page /\ w = RaisedByReset(r)
  <2>1. Switching(r, w)
    BY <1>1, <1>12 DEF RaisedByReset, Switching, ModuleObject
  <2> QED BY <1>12, <2>1
<1>13. CASE w = Pressed(r)
  BY <1>1, <1>13 DEF Pressed, SameFields, ModuleObject
<1>14. CASE Layout(m) /\ w = Restored(r)
  <2>1. Restoring(r, w)
    BY <1>1, <1>14 DEF Restored, Restoring, ModuleObject
  <2> QED BY <1>14, <2>1
<1> QED
  BY ObjectStep, <1>2, <1>3, <1>4, <1>5, <1>6, <1>7, <1>8, <1>9, <1>10, <1>11, <1>12, <1>13, <1>14

-----------------------------------------------------------------------------
(* The restore that a Movable module owes                                  *)

\* The restore of a module is never both done and owed, with toggles, restarts and the
\* ejection in any order: only a module whose restore is not done comes to owe it.
THEOREM RestoreNeverStuck == Spec => []RestoreNotStuck
<1> DEFINE Inv == \A m \in Modules : ~(mod[m].restored /\ mod[m].delayDisable)
<1>1. Init => Inv
  <2> SUFFICES ASSUME Init, NEW m \in Modules PROVE ~(mod[m].restored /\ mod[m].delayDisable)
    OBVIOUS
  <2>1. FreshModule(m) \in ModuleObject /\ ~FreshModule(m).delayDisable
    BY DEF FreshModule, ModuleObject, Setting
  <2>2. mod[m] = LoadSettings(m, FreshModule(m)) /\ loaded \in [Modules -> Setting]
    BY DEF Init
  <2> QED BY <2>1, <2>2, LoadingFields DEF SameFields, Enabling
<1>2. TypeInv /\ Inv /\ [Next]_vars => Inv'
  <2> SUFFICES ASSUME TypeInv, Inv, [Next]_vars, NEW m \in Modules
               PROVE  ~(mod'[m].restored /\ mod'[m].delayDisable)
    OBVIOUS
  <2>1. mod[m] \in ModuleObject /\ loaded \in [Modules -> Setting]
    BY DEF TypeInv, TypeOK
  <2>2. ~(mod[m].restored /\ mod[m].delayDisable)
    OBVIOUS
  <2>3. ASSUME Disabling(m, mod[m], mod'[m]) PROVE ~(mod'[m].restored /\ mod'[m].delayDisable)
    BY <2>1, <2>2, <2>3 DEF Disabling
  <2> HIDE DEF Inv
  <2> QED BY <2>2, <2>3, FieldStep DEF SameFields, Enabling, Switching, Restoring
<1>3. Inv => RestoreNotStuck
  BY ModulesAssumption DEF RestoreNotStuck, ModulesAssumption
<1> QED BY <1>1, <1>2, <1>3, InitTyped, StepTyped, PTL DEF Spec

\* RestoreOwed without the restriction to settled modules: RESET ALL may leave a module
\* off and subscribed for as long as it is going to switch it on again.
OwedInv ==
    Running /\ ~raced =>
        \A m \in Movable : mod[m].listening /\ ~mod[m].enabledState /\ ~(InReset(m) /\ wasEnabled)
                              => mod[m].delayDisable \/ mod[m].restored

\* What only RESET ALL writes.
LEMMA ResetKept ==
    [Next]_vars => \/ UNCHANGED <<page, wasEnabled>>
                   \/ ResetLoad \/ \E m \in Modules : ResetBegin(m)
BY DEF Next, InitThread, RenderThread, GameThread, Stopped, RestartBegin, RestartDisable,
   RestartReset, RestartLoad, RestartEnd, RestartSave, TerminateBegin, TerminateModule,
   TerminateEnd, Unhook, FrameBegin, DrainCallback, DrainWrite, TriggerRender, Click,
   RenderHandler, FrameEnd, ResetGoesOn, ResetStep, ResetOff, ResetClear, ResetRefill, ResetSet,
   ResetRaise, ResetSave, TriggerGame, Handles, Keybind, Layout, RequestRestart, Eject, GameEnd,
   vars, renderVars

\* RESET ALL is left by its last write of enabledState, or not at all.
LEMMA ResetLeft ==
    ASSUME TypeInv, [Next]_vars, NEW m \in Modules, InReset(m)
    PROVE  /\ UNCHANGED <<page, wasEnabled>>
           /\ ~InReset(m)' /\ wasEnabled => ResetRaise
<1>1. UNCHANGED <<page, wasEnabled>>
  BY ResetKept DEF InReset, ResetLoad, ResetBegin
<1>2. ASSUME ~InReset(m)', wasEnabled PROVE ResetRaise
  BY <1>1, <1>2 DEF InReset, Next, InitThread, RenderThread, GameThread, Stopped, RestartBegin,
     RestartDisable, RestartReset, RestartLoad, RestartEnd, RestartSave, TerminateBegin,
     TerminateModule, TerminateEnd, Unhook, FrameBegin, DrainCallback, DrainWrite, TriggerRender,
     Click, ResetBegin, RenderHandler, FrameEnd, ResetGoesOn, ResetStep, ResetOff, ResetClear,
     ResetRefill, ResetSet, ResetSave, ResetLoad, TriggerGame, Handles, Keybind, Layout,
     RequestRestart, Eject, GameEnd, vars, renderVars
<1> QED BY <1>1, <1>2

\* A Movable module that is off but still subscribed owes the restore of its element or
\* has done it, for every set of modules and every number of toggles, RESET ALLs and
\* restarts, until a restart has come between the statements of a toggle or of RESET ALL.
THEOREM RestoreAlwaysOwed == Spec => []RestoreOwed
<1>1. Init => OwedInv
  <2> SUFFICES ASSUME Init, NEW m \in Movable
               PROVE  mod[m].listening /\ ~mod[m].enabledState
                        => mod[m].delayDisable \/ mod[m].restored
    BY DEF OwedInv
  <2>1. m \in Modules
    BY ModulesAssumption DEF ModulesAssumption
  <2>2. FreshModule(m) \in ModuleObject /\ ~FreshModule(m).listening
    BY DEF FreshModule, ModuleObject, Setting
  <2>3. mod[m] = LoadSettings(m, FreshModule(m)) /\ loaded \in [Modules -> Setting]
    BY <2>1 DEF Init
  <2> QED BY <2>1, <2>2, <2>3, LoadingFields DEF SameFields, Enabling
<1>2. AgreeInv /\ OwedInv /\ [Next]_vars => OwedInv'
  <2> SUFFICES ASSUME AgreeInv, OwedInv, [Next]_vars, Running', ~raced', NEW m \in Movable,
                      mod'[m].listening, ~mod'[m].enabledState, ~(InReset(m)' /\ wasEnabled')
               PROVE  mod'[m].delayDisable \/ mod'[m].restored
    BY DEF OwedInv
  <2>1. TypeInv /\ m \in Modules /\ mod[m] \in ModuleObject /\ loaded \in [Modules -> Setting]
    BY ModulesAssumption DEF AgreeInv, TypeInv, TypeOK, ModulesAssumption
  <2>2. Running /\ ~raced
    BY RunningBefore, StepRecorded DEF AgreeInv
  <2>3. mod[m].listening /\ ~mod[m].enabledState /\ ~(InReset(m) /\ wasEnabled)
          => mod[m].delayDisable \/ mod[m].restored
    BY <2>2 DEF OwedInv
  <2>4. CASE DrainWrite
    <3>1. mod' = mod /\ ~InReset(m)
      BY <2>2, <2>4, WriteRepeats DEF DrainWrite, InReset
    <3> QED BY <2>3, <3>1
  <2>5. CASE ResetOff /\ m = page
    <3>1. /\ pcRender = "off" /\ pcRender' = "clear" /\ page' = page /\ wasEnabled' = wasEnabled
          /\ mod'[m] = SwitchedByReset(mod[m])
      BY <2>1, <2>5 DEF ResetOff, ResetStep, SwitchedByReset, TypeInv, TypeOK
    <3>2. ~wasEnabled
      BY <2>5, <3>1 DEF InReset
    <3>3. ~mod[m].enabledState
      BY <2>1, <2>2, <2>5, <3>1, <3>2 DEF AgreeInv, Consistent
    <3>4. Switching(mod[m], mod'[m])
      BY <2>1, <3>1 DEF SwitchedByReset, Switching, ModuleObject
    <3> QED BY <2>3, <3>2, <3>3, <3>4 DEF Switching
  <2>6. CASE InReset(m) /\ wasEnabled
    <3>1. ResetRaise /\ m = page
      BY <2>1, <2>6, ResetLeft DEF InReset
    <3>2. mod'[m].enabledState
      BY <2>1, <3>1 DEF ResetRaise, ResetStep, TypeInv, TypeOK, ModuleObject
    <3> QED BY <3>2
  <2>7. CASE ~DrainWrite /\ ~(ResetOff /\ m = page) /\ ~(InReset(m) /\ wasEnabled)
    <3>1. mod[m].listening /\ ~mod[m].enabledState => mod[m].delayDisable \/ mod[m].restored
      BY <2>3, <2>7
    <3>2. ~(ResetRaise /\ m = page)
      BY <2>1 DEF ResetRaise, ResetStep, TypeInv, TypeOK, ModuleObject
    <3>3. ASSUME Disabling(m, mod[m], mod'[m]) PROVE mod'[m].delayDisable
      BY <3>3 DEF Disabling
    <3> QED BY <2>1, <2>7, <3>1, <3>2, <3>3, FieldStep DEF SameFields, Enabling, Restoring
  <2> QED BY <2>4, <2>5, <2>6, <2>7
<1>3. AgreeInv /\ OwedInv => RestoreOwed
  <2> SUFFICES ASSUME AgreeInv, OwedInv, ~raced, NEW m \in Movable, Settled(m),
                      mod[m].listening, ~mod[m].enabledState
               PROVE  mod[m].delayDisable \/ mod[m].restored
    BY DEF RestoreOwed
  <2>1. Running /\ ~InReset(m)
    BY DEF AgreeInv, TypeInv, TypeOK, Settled, Running
  <2> QED BY <2>1 DEF OwedInv
<1> QED BY <1>1, <1>2, <1>3, InitAgrees, StepAgrees, PTL DEF Spec

-----------------------------------------------------------------------------
(* Termination and what is saved                                           *)

\* Terminating a module keeps its setting, whatever toggle, restart or restore is in
\* progress: a save that overlaps the ejection still records what the user had enabled.
THEOREM ChoicesSurviveEject == Spec => EjectKeepsChoices
<1>1. TypeInv /\ [Next]_vars
        => [pcInit = "terminate" =>
              \A m \in work \ work' : mod'[m].enabled = mod[m].enabled]_vars
  <2> SUFFICES ASSUME TypeInv, [Next]_vars, pcInit = "terminate", NEW m \in work \ work'
               PROVE  mod'[m].enabled = mod[m].enabled
    OBVIOUS
  <2>1. m \in Modules /\ mod[m] \in ModuleObject /\ mod \in [Modules -> ModuleObject]
    BY DEF TypeInv, TypeOK
  <2>2. PICK x \in Modules : TerminateModule(x)
    BY DEF Next, InitThread, RenderThread, GameThread, Stopped, RestartBegin,
       RestartDisable, RestartReset, RestartLoad, RestartEnd, RestartSave, TerminateBegin,
       TerminateEnd, Unhook, FrameBegin, DrainCallback, DrainWrite, TriggerRender, Click,
       ResetBegin, ResetGoesOn, ResetStep, ResetOff, ResetClear, ResetRefill, ResetSet,
       ResetRaise, ResetSave, ResetLoad, RenderHandler, FrameEnd, TriggerGame, Handles,
       Keybind, Layout, RequestRestart, Eject, GameEnd, vars, initVars
  <2>3. mod'[m] = Terminated(m, mod[m])
    BY <2>1, <2>2 DEF TerminateModule, Terminated
  <2>4. Terminated(m, mod[m]).enabled = mod[m].enabled
    <3> DEFINE q == [mod[m] EXCEPT !.terminating = TRUE]
               b == BaseOnDisable(q)
    <3>1. q \in ModuleObject /\ q.terminating /\ q.enabled = mod[m].enabled
      BY <2>1 DEF ModuleObject
    <3> HIDE DEF q
    <3>2. b \in ModuleObject /\ b.enabled = q.enabled
      BY <3>1 DEF BaseOnDisable, ModuleObject
    <3>3. OnDisable(m, q) \in {[b EXCEPT !.delayDisable = TRUE], [b EXCEPT !.listening = FALSE]}
      BY DEF OnDisable
    <3> HIDE DEF b
    <3>4. OnDisable(m, q).enabled = b.enabled
      BY <3>2, <3>3 DEF ModuleObject
    <3> QED BY <3>1, <3>2, <3>4 DEF Terminated, q
  <2> QED BY <2>3, <2>4
<1> QED BY <1>1, InitTyped, StepTyped, PTL DEF Spec, EjectKeepsChoices

-----------------------------------------------------------------------------
(* What moduleMap.clear() leaves subscribed                                *)

\* Only terminate() marks a module, its loop marks every module it has reached, and it
\* clears the map when it has reached them all.
MarkedInv ==
    /\ \A m \in Modules : mod[m].terminating => ~Running
    /\ pcInit = "terminate" => \A m \in moduleMap \ work : mod[m].terminating
    /\ \A m \in Modules \ moduleMap : mod[m].terminating

\* From the moment terminate() has reached it a module that is not Movable listens only
\* while it is on, and it is deaf where a toggle or RESET ALL leaves it off.
DeafInv ==
    \A m \in Modules \ Movable : mod[m].terminating =>
        /\ mod[m].listening => mod[m].enabledState \/ InReset(m)
        /\ (pcRender = "write" /\ Head(pendingToggles).module = m
              /\ ~Head(pendingToggles).enable) => ~mod[m].listening
        /\ (pcRender \in {"off", "clear", "refill"} /\ page = m /\ ~wasEnabled)
              => ~mod[m].listening

\* A drained toggle leaves its module listening if and only if it is then on, unless
\* the module is Movable, and does nothing to the others.
LEMMA DrainedDeaf ==
    ASSUME TypeInv, DrainCallback, NEW m \in Modules \ Movable
    PROVE  LET t == Head(pendingToggles) IN
           IF t.module = m THEN /\ mod'[m].listening = t.enable /\ mod'[m].enabledState = t.enable
                           ELSE mod'[m] = mod[m]
<1> DEFINE t == Head(pendingToggles)
<1>1. t \in Toggle /\ mod \in [Modules -> ModuleObject] /\ loaded \in [Modules -> Setting]
  BY DEF TypeInv, TypeOK, DrainCallback
<1>2. t.module \in Modules /\ t.enable \in BOOLEAN
  BY <1>1 DEF Toggle
<1>3. mod' = [mod EXCEPT ![t.module] = IF t.enable THEN OnEnable(@) ELSE OnDisable(t.module, @)]
  BY DEF DrainCallback
<1> HIDE DEF t
<1>4. CASE t.module = m /\ t.enable = TRUE
  <2>1. mod'[m] = OnEnable(mod[m])
    BY <1>1, <1>3, <1>4
  <2>2. Enabling(mod[m], mod'[m])
    BY <1>1, <2>1, EnablingFields
  <2>3. mod'[m].listening = TRUE /\ mod'[m].enabledState = TRUE
    <3>1. OnEnable(mod[m]) \in ModuleObject
      BY <1>1, ObjectMethods
    <3> QED BY <2>1, <2>2, <3>1 DEF Enabling, ModuleObject
  <2> QED BY <1>4, <2>3 DEF t
<1>5. CASE t.module = m /\ t.enable = FALSE
  <2>1. mod'[m] = OnDisable(m, mod[m]) /\ mod[m] \in ModuleObject
    BY <1>1, <1>3, <1>5
  <2>2. /\ OnDisable(m, mod[m]) = [BaseOnDisable(mod[m]) EXCEPT !.listening = FALSE]
        /\ BaseOnDisable(mod[m]) \in ModuleObject /\ ~BaseOnDisable(mod[m]).enabledState
    BY <2>1, ObjectMethods DEF OnDisable, BaseOnDisable, ModuleObject
  <2>3. mod'[m].listening = FALSE /\ mod'[m].enabledState = FALSE
    BY <2>1, <2>2 DEF ModuleObject
  <2> QED BY <1>5, <2>3 DEF t
<1>6. CASE t.module # m
  BY <1>1, <1>3, <1>6 DEF t
<1> QED BY <1>2, <1>4, <1>5, <1>6

\* Module::terminate marks its module, and nothing else touches the mark.
LEMMA MarkStep ==
    ASSUME TypeInv, [Next]_vars, NEW m \in Modules
    PROVE  \/ mod'[m].terminating = mod[m].terminating
           \/ TerminateModule(m) /\ mod'[m].terminating
<1> DEFINE r == mod[m]
           w == mod'[m]
<1>1. r \in ModuleObject /\ loaded \in [Modules -> Setting]
  BY DEF TypeInv, TypeOK
<1>2. ASSUME NEW q \in ModuleObject
      PROVE  /\ OnEnable(q).terminating = q.terminating
             /\ OnDisable(m, q).terminating = q.terminating
  <2> DEFINE b == BaseOnDisable(q)
  <2>1. b \in ModuleObject /\ b.terminating = q.terminating
    BY DEF BaseOnDisable, ModuleObject, Setting
  <2>2. OnDisable(m, q) \in {[b EXCEPT !.delayDisable = TRUE], [b EXCEPT !.listening = FALSE]}
    BY DEF OnDisable
  <2>3. OnEnable(q).terminating = q.terminating
    BY DEF OnEnable, ModuleObject
  <2> HIDE DEF b
  <2> QED BY <2>1, <2>2, <2>3 DEF ModuleObject
<1>3. ASSUME NEW q \in ModuleObject, NEW soft \in BOOLEAN
      PROVE  PostLoad(m, q, soft).terminating = q.terminating
  <2> DEFINE filled == [q EXCEPT !.enabled = IF @ = "absent" THEN Default(m) ELSE @]
  <2>1. filled \in ModuleObject /\ filled.terminating = q.terminating
    BY DEF ModuleObject, Setting, Default, AsSetting
  <2>2. PostLoad(m, q, soft) \in {filled, OnEnable(filled)}
    BY DEF PostLoad
  <2> HIDE DEF filled
  <2> QED BY <1>2, <2>1, <2>2
<1>4. CASE TerminateModule(m) /\ w = Terminated(m, r)
  <2> DEFINE q == [r EXCEPT !.terminating = TRUE]
  <2>1. q \in ModuleObject /\ q.terminating = TRUE
    BY <1>1 DEF ModuleObject
  <2>2. w = OnDisable(m, q)
    BY <1>4 DEF Terminated
  <2> HIDE DEF q
  <2> QED BY <1>2, <1>4, <2>1, <2>2
<1>5. CASE w = LoadSettings(m, r)
  <2> DEFINE q == [r EXCEPT !.enabled = loaded[m]]
  <2>1. q \in ModuleObject /\ q.terminating = r.terminating
    BY <1>1 DEF ModuleObject
  <2>2. w = PostLoad(m, q, FALSE)
    BY <1>5 DEF LoadSettings
  <2> HIDE DEF q
  <2> QED BY <1>3, <2>1, <2>2
<1>6. CASE w = OnEnable(r) \/ w = OnDisable(m, r) \/ w = PostLoad(m, r, TRUE)
  BY <1>1, <1>2, <1>3, <1>6
<1>7. CASE \/ w = ResetSettings(r) \/ w \in Written(r) \/ w = SwitchedByReset(r)
           \/ w = SetByReset(r) \/ w = RaisedByReset(r) \/ w = Pressed(r) \/ w = Restored(r)
  BY <1>1, <1>7 DEF ResetSettings, Written, SwitchedByReset, SetByReset, RaisedByReset, Pressed,
     Restored, ModuleObject
<1> QED BY ObjectStep, <1>4, <1>5, <1>6, <1>7

LEMMA StepMarked == TypeInv /\ MarkedInv /\ [Next]_vars => MarkedInv'
<1> SUFFICES ASSUME TypeInv, MarkedInv, [Next]_vars, NEW m \in Modules
             PROVE  /\ mod'[m].terminating => ~Running'
                    /\ pcInit' = "terminate" /\ m \in moduleMap' \ work' => mod'[m].terminating
                    /\ m \notin moduleMap' => mod'[m].terminating
  <2> SUFFICES ASSUME TypeInv, MarkedInv, [Next]_vars PROVE MarkedInv'
    OBVIOUS
  <2>1. moduleMap' \subseteq Modules
    BY StepTyped DEF TypeInv, TypeOK
  <2> QED BY <2>1 DEF MarkedInv
<1>1. mod[m].terminating => mod'[m].terminating
  BY MarkStep
<1>2. mod'[m].terminating => ~Running'
  BY MarkStep, RunningBefore DEF MarkedInv, TerminateModule, Running
<1>3. CASE TerminateBegin
  BY <1>1, <1>2, <1>3 DEF TerminateBegin, MarkedInv
<1>4. ASSUME NEW x \in Modules, TerminateModule(x)
      PROVE  /\ m \in moduleMap' \ work' => mod'[m].terminating
             /\ m \notin moduleMap' => mod'[m].terminating
  <2>1. CASE x = m
    <3>1. mod'[m] = Terminated(m, mod[m]) /\ mod[m] \in ModuleObject
      BY <1>4, <2>1 DEF TerminateModule, Terminated, TypeInv, TypeOK
    <3>2. OnDisable(m, [mod[m] EXCEPT !.terminating = TRUE]).terminating = TRUE
      <4> DEFINE q == [mod[m] EXCEPT !.terminating = TRUE]
                 b == BaseOnDisable(q)
      <4>1. q \in ModuleObject /\ q.terminating = TRUE
        BY <3>1 DEF ModuleObject
      <4> HIDE DEF q
      <4>2. b \in ModuleObject /\ b.terminating = TRUE
        BY <4>1 DEF BaseOnDisable, ModuleObject, Setting
      <4>3. OnDisable(m, q) \in {[b EXCEPT !.delayDisable = TRUE], [b EXCEPT !.listening = FALSE]}
        BY DEF OnDisable
      <4> HIDE DEF b
      <4>4. OnDisable(m, q).terminating = TRUE
        BY <4>2, <4>3 DEF ModuleObject
      <4> QED BY <4>4 DEF q
    <3> QED BY <3>1, <3>2 DEF Terminated
  <2>2. CASE x # m
    BY <1>1, <1>4, <2>2 DEF TerminateModule, MarkedInv
  <2> QED BY <2>1, <2>2
<1>5. CASE TerminateEnd
  BY <1>1, <1>2, <1>5 DEF TerminateEnd, MarkedInv
<1>6. ASSUME ~TerminateBegin, ~TerminateEnd, \A x \in Modules : ~TerminateModule(x)
      PROVE  /\ pcInit' = "terminate" => pcInit = "terminate" /\ work' = work
             /\ moduleMap' = moduleMap
  BY <1>6 DEF Next, InitThread, RenderThread, GameThread, Stopped, RestartBegin, RestartDisable,
     RestartReset, RestartLoad, RestartEnd, RestartSave, Unhook, FrameBegin, DrainCallback,
     DrainWrite, TriggerRender, Click, ResetBegin, ResetGoesOn, ResetOff, ResetClear, ResetRefill,
     ResetSet, ResetRaise, ResetStep, ResetSave, ResetLoad, RenderHandler, FrameEnd, TriggerGame,
     Keybind, Layout, Handles, RequestRestart, Eject, GameEnd, vars, initVars
<1>7. CASE ~(TerminateBegin \/ TerminateEnd \/ \E x \in Modules : TerminateModule(x))
  BY <1>1, <1>2, <1>6, <1>7 DEF MarkedInv
<1> QED BY <1>2, <1>3, <1>4, <1>5, <1>7

LEMMA StepDeaf == TypeInv /\ MarkedInv /\ DeafInv /\ [Next]_vars => DeafInv'
<1> SUFFICES ASSUME TypeInv, MarkedInv, DeafInv, [Next]_vars, NEW m \in Modules \ Movable,
                    mod'[m].terminating
             PROVE  /\ mod'[m].listening => mod'[m].enabledState \/ InReset(m)'
                    /\ (pcRender' = "write" /\ Head(pendingToggles').module = m
                          /\ ~Head(pendingToggles').enable) => ~mod'[m].listening
                    /\ (pcRender' \in {"off", "clear", "refill"} /\ page' = m /\ ~wasEnabled')
                          => ~mod'[m].listening
  BY DEF DeafInv
<1>1. mod \in [Modules -> ModuleObject] /\ loaded \in [Modules -> Setting]
  BY DEF TypeInv, TypeOK
<1>4. mod[m] \in ModuleObject
  BY <1>1
<1>12. CASE TerminateModule(m)
  <2>1. Disabling(m, mod[m], Terminated(m, mod[m]))
    BY <1>4, DisablingFields
  <2>2. mod'[m] = Terminated(m, mod[m])
    BY <1>1, <1>12 DEF TerminateModule, Terminated
  <2> QED BY <2>1, <2>2 DEF Disabling
<1> SUFFICES ASSUME ~TerminateModule(m) PROVE
       /\ mod'[m].listening => mod'[m].enabledState \/ InReset(m)'
       /\ (pcRender' = "write" /\ Head(pendingToggles').module = m
             /\ ~Head(pendingToggles').enable) => ~mod'[m].listening
       /\ (pcRender' \in {"off", "clear", "refill"} /\ page' = m /\ ~wasEnabled')
             => ~mod'[m].listening
  BY <1>12
<1>2. mod[m].terminating /\ ~RestartLoad
  BY MarkStep DEF MarkedInv, Running, RestartLoad
<1>3. /\ mod[m].listening => mod[m].enabledState \/ InReset(m)
      /\ (pcRender = "write" /\ Head(pendingToggles).module = m
            /\ ~Head(pendingToggles).enable) => ~mod[m].listening
      /\ (pcRender \in {"off", "clear", "refill"} /\ page = m /\ ~wasEnabled)
            => ~mod[m].listening
  BY <1>2 DEF DeafInv
<1>5. ASSUME NEW x \in Modules, ResetBegin(x) PROVE
        /\ mod'[m].listening => mod'[m].enabledState \/ InReset(m)'
        /\ pcRender' # "write"
        /\ (pcRender' \in {"off", "clear", "refill"} /\ page' = m /\ ~wasEnabled')
              => ~mod'[m].listening
  BY <1>3, <1>5 DEF ResetBegin, InReset
<1>6. CASE DrainCallback
  <2>1. pcRender' = "write" /\ pendingToggles' = pendingToggles /\ pcRender = "drain"
    BY <1>6 DEF DrainCallback
  <2>2. Head(pendingToggles).enable \in BOOLEAN
    <3>1. Head(pendingToggles) \in Toggle
      BY <1>1, <1>6 DEF DrainCallback, TypeInv, TypeOK
    <3> QED BY <3>1 DEF Toggle
  <2> QED BY <1>1, <1>3, <1>6, <2>1, <2>2, DrainedDeaf DEF InReset
<1>7. CASE DrainWrite
  <2> DEFINE t == Head(pendingToggles)
  <2>1. pcRender = "write" /\ pcRender' = "drain" /\ mod'[m].listening = mod[m].listening
    <3>1. pcRender = "write" /\ pcRender' = "drain"
      BY <1>7 DEF DrainWrite
    <3>2. ~DrainCallback /\ ~RestartLoad /\ ~RestartDisable(m) /\ ~TerminateModule(m)
      BY <3>1 DEF DrainCallback, RestartLoad, RestartDisable, TerminateModule, renderVars
    <3> QED BY <1>1, <3>1, <3>2, FieldStep DEF SameFields, Switching, Restoring
  <2>2. t \in Toggle
    BY <1>1, <1>7 DEF DrainWrite, TypeInv, TypeOK, FrontToggle
  <2>3. t.module # m => mod'[m].enabledState = mod[m].enabledState
    BY <1>1, <1>7 DEF DrainWrite
  <2>4. t.module = m => mod'[m].enabledState = t.enable
    BY <1>1, <1>4, <1>7 DEF DrainWrite, ModuleObject
  <2> QED BY <1>3, <2>1, <2>2, <2>3, <2>4 DEF InReset, Toggle
<1>9. CASE ResetOff \/ ResetClear \/ ResetRefill \/ ResetSet \/ ResetRaise
  <2>1. /\ pcRender \in {"off", "clear", "refill", "set", "raise"} /\ page \in Modules
        /\ UNCHANGED <<page, wasEnabled>> /\ wasEnabled \in BOOLEAN
    BY <1>1, <1>9 DEF ResetOff, ResetClear, ResetRefill, ResetSet, ResetRaise, ResetStep,
       TypeInv, TypeOK, Places, ResetPlaces
  <2>2. /\ pcRender = "off" => ResetOff /\ pcRender' = "clear"
        /\ pcRender = "clear" => ResetClear /\ pcRender' = "refill"
        /\ pcRender = "refill" => ResetRefill /\ pcRender' = IF wasEnabled THEN "set" ELSE "save"
        /\ pcRender = "set" => ResetSet /\ pcRender' = "raise"
        /\ pcRender = "raise" => ResetRaise /\ pcRender' = "save"
    BY <1>9 DEF ResetOff, ResetClear, ResetRefill, ResetSet, ResetRaise, ResetStep
  <2>3. CASE page = m
    <3>1. mod'[m].listening = mod[m].listening
      <4>1. pcRender' # pcRender /\ pcRender # "drain"
        BY <2>1, <2>2
      <4>2. ~DrainCallback /\ ~RestartLoad /\ ~RestartDisable(m) /\ ~TerminateModule(m)
        BY <4>1 DEF DrainCallback, RestartLoad, RestartDisable, TerminateModule, renderVars
      <4> QED BY <1>1, <4>2, FieldStep DEF SameFields, Switching, Restoring
    <3>2. pcRender = "raise" => mod'[m].enabledState
      BY <1>1, <1>4, <2>2, <2>3 DEF ResetRaise, ResetStep, ModuleObject
    <3> QED BY <1>3, <2>1, <2>2, <2>3, <3>1, <3>2 DEF InReset
  <2>4. CASE page # m
    <3>1. mod'[m] = mod[m]
      BY <1>1, <1>9, <2>4 DEF ResetOff, ResetClear, ResetRefill, ResetSet, ResetRaise, ResetStep
    <3>2. pcRender' # "write"
      BY <2>1, <2>2
    <3> QED BY <1>3, <2>1, <2>4, <3>1, <3>2 DEF InReset
  <2> QED BY <2>3, <2>4
<1>10. ASSUME ~DrainCallback, ~DrainWrite, \A x \in Modules : ~ResetBegin(x),
              ~ResetOff, ~ResetClear, ~ResetRefill, ~ResetSet, ~ResetRaise
       PROVE  /\ mod'[m].listening => mod[m].listening /\ mod'[m].enabledState = mod[m].enabledState
              /\ pcRender' = pcRender \/ pcRender' \notin {"write", "off", "clear", "refill"}
              /\ InReset(m)' = InReset(m)
              /\ pcRender \in {"write", "off", "clear", "refill"} =>
                    UNCHANGED <<page, wasEnabled, pendingToggles>>
  <2>1. mod'[m].listening => mod[m].listening /\ mod'[m].enabledState = mod[m].enabledState
    BY <1>1, <1>2, <1>10, FieldStep DEF SameFields, Disabling, Restoring
  <2>2. /\ pcRender' = pcRender \/ pcRender' \notin {"write", "off", "clear", "refill"}
        /\ InReset(m)' = InReset(m)
        /\ pcRender \in {"write", "off", "clear", "refill"} =>
              UNCHANGED <<page, wasEnabled, pendingToggles>>
    BY <1>2, <1>10 DEF InReset, Next, InitThread, RenderThread, GameThread, Stopped, RestartBegin,
     RestartDisable, RestartReset, RestartEnd, RestartSave, TerminateBegin,
     TerminateModule, TerminateEnd, Unhook, FrameBegin, TriggerRender,
     Click, RenderHandler, FrameEnd, ResetGoesOn, ResetSave, ResetLoad, TriggerGame, Handles,
     Keybind, Layout, RequestRestart, Eject, GameEnd, vars, renderVars
  <2> QED BY <2>1, <2>2
<1>11. CASE ~(\/ DrainCallback \/ DrainWrite \/ (\E x \in Modules : ResetBegin(x))
              \/ ResetOff \/ ResetClear \/ ResetRefill \/ ResetSet \/ ResetRaise)
  BY <1>3, <1>10, <1>11
<1> QED BY <1>5, <1>6, <1>7, <1>9, <1>11

\* No module that terminate() has destroyed is still subscribed, except a Movable one and
\* one that a queued toggle has switched on, for every set of modules and every number of
\* toggles, RESET ALLs and restarts, in every interleaving of the three threads.
THEOREM DestroyedStayDeaf == Spec => []DestroyedAreDeaf
<1>1. Init => MarkedInv /\ DeafInv
  <2> SUFFICES ASSUME Init PROVE MarkedInv /\ DeafInv
    OBVIOUS
  <2>1. \A m \in Modules : ~mod[m].terminating
    BY InitAgrees DEF Init, AgreeInv, Consistent, Running
  <2> QED BY <2>1 DEF Init, MarkedInv, DeafInv
<1>2. MarkedInv /\ DeafInv => DestroyedAreDeaf
  BY DEF MarkedInv, DeafInv, DestroyedAreDeaf
<1> QED BY <1>1, <1>2, StepMarked, StepDeaf, InitTyped, StepTyped, PTL DEF Spec
==============================================================================
