--------------------------- MODULE ModuleLifecycle ---------------------------
(***************************************************************************)
(* The life of the client's native modules: the flags of class Module, the *)
(* queue of deferred toggles, the restart and the termination of all       *)
(* modules (src/src/Client/Module/Manager.{hpp,cpp}) and the three threads *)
(* that work on them without a common lock:                                *)
(*   - the init thread of main.cpp, which runs ModuleManager::syncState in *)
(*     a loop and ModuleManager::terminate at the end;                     *)
(*   - the render thread (hooked Present), which drains the toggle queue   *)
(*     and then triggers the RenderEvent, inside which the GUI runs;       *)
(*   - the game thread, which triggers key and layout events.              *)
(* One step is one call on one module: an onEnable, an onDisable, a        *)
(* settings.reset, a loadSettings, a handler, or one statement of the GUI  *)
(* that writes a module's fields itself.  Calls of different threads       *)
(* interleave freely, because the code takes no lock that orders them.     *)
(***************************************************************************)
EXTENDS Naturals, Sequences

CONSTANTS
    Modules,     \* the native modules held by ModuleManager::moduleMap
    Movable,     \* those whose onDisable waits for a layout event (MovableChat, GuiScale, ...)
    NoModule,    \* a local that holds no module
    DefaultOn,   \* those whose defaultConfig sets "enabled" to true (TabList, Zoom)
    MaxClicks,   \* bound: toggles and RESET ALLs clicked in the GUI in one behaviour
    MaxRestarts  \* bound: restarts requested in one behaviour

ASSUME ModulesAssumption ==
    Movable \subseteq Modules /\ DefaultOn \subseteq Modules /\ NoModule \notin Modules
ASSUME BoundsAssumption == MaxClicks \in Nat /\ MaxRestarts \in Nat

VARIABLES
    initialized,     \* ModuleState::initialized, the gate of EventManager::trigger
    restartModules,  \* ModuleState::restartModules, set by any thread, consumed by syncState
    disable,         \* Client::disable
    moduleMap,       \* the modules still registered
    mod,             \* the fields of each Module object
    file,            \* each module's "enabled" in the configuration's file
    loaded,          \* Client::globalSettings: the same, as LoadSettings has read it
    pendingToggles,  \* ModuleManager::pendingToggles
    pcInit,          \* where the init thread is
    work,            \* modules the init thread's loop over moduleMap has not reached
    cur,             \* the module that loop is at
    pcRender,        \* where the render thread is
    page,            \* the module whose settings page is reset
    wasEnabled,      \* RESET ALL's local: whether that module was on
    pcGame,          \* where the game thread is
    faults,          \* crashes met: a null setting written or read, a destroyed module called
    raced,           \* history: a restart has overlapped a toggle or a RESET ALL
    clicks, restarts \* counters for the bounds

initVars   == <<pcInit, work, cur>>
renderVars == <<pcRender, page, wasEnabled>>
config     == <<file, loaded>>
bounds     == <<raced, clicks, restarts>>
vars == <<initialized, restartModules, disable, moduleMap, mod, config, pendingToggles,
          initVars, renderVars, pcGame, faults, bounds>>

\* The places of the render thread between two statements of RESET ALL.
ResetPlaces == {"off", "clear", "refill", "set", "raise", "save", "load"}

\* The value of a module's "enabled" setting; settings.reset() removes it.
Setting == {"absent", "off", "on"}
AsSetting(b) == IF b THEN "on" ELSE "off"
Default(m) == AsSetting(m \in DefaultOn)

ModuleObject == [enabledState : BOOLEAN, active : BOOLEAN, enabled : Setting,
                 listening : BOOLEAN, delayDisable : BOOLEAN, restored : BOOLEAN,
                 terminating : BOOLEAN]
Toggle == [module : Modules, enable : BOOLEAN]

TypeOK ==
    /\ initialized \in BOOLEAN /\ restartModules \in BOOLEAN /\ disable \in BOOLEAN
    /\ moduleMap \subseteq Modules
    /\ mod \in [Modules -> ModuleObject]
    /\ file \in [Modules -> Setting] /\ loaded \in [Modules -> Setting]
    /\ pendingToggles \in Seq(Toggle)
    /\ pcInit \in {"loop", "restart", "reset", "load", "save", "terminate", "terminated", "unloaded"}
    /\ work \subseteq Modules
    /\ cur \in Modules \cup {NoModule}
    /\ pcRender \in {"idle", "drain", "write", "dispatch"} \cup ResetPlaces
    /\ page \in Modules \cup {NoModule} /\ wasEnabled \in BOOLEAN
    /\ pcGame \in {"idle", "dispatch"}
    /\ faults \subseteq {"null_toggle", "null_setting", "destroyed_module"}
    /\ raced \in BOOLEAN
    /\ clicks \in 0..MaxClicks /\ restarts \in 0..MaxRestarts

-----------------------------------------------------------------------------
(* The methods of class Module, as functions of the object they change.    *)

\* onEnable of a module: Listen, restored = false, then Module::onEnable.
OnEnable(r) ==
    [r EXCEPT !.listening = TRUE, !.restored = FALSE, !.enabledState = TRUE,
              !.enabled = IF @ = "absent" THEN @ ELSE "on"]

\* Mutants of BaseOnDisable: the test of terminating, or the reset of active, is forgotten.
BaseOnDisableAlwaysSaves(r) ==
    [r EXCEPT !.enabledState = FALSE, !.active = FALSE,
              !.enabled = IF @ = "absent" THEN @ ELSE "off"]
BaseOnDisableKeepsActive(r) ==
    [r EXCEPT !.enabledState = FALSE,
              !.enabled = IF r.terminating \/ @ = "absent" THEN @ ELSE "off"]

\* Module::onDisable: the setting survives when the client terminates.
BaseOnDisable(r) ==
    [r EXCEPT !.enabledState = FALSE, !.active = FALSE,
              !.enabled = IF r.terminating \/ @ = "absent" THEN @ ELSE "off"]

\* Mutants of OnDisable: it forgets to owe the restore, or to deafen.
OnDisableForgetsRestore(m, r) ==
    IF m \in Movable /\ ~r.restored
    THEN BaseOnDisable(r) ELSE [BaseOnDisable(r) EXCEPT !.listening = FALSE]
OnDisableStaysSubscribed(m, r) ==
    IF m \in Movable /\ ~r.restored
    THEN [BaseOnDisable(r) EXCEPT !.delayDisable = TRUE] ELSE BaseOnDisable(r)

\* onDisable of a module: a Movable one that still has to put its element back
\* keeps its subscriptions and only raises delayDisable.
OnDisable(m, r) ==
    IF m \in Movable /\ ~r.restored
    THEN [BaseOnDisable(r) EXCEPT !.delayDisable = TRUE]
    ELSE [BaseOnDisable(r) EXCEPT !.listening = FALSE]

\* settings.reset()
ResetSettings(r) == [r EXCEPT !.enabled = "absent"]

\* postLoad: defaultConfig adds what is missing; a hard load enables the module
\* when its setting says so.
PostLoad(m, r, softLoad) ==
    LET filled == [r EXCEPT !.enabled = IF @ = "absent" THEN Default(m) ELSE @]
    IN  IF ~softLoad /\ filled.enabled = "on" THEN OnEnable(filled) ELSE filled

\* loadSettings: FromJson of the loaded configuration, then a hard postLoad.
LoadSettings(m, r) == PostLoad(m, [r EXCEPT !.enabled = loaded[m]], FALSE)

\* Client::SaveSettings: what the modules in the map have set.
SavedSettings == [m \in Modules |-> IF m \in moduleMap THEN mod[m].enabled ELSE "absent"]

\* A shared_ptr keeps a module alive from the map, the toggle queue and RESET ALL.
Alive(m) ==
    \/ m \in moduleMap
    \/ \E i \in DOMAIN pendingToggles : pendingToggles[i].module = m
    \/ pcRender \in ResetPlaces /\ page = m

\* restart() is in its loop; the render thread is in the middle of changing a module.
Restarting == pcInit \in {"restart", "reset", "load"}
Changing == pcRender \in ResetPlaces \cup {"write"}

-----------------------------------------------------------------------------
(* The init thread: main.cpp's loop and ModuleManager.                     *)

\* Mutant of RestartBegin: syncState leaves restartModules set.
RestartRequestKept ==
    /\ pcInit = "loop" /\ ~disable /\ initialized /\ restartModules
    /\ initialized' = FALSE
    /\ file' \in [Modules -> Setting] /\ loaded' = file'
    /\ pcInit' = "restart" /\ work' = moduleMap
    /\ raced' = (raced \/ Changing)
    /\ UNCHANGED <<restartModules, disable, moduleMap, mod, pendingToggles, cur, renderVars,
                   pcGame, faults, clicks, restarts>>

\* syncState, the part before the loop of restart(): the configuration's file may
\* hold anything, for the user may have switched to another one.
RestartBegin ==
    /\ pcInit = "loop" /\ ~disable /\ initialized /\ restartModules
    /\ restartModules' = FALSE
    /\ initialized' = FALSE
    /\ file' \in [Modules -> Setting] /\ loaded' = file'
    /\ pcInit' = "restart" /\ work' = moduleMap
    /\ raced' = (raced \/ Changing)
    /\ UNCHANGED <<disable, moduleMap, mod, pendingToggles, cur, renderVars, pcGame, faults,
                   clicks, restarts>>

RestartDisable(m) ==
    /\ pcInit = "restart" /\ m \in work
    /\ mod' = [mod EXCEPT ![m] = IF @.enabledState THEN OnDisable(m, @) ELSE @]
    /\ cur' = m /\ work' = work \ {m} /\ pcInit' = "reset"
    /\ UNCHANGED <<initialized, restartModules, disable, moduleMap, config, pendingToggles,
                   renderVars, pcGame, faults, bounds>>

RestartReset ==
    /\ pcInit = "reset"
    /\ mod' = [mod EXCEPT ![cur] = ResetSettings(@)]
    /\ pcInit' = "load"
    /\ UNCHANGED <<initialized, restartModules, disable, moduleMap, config, pendingToggles,
                   work, cur, renderVars, pcGame, faults, bounds>>

RestartLoad ==
    /\ pcInit = "load"
    /\ mod' = [mod EXCEPT ![cur] = LoadSettings(cur, @)]
    /\ pcInit' = "restart" /\ cur' = NoModule
    /\ UNCHANGED <<initialized, restartModules, disable, moduleMap, config, pendingToggles,
                   work, renderVars, pcGame, faults, bounds>>

RestartEnd ==
    /\ pcInit = "restart" /\ work = {}
    /\ initialized' = TRUE
    /\ pcInit' = "save"
    /\ UNCHANGED <<restartModules, disable, moduleMap, mod, config, pendingToggles, work, cur,
                   renderVars, pcGame, faults, bounds>>

\* restart() ends by saving what it has loaded.
RestartSave ==
    /\ pcInit = "save"
    /\ file' = SavedSettings
    /\ pcInit' = "loop"
    /\ UNCHANGED <<initialized, restartModules, disable, moduleMap, mod, loaded, pendingToggles,
                   work, cur, renderVars, pcGame, faults, bounds>>

\* The loop of main.cpp ends and ModuleManager::terminate begins.
TerminateBegin ==
    /\ pcInit = "loop" /\ disable
    /\ initialized' = FALSE
    /\ pcInit' = "terminate" /\ work' = moduleMap
    /\ UNCHANGED <<restartModules, disable, moduleMap, mod, config, pendingToggles, cur,
                   renderVars, pcGame, faults, bounds>>

\* Mutant of TerminateModule: the loop of terminate() does not advance.
TerminateRepeats(m) ==
    /\ pcInit = "terminate" /\ m \in work
    /\ mod' = [mod EXCEPT ![m] = OnDisable(m, [@ EXCEPT !.terminating = TRUE])]
    /\ UNCHANGED <<initialized, restartModules, disable, moduleMap, config, pendingToggles,
                   work, pcInit, cur, renderVars, pcGame, faults, bounds>>

\* Module::terminate
TerminateModule(m) ==
    /\ pcInit = "terminate" /\ m \in work
    /\ mod' = [mod EXCEPT ![m] = OnDisable(m, [@ EXCEPT !.terminating = TRUE])]
    /\ work' = work \ {m}
    /\ UNCHANGED <<initialized, restartModules, disable, moduleMap, config, pendingToggles,
                   pcInit, cur, renderVars, pcGame, faults, bounds>>

\* moduleMap.clear(); the toggle queue is left as it is.
TerminateEnd ==
    /\ pcInit = "terminate" /\ work = {}
    /\ moduleMap' = {}
    /\ pcInit' = "terminated"
    /\ UNCHANGED <<initialized, restartModules, disable, mod, config, pendingToggles, work, cur,
                   renderVars, pcGame, faults, bounds>>

\* MH_DisableHook(MH_ALL_HOOKS): from here no new frame or game event reaches the client.
Unhook ==
    /\ pcInit = "terminated"
    /\ pcInit' = "unloaded"
    /\ UNCHANGED <<initialized, restartModules, disable, moduleMap, mod, config, pendingToggles,
                   work, cur, renderVars, pcGame, faults, bounds>>

InitThread ==
    \/ RestartBegin \/ RestartReset \/ RestartLoad \/ RestartEnd \/ RestartSave
    \/ TerminateBegin \/ TerminateEnd \/ Unhook
    \/ \E m \in Modules : RestartDisable(m) \/ TerminateModule(m)

-----------------------------------------------------------------------------
(* The render thread: processPendingToggles, then the RenderEvent.         *)

FrameBegin ==
    /\ pcRender = "idle" /\ pcInit # "unloaded"
    /\ pcRender' = "drain"
    /\ UNCHANGED <<initialized, restartModules, disable, moduleMap, mod, config, pendingToggles,
                   initVars, page, wasEnabled, pcGame, faults, bounds>>

\* processPendingToggles: the callback of the toggle at the front ...
DrainCallback ==
    /\ pcRender = "drain" /\ pendingToggles # <<>>
    /\ LET t == Head(pendingToggles)
       IN  mod' = [mod EXCEPT ![t.module] = IF t.enable THEN OnEnable(@) ELSE OnDisable(t.module, @)]
    /\ pcRender' = "write"
    /\ raced' = (raced \/ Restarting)
    /\ UNCHANGED <<initialized, restartModules, disable, moduleMap, config, pendingToggles,
                   initVars, page, wasEnabled, pcGame, faults, clicks, restarts>>

\* Mutants of DrainWrite: the setting receives the bool as text, or the pop is forgotten.
DrainWriteText ==
    /\ pcRender = "write"
    /\ LET t == Head(pendingToggles)
       IN  mod' = [mod EXCEPT ![t.module].enabledState = t.enable,
                              ![t.module].enabled = IF t.enable THEN "true" ELSE "false"]
    /\ pendingToggles' = Tail(pendingToggles)
    /\ pcRender' = "drain"
    /\ UNCHANGED <<initialized, restartModules, disable, moduleMap, config, initVars, page,
                   wasEnabled, pcGame, faults, bounds>>
DrainWriteWithoutPop ==
    /\ pcRender = "write"
    /\ pcRender' = "drain"
    /\ UNCHANGED <<initialized, restartModules, disable, moduleMap, mod, config, pendingToggles,
                   initVars, page, wasEnabled, pcGame, faults, bounds>>

\* ... then the two flags, the setting through a pointer that is not checked.
DrainWrite ==
    /\ pcRender = "write"
    /\ LET t == Head(pendingToggles)
       IN  IF mod[t.module].enabled = "absent"
           THEN /\ faults' = faults \cup {"null_toggle"}
                /\ mod' = [mod EXCEPT ![t.module].enabledState = t.enable]
           ELSE /\ mod' = [mod EXCEPT ![t.module].enabledState = t.enable,
                                      ![t.module].enabled = AsSetting(t.enable)]
                /\ UNCHANGED faults
    /\ pendingToggles' = Tail(pendingToggles)
    /\ pcRender' = "drain"
    /\ UNCHANGED <<initialized, restartModules, disable, moduleMap, config,
                   initVars, page, wasEnabled, pcGame, bounds>>

\* The queue is empty: eventMgr.trigger(RenderEvent) passes its gate or returns.
TriggerRender ==
    /\ pcRender = "drain" /\ pendingToggles = <<>>
    /\ pcRender' = IF initialized THEN "dispatch" ELSE "idle"
    /\ UNCHANGED <<initialized, restartModules, disable, moduleMap, mod, config, pendingToggles,
                   initVars, page, wasEnabled, pcGame, faults, bounds>>

\* ModCard's toggle button: the new state is computed from the setting now, and
\* queued for the next frame.
Click(m) ==
    /\ pcRender = "dispatch" /\ m \in moduleMap /\ clicks < MaxClicks
    /\ clicks' = clicks + 1
    /\ IF mod[m].enabled = "absent"
       THEN faults' = faults \cup {"null_setting"} /\ UNCHANGED pendingToggles
       ELSE /\ pendingToggles' =
                 Append(pendingToggles, [module |-> m, enable |-> mod[m].enabled = "off"])
            /\ UNCHANGED faults
    /\ UNCHANGED <<initialized, restartModules, disable, moduleMap, mod, config,
                   initVars, renderVars, pcGame, raced, restarts>>

(* ClickGUI's "RESET ALL" of one module's settings page, statement by      *)
(* statement: the init thread may be in restart() between any two of them. *)

\* isEnabled() is read into wasEnabled.
ResetBegin(m) ==
    /\ pcRender = "dispatch" /\ m \in moduleMap /\ clicks < MaxClicks
    /\ clicks' = clicks + 1
    /\ page' = m /\ wasEnabled' = mod[m].enabledState
    /\ pcRender' = "off"
    /\ raced' = (raced \/ Restarting)
    /\ UNCHANGED <<initialized, restartModules, disable, moduleMap, mod, config, pendingToggles,
                   initVars, pcGame, faults, restarts>>

\* A statement that leaves the module of the page as r.
ResetStep(here, next, r) ==
    /\ pcRender = here /\ pcRender' = next
    /\ mod' = [mod EXCEPT ![page] = r]
    /\ UNCHANGED <<initialized, restartModules, disable, moduleMap, config, pendingToggles,
                   initVars, page, wasEnabled, pcGame, faults, bounds>>

ResetOff    == ResetStep("off", "clear", [mod[page] EXCEPT !.enabledState = FALSE, !.active = FALSE])
ResetClear  == ResetStep("clear", "refill", ResetSettings(mod[page]))
ResetRefill == ResetStep("refill", IF wasEnabled THEN "set" ELSE "save", PostLoad(page, mod[page], TRUE))
\* setValue writes a setting that is there.
ResetSet    == ResetStep("set", "raise", [mod[page] EXCEPT !.enabled = IF @ = "absent" THEN @ ELSE "on"])
ResetRaise  == ResetStep("raise", "save", [mod[page] EXCEPT !.enabledState = TRUE])

ResetSave ==
    /\ pcRender = "save" /\ pcRender' = "load"
    /\ file' = SavedSettings
    /\ UNCHANGED <<initialized, restartModules, disable, moduleMap, mod, loaded, pendingToggles,
                   initVars, page, wasEnabled, pcGame, faults, bounds>>

ResetLoad ==
    /\ pcRender = "load" /\ pcRender' = "dispatch"
    /\ loaded' = file
    /\ page' = NoModule /\ wasEnabled' = FALSE
    /\ UNCHANGED <<initialized, restartModules, disable, moduleMap, mod, file, pendingToggles,
                   initVars, pcGame, faults, bounds>>

\* A module's RenderEvent handler: unless it is switched off it reads its settings.
RenderHandler(m) ==
    /\ pcRender = "dispatch" /\ mod[m].listening
    /\ faults' = faults \cup
         IF ~Alive(m) THEN {"destroyed_module"}
         ELSE IF (mod[m].enabledState \/ mod[m].delayDisable) /\ mod[m].enabled = "absent"
              THEN {"null_setting"} ELSE {}
    /\ UNCHANGED <<initialized, restartModules, disable, moduleMap, mod, config, pendingToggles,
                   initVars, renderVars, pcGame, bounds>>

FrameEnd ==
    /\ pcRender = "dispatch"
    /\ pcRender' = "idle"
    /\ UNCHANGED <<initialized, restartModules, disable, moduleMap, mod, config, pendingToggles,
                   initVars, page, wasEnabled, pcGame, faults, bounds>>

\* The statements of RESET ALL that follow its first one.
ResetGoesOn ==
    ResetOff \/ ResetClear \/ ResetRefill \/ ResetSet \/ ResetRaise \/ ResetSave \/ ResetLoad

RenderThread ==
    \/ FrameBegin \/ DrainCallback \/ DrainWrite \/ TriggerRender \/ FrameEnd \/ ResetGoesOn
    \/ \E m \in Modules : Click(m) \/ ResetBegin(m) \/ RenderHandler(m)

-----------------------------------------------------------------------------
(* The game thread: key events and the layout event.                       *)

TriggerGame ==
    /\ pcGame = "idle" /\ pcInit # "unloaded" /\ initialized
    /\ pcGame' = "dispatch"
    /\ UNCHANGED <<initialized, restartModules, disable, moduleMap, mod, config, pendingToggles,
                   initVars, renderVars, faults, bounds>>

\* A handler of the game thread acts for module m, if the module still exists.
Handles(m, effect) ==
    /\ pcGame = "dispatch" /\ mod[m].listening
    /\ IF Alive(m) THEN mod' = [mod EXCEPT ![m] = effect] /\ UNCHANGED faults
                   ELSE faults' = faults \cup {"destroyed_module"} /\ UNCHANGED mod
    /\ UNCHANGED <<initialized, restartModules, disable, moduleMap, config, pendingToggles,
                   initVars, renderVars, pcGame, bounds>>

\* The module's keybind: keybindActions[0] flips active.
Keybind(m) ==
    /\ mod[m].enabledState
    /\ Handles(m, [mod[m] EXCEPT !.active = ~@])

\* Mutant of Layout: the restore is done but stays owed.
LayoutKeepsDelay(m) ==
    /\ m \in Movable /\ mod[m].delayDisable /\ ~mod[m].restored
    /\ Handles(m, [mod[m] EXCEPT !.restored = TRUE])

\* SetupAndRenderEvent of a Movable module: the pending restore is done here.
Layout(m) ==
    /\ m \in Movable /\ mod[m].delayDisable /\ ~mod[m].restored
    /\ Handles(m, [mod[m] EXCEPT !.delayDisable = FALSE, !.restored = TRUE])

\* A configuration switch, or "Reload Scripts", asks for a restart.
RequestRestart ==
    /\ pcGame = "dispatch" /\ restarts < MaxRestarts
    /\ restarts' = restarts + 1
    /\ restartModules' = TRUE
    /\ UNCHANGED <<initialized, disable, moduleMap, mod, config, pendingToggles, initVars,
                   renderVars, pcGame, faults, raced, clicks>>

\* UninjectListener::onKey
Eject ==
    /\ pcGame = "dispatch"
    /\ disable' = TRUE
    /\ UNCHANGED <<initialized, restartModules, moduleMap, mod, config, pendingToggles, initVars,
                   renderVars, pcGame, faults, bounds>>

GameEnd ==
    /\ pcGame = "dispatch"
    /\ pcGame' = "idle"
    /\ UNCHANGED <<initialized, restartModules, disable, moduleMap, mod, config, pendingToggles,
                   initVars, renderVars, faults, bounds>>

GameThread ==
    \/ TriggerGame \/ GameEnd \/ RequestRestart \/ Eject
    \/ \E m \in Modules : Keybind(m) \/ Layout(m)

-----------------------------------------------------------------------------

\* The library is freed, or a fault has ended the process: nothing happens any more.
Crashed == faults # {}
Stopped ==
    /\ Crashed \/ (pcInit = "unloaded" /\ pcRender = "idle" /\ pcGame = "idle")
    /\ UNCHANGED vars

\* A module that initialize() has loaded from a configuration.
FreshModule(m) ==
    [enabledState |-> FALSE, active |-> FALSE, enabled |-> "absent", listening |-> FALSE,
     delayDisable |-> FALSE, restored |-> FALSE, terminating |-> FALSE]

Init ==
    /\ initialized = TRUE /\ restartModules = FALSE /\ disable = FALSE
    /\ moduleMap = Modules
    /\ file \in [Modules -> Setting] /\ loaded = file
    /\ mod = [m \in Modules |-> LoadSettings(m, FreshModule(m))]
    /\ pendingToggles = <<>>
    /\ pcInit = "loop" /\ work = {} /\ cur = NoModule
    /\ pcRender = "idle" /\ page = NoModule /\ wasEnabled = FALSE
    /\ pcGame = "idle"
    /\ faults = {}
    /\ raced = FALSE /\ clicks = 0 /\ restarts = 0

Next ==
    \/ ~Crashed /\ InitThread
    \/ ~Crashed /\ RenderThread
    \/ ~Crashed /\ GameThread
    \/ Stopped

\* Every thread is scheduled, a dispatch ends, and the game keeps drawing frames.
Fairness ==
    /\ WF_vars(~Crashed /\ InitThread)
    /\ WF_vars(~Crashed /\ (FrameBegin \/ DrainCallback \/ DrainWrite \/ TriggerRender \/ FrameEnd
                              \/ ResetGoesOn))
    /\ WF_vars(~Crashed /\ GameEnd)

Spec == Init /\ [][Next]_vars
FairSpec == Spec /\ Fairness

-----------------------------------------------------------------------------
(* Properties                                                              *)

\* The statements of RESET ALL have left module m half-way.
InReset(m) == pcRender \in {"clear", "refill", "set", "raise"} /\ page = m

\* No thread is half-way through a change of module m.
Settled(m) ==
    /\ m \in moduleMap
    /\ pcInit # "terminate"
    /\ ~(pcInit \in {"reset", "load"} /\ cur = m)
    /\ ~(pcRender = "write" /\ Head(pendingToggles).module = m)
    /\ ~InReset(m)

\* The four views of "is this module on" agree: the flag the handlers test
\* (enabledState), the setting that is shown and saved ("enabled"), the event
\* subscriptions, and active.  A module that is on by default may show "on" while
\* it is off: RESET ALL restores the default of the setting, not the module.  A
\* Movable module may listen while it is off.
Agrees(m, r) ==
    /\ r.enabledState => r.enabled = "on" /\ r.listening
    /\ ~r.enabledState => r.enabled = "off" \/ (r.enabled = "on" /\ m \in DefaultOn)
    /\ r.listening => r.enabledState \/ m \in Movable
    /\ r.active => r.enabledState

\* Whatever was clicked, reset, reloaded or pressed, the views of a settled module
\* agree, as long as no restart has come between the statements of a toggle or of
\* RESET ALL (Module::onEnable, onDisable, RESET ALL and restart() keep four fields
\* in step by hand).  After such a restart they need not: RESET ALL raises
\* enabledState over a configuration that has just been loaded with the module off.
FlagsAgree == ~raced => \A m \in Modules : Settled(m) => Agrees(m, mod[m])

\* A Movable module that is off but still subscribed either owes the restore of
\* its element or has done it: the element is never left where it was dragged.
RestoreOwed ==
    ~raced => \A m \in Movable : Settled(m) /\ mod[m].listening /\ ~mod[m].enabledState
                            => mod[m].delayDisable \/ mod[m].restored

\* The restore is not both done and owed: update() would skip it for ever.
RestoreNotStuck == \A m \in Movable : ~(mod[m].restored /\ mod[m].delayDisable)

\* No module that terminate() has destroyed is still subscribed, except a Movable one,
\* whose onDisable waits for a layout event, and one that a toggle of the queue has
\* switched on afterwards (Module::terminate relies on onDisable to deafen, and the
\* render thread may be in the middle of a toggle or of RESET ALL).
DestroyedAreDeaf ==
    \A m \in Modules \ moduleMap :
        mod[m].listening /\ ~InReset(m) => m \in Movable \/ mod[m].enabledState

\* The queue of toggles is processed at a safe point (Manager.hpp:30): the setting a
\* toggle writes is there.
TogglesAtSafePoint == "null_toggle" \notin faults

\* Terminating a module does not switch its setting off, so a save that overlaps
\* the ejection still records what the user had enabled.
EjectKeepsChoices ==
    [][pcInit = "terminate" =>
        \A m \in work \ work' : mod'[m].enabled = mod[m].enabled]_vars

\* A queued toggle is applied, unless the client is unloaded first.
TogglesApplied == pendingToggles # <<>> ~> (pendingToggles = <<>> \/ pcInit = "unloaded" \/ Crashed)

\* A requested restart is carried out, unless the client is ejected first.
RestartHonoured == restartModules ~> (~restartModules \/ disable \/ Crashed)

\* An ejection reaches the end: terminate never waits for anything for ever.
EjectCompletes == disable ~> (pcInit = "unloaded" \/ Crashed)
==============================================================================
