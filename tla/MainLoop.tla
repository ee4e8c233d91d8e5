------------------------------- MODULE MainLoop -------------------------------
(***************************************************************************)
(* The init thread of the client (src/main.cpp) from the start of the      *)
(* scripts to FreeLibraryAndExitThread: its loop runs the main-thread      *)
(* queue (Utils/Threading.hpp) and ModuleManager::syncState, which reloads *)
(* the Lua scripts and the chat commands (Scripting/ScriptManager.cpp,     *)
(* Client/Command/CommandManager.cpp) and restarts the modules; at the end *)
(* it joins the status thread and takes the managers down in order.        *)
(* Beside it run the game's threads, with chat commands, buttons and tasks *)
(* for the queue, and the detached threads of the script marketplace.      *)
(*                                                                         *)
(* A script is its file.  A file has a version, 0 when it is not there.    *)
(* An event handler is one step: it does not overlap a change of the list  *)
(* it works on.                                                            *)
(***************************************************************************)
EXTENDS Naturals, Sequences, SequencesExt

CONSTANTS
    ModuleFiles,  \* the .lua files in Scripts\Modules
    CommandFiles, \* and in Scripts\Commands
    Imported,     \* those that the marketplace may write
    Copied,       \* those that .lua import may write
    Broken,       \* those that are rejected when they are loaded
    Registers,    \* those that call registerCommand when they run, and in their handlers
    Builtin,      \* the commands of CommandManager::initialize, as one
    MaxVersion,   \* bound: how often a file is written
    MaxTasks      \* bound: tasks for the main thread

Files == ModuleFiles \cup CommandFiles

ASSUME FilesAssumption ==
    /\ ModuleFiles \cap CommandFiles = {} /\ Builtin \notin Files
    /\ Imported \subseteq Files /\ Copied \subseteq Files \ Imported
    /\ Broken \subseteq Files \ Imported /\ Registers \subseteq Files
ASSUME BoundsAssumption == MaxVersion \in Nat \ {0} /\ MaxTasks \in Nat

VARIABLES
    pc,             \* where the init thread is
    status,         \* where the status thread is
    disable,        \* Client::disable
    initialized,    \* ModuleState::initialized: events are delivered
    restartModules, \* ModuleState::restartModules
    pendingReload,  \* ScriptManager::pendingReload
    scriptsReady,   \* ScriptManager::initialized
    todo,           \* what the directory_iterator has left
    loaded,         \* mLoadedScripts: the version in use, or 0
    modules,        \* mLoadedModules
    subscribed,     \* module scripts that listen to events
    commands,       \* CommandManager::Commands: the built-in ones and one of each script ...
    registered,     \* ... and the scripts that have registered others in it
    listening,      \* CommandManager listens to PacketSendEvent
    disk,           \* the version of every file
    importing,      \* where the import of a file is
    queue,          \* mMainThreadQueue, its tasks numbered as they are queued
    batch,          \* the tasks taken and not yet run
    posted, done    \* how many were queued, and run

flags == <<disable, initialized, restartModules>>
scripts == <<scriptsReady, todo, loaded, modules, subscribed, commands, registered, listening>>
files == <<disk, importing>>
tasks == <<queue, batch, posted, done>>
vars == <<pc, status, flags, pendingReload, scripts, files, tasks>>

Reloading == {"clearCommands", "terminateScripts", "loadModules", "loadCommands",
              "initCommands", "endReload"}
Starting == {"startModules", "startCommands", "started"}
Looping == {"loop", "takeTasks", "runTasks", "sync", "checkRestart", "restart", "askReload"}
Leaving == {"join", "terminate", "shutdownScripts", "terminateCommands", "unload", "unloaded"}

TypeOK ==
    /\ pc \in Starting \cup Looping \cup Reloading \cup Leaving
    /\ status \in {"none", "wait", "work", "ended"}
    /\ {disable, initialized, restartModules, pendingReload, scriptsReady, listening}
         \subseteq BOOLEAN
    /\ todo \subseteq Files
    /\ loaded \in [Files -> 0..MaxVersion] /\ disk \in [Files -> 0..MaxVersion]
    /\ modules \subseteq ModuleFiles /\ subscribed \subseteq modules
    /\ commands \in Seq(CommandFiles \cup {Builtin}) /\ registered \subseteq Registers
    /\ importing \in [Imported -> {"idle", "write", "failed", "askRestart", "askReload"}]
    /\ posted \in 0..MaxTasks /\ done \in 0..posted
    /\ queue \in Seq(1..MaxTasks) /\ batch \in Seq(1..MaxTasks)

NothingLoaded == [f \in Files |-> 0]

\* ModuleManager and CommandManager are initialised and listen.
Init ==
    /\ pc = "startModules" /\ status = "none"
    /\ disable = FALSE /\ initialized = TRUE /\ restartModules = FALSE
    /\ pendingReload = FALSE /\ scriptsReady = FALSE
    /\ todo = ModuleFiles
    /\ loaded = NothingLoaded /\ modules = {} /\ subscribed = {}
    /\ commands = <<Builtin>> /\ registered = {} /\ listening = TRUE
    /\ disk \in [Files -> {0, 1}] /\ \A f \in Files \ Imported : disk[f] = 1
    /\ importing = [f \in Imported |-> "idle"]
    /\ queue = <<>> /\ batch = <<>> /\ posted = 0 /\ done = 0

Goes(from, to) == pc = from /\ pc' = to
Elsewhere == UNCHANGED <<status, flags, files, tasks>>

-----------------------------------------------------------------------------
(* ScriptManager: what the start and every reload have in common           *)

\* The file is read, Script::compile succeeds and nothing is wrong with the names: it
\* is complete and not broken.
Accepted(f) ==
    /\ disk[f] > 0 /\ f \notin Broken
    /\ f \in Imported => importing[f] \notin {"write", "failed"}

\* Script::compile runs the script, which may register commands and be rejected all the
\* same.
Runs(f) ==
    \/ f \in Registers /\ disk[f] > 0 /\ registered' = registered \cup {f}
    \/ (f \in Registers => ~Accepted(f)) /\ UNCHANGED registered

\* loadModuleScripts, one file; the constructor of ModuleScript subscribes.
LoadModule ==
    /\ pc \in {"startModules", "loadModules"}
    /\ \E f \in todo :
        /\ todo' = todo \ {f} /\ Runs(f)
        /\ IF Accepted(f)
             THEN /\ loaded' = [loaded EXCEPT ![f] = disk[f]]
                  /\ modules' = modules \cup {f} /\ subscribed' = subscribed \cup {f}
             ELSE UNCHANGED <<loaded, modules, subscribed>>
    /\ UNCHANGED <<pc, pendingReload, scriptsReady, commands, listening>> /\ Elsewhere

ModulesLoaded ==
    /\ todo = {} /\ todo' = CommandFiles
    /\ \/ Goes("startModules", "startCommands") \/ Goes("loadModules", "loadCommands")
    /\ UNCHANGED <<pendingReload, scriptsReady, loaded, modules, subscribed,
                   commands, registered, listening>>
    /\ Elsewhere

\* Mutant of LoadCommand: the script is entered as a module.
LoadCommandAsModule ==
    /\ pc \in {"startCommands", "loadCommands"}
    /\ \E f \in todo :
        /\ todo' = todo \ {f} /\ Runs(f)
        /\ IF Accepted(f)
             THEN /\ loaded' = [loaded EXCEPT ![f] = disk[f]]
                  /\ modules' = modules \cup {f}
             ELSE UNCHANGED <<loaded, modules>>
    /\ UNCHANGED <<pc, pendingReload, scriptsReady, subscribed, commands, listening>>
    /\ Elsewhere

\* loadCommandScripts, one file.
LoadCommand ==
    /\ pc \in {"startCommands", "loadCommands"}
    /\ \E f \in todo :
        /\ todo' = todo \ {f} /\ Runs(f)
        /\ IF Accepted(f)
             THEN /\ loaded' = [loaded EXCEPT ![f] = disk[f]]
                  /\ commands' = Append(commands, f)
             ELSE UNCHANGED <<loaded, commands>>
    /\ UNCHANGED <<pc, pendingReload, scriptsReady, modules, subscribed, listening>>
    /\ Elsewhere

CommandsLoaded ==
    /\ todo = {}
    /\ \/ Goes("startCommands", "started") \/ Goes("loadCommands", "initCommands")
    /\ UNCHANGED <<pendingReload, scripts>> /\ Elsewhere

\* The end of ScriptManager::initialize; init then starts the status thread.
Started ==
    /\ Goes("started", "loop")
    /\ scriptsReady' = TRUE /\ status' = "wait"
    /\ UNCHANGED <<flags, pendingReload, todo, loaded, modules, subscribed, commands,
                   registered, listening, files, tasks>>

-----------------------------------------------------------------------------
(* The loop of init                                                        *)

Loop ==
    /\ pc = "loop" /\ pc' = IF disable THEN "join" ELSE "takeTasks"
    /\ UNCHANGED <<pendingReload, scripts>> /\ Elsewhere

\* Mutant of TakeTasks: the queue is copied.
TakeTasksCopies ==
    /\ Goes("takeTasks", "runTasks")
    /\ batch' = queue
    /\ UNCHANGED <<queue, status, flags, pendingReload, scripts, files, posted, done>>

\* executeMainThreadQueue moves the queue out while it holds the mutex ...
TakeTasks ==
    /\ Goes("takeTasks", "runTasks")
    /\ batch' = queue /\ queue' = <<>>
    /\ UNCHANGED <<status, flags, pendingReload, scripts, files, posted, done>>

\* ... and runs the tasks without it.
RunTask ==
    /\ pc = "runTasks" /\ batch # <<>>
    /\ batch' = Tail(batch) /\ done' = Head(batch)
    /\ UNCHANGED <<pc, status, flags, pendingReload, scripts, files, queue, posted>>

TasksRun ==
    /\ Goes("runTasks", "sync") /\ batch = <<>>
    /\ UNCHANGED <<pendingReload, scripts>> /\ Elsewhere

\* syncState (initialized holds here: only this thread clears it) and the head
\* of _reloadScripts.
Sync ==
    /\ pc = "sync"
    /\ IF pendingReload THEN pc' = "clearCommands" /\ scriptsReady' = FALSE
                        ELSE pc' = "checkRestart" /\ UNCHANGED scriptsReady
    /\ UNCHANGED <<pendingReload, todo, loaded, modules, subscribed, commands, registered,
                   listening>>
    /\ Elsewhere

\* Mutant of ClearCommands: the list is kept.
ClearCommandsButList ==
    /\ pc \in {"clearCommands", "terminateCommands"}
    /\ pc' = IF pc = "clearCommands" THEN "terminateScripts" ELSE "unload"
    /\ listening' = FALSE
    /\ UNCHANGED <<pendingReload, scriptsReady, todo, loaded, modules, subscribed, commands,
                   registered>>
    /\ Elsewhere

\* CommandManager::terminate, in a reload and in the end.
ClearCommands ==
    /\ pc \in {"clearCommands", "terminateCommands"}
    /\ pc' = IF pc = "clearCommands" THEN "terminateScripts" ELSE "unload"
    /\ listening' = FALSE /\ commands' = <<>> /\ registered' = {}
    /\ UNCHANGED <<pendingReload, scriptsReady, todo, loaded, modules, subscribed>>
    /\ Elsewhere

\* ModuleScript::terminate, one script after another, in a reload and in the end.
TerminateScript ==
    /\ pc \in {"terminateScripts", "shutdownScripts"}
    /\ \E f \in subscribed : subscribed' = subscribed \ {f}
    /\ UNCHANGED <<pc, pendingReload, scriptsReady, todo, loaded, modules, commands, registered,
                   listening>>
    /\ Elsewhere

\* Then the lists are cleared: _reloadScripts goes on to load ...
ClearScripts ==
    /\ Goes("terminateScripts", "loadModules") /\ subscribed = {}
    /\ loaded' = NothingLoaded /\ modules' = {} /\ todo' = ModuleFiles
    /\ UNCHANGED <<pendingReload, scriptsReady, subscribed, commands, registered, listening>>
    /\ Elsewhere

\* CommandManager::initialize
InitCommands ==
    /\ Goes("initCommands", "endReload")
    /\ commands' = Append(commands, Builtin) /\ listening' = TRUE
    /\ UNCHANGED <<pendingReload, scriptsReady, todo, loaded, modules, subscribed, registered>>
    /\ Elsewhere

EndReload ==
    /\ Goes("endReload", "checkRestart")
    /\ scriptsReady' = TRUE /\ pendingReload' = FALSE
    /\ UNCHANGED <<todo, loaded, modules, subscribed, commands, registered, listening>>
    /\ Elsewhere

\* if (restartModules): restart() first stops the delivery of events.
CheckRestart ==
    /\ pc = "checkRestart"
    /\ pc' = IF restartModules THEN "restart" ELSE "loop"
    /\ restartModules' = FALSE /\ initialized' = (initialized /\ ~restartModules)
    /\ UNCHANGED <<status, disable, pendingReload, scripts, files, tasks>>

\* The modules have been reset and loaded (ModuleLifecycle has the details).
Restart ==
    /\ Goes("restart", "askReload")
    /\ initialized' = TRUE
    /\ UNCHANGED <<status, disable, restartModules, pendingReload, scripts, files, tasks>>

AskReload ==
    /\ Goes("askReload", "loop")
    /\ pendingReload' = TRUE
    /\ UNCHANGED scripts /\ Elsewhere

-----------------------------------------------------------------------------
(* The end of init                                                         *)

Join ==
    /\ Goes("join", "terminate") /\ status = "ended"
    /\ UNCHANGED <<pendingReload, scripts>> /\ Elsewhere

\* ModuleManager::terminate
Terminate ==
    /\ Goes("terminate", "shutdownScripts")
    /\ initialized' = FALSE
    /\ UNCHANGED <<status, disable, restartModules, pendingReload, scripts, files, tasks>>

\* The end of ScriptManager::shutdown.
ShutdownScripts ==
    /\ Goes("shutdownScripts", "terminateCommands") /\ subscribed = {}
    /\ loaded' = NothingLoaded /\ modules' = {} /\ scriptsReady' = FALSE
    /\ UNCHANGED <<pendingReload, todo, subscribed, commands, registered, listening>>
    /\ Elsewhere

\* The rest of init, to FreeLibraryAndExitThread.
Unload ==
    /\ Goes("unload", "unloaded")
    /\ UNCHANGED <<pendingReload, scripts>> /\ Elsewhere

InitThread ==
    \/ LoadModule \/ ModulesLoaded \/ LoadCommand \/ CommandsLoaded \/ Started
    \/ Loop \/ TakeTasks \/ RunTask \/ TasksRun \/ Sync
    \/ ClearCommands \/ TerminateScript \/ ClearScripts \/ InitCommands \/ EndReload
    \/ CheckRestart \/ Restart \/ AskReload
    \/ Join \/ Terminate \/ ShutdownScripts \/ Unload

-----------------------------------------------------------------------------
(* The status thread                                                       *)

\* Mutant of StatusWait: the thread looks at the flag only when it works.
StatusWaitBlindly ==
    /\ status = "wait" /\ ~disable
    /\ status' = "work"
    /\ UNCHANGED <<pc, flags, pendingReload, scripts, files, tasks>>

\* wait_for with 60 ms and Client::disable as its predicate.
StatusWait ==
    /\ status = "wait"
    /\ status' = IF disable THEN "ended" ELSE "work"
    /\ UNCHANGED <<pc, flags, pendingReload, scripts, files, tasks>>

\* Heartbeat, online users and VIPs; it leaves when it sees the flag in between.
StatusWork ==
    /\ status = "work"
    /\ status' = "wait" \/ (disable /\ status' = "ended")
    /\ UNCHANGED <<pc, flags, pendingReload, scripts, files, tasks>>

StatusThread == StatusWait \/ StatusWork

-----------------------------------------------------------------------------
(* The threads of the game, and the imports                                *)

Loaded == pc # "unloaded"

\* A line of chat is handled by CommandManager, if events are delivered.
Chat == Loaded /\ initialized /\ listening /\ Builtin \in ToSet(commands)

\* .lua reload
LuaReload ==
    /\ Chat /\ pendingReload' = TRUE
    /\ UNCHANGED <<pc, status, flags, scripts, files, tasks>>

\* The handlers of a script may register commands as well, before or after its others.
RegisterCommand ==
    /\ Loaded /\ initialized
    /\ \E f \in subscribed \cap Registers : registered' = registered \cup {f}
    /\ UNCHANGED <<pc, status, flags, pendingReload, scriptsReady, todo, loaded, modules,
                   subscribed, commands, listening, files, tasks>>

\* .eject; or, which asks for less, the key of the Uninject module.
Eject ==
    /\ Loaded /\ initialized /\ disable' = TRUE
    /\ UNCHANGED <<pc, status, initialized, restartModules, pendingReload, scripts, files, tasks>>

\* ClickGUI: "Reload Scripts".
ReloadButton ==
    /\ Loaded /\ initialized /\ restartModules' = TRUE
    /\ UNCHANGED <<pc, status, disable, initialized, pendingReload, scripts, files, tasks>>

\* queueInMainThread, from a listener (DiscordRPCListener)
Post ==
    /\ Loaded /\ initialized /\ posted < MaxTasks
    /\ posted' = posted + 1 /\ queue' = Append(queue, posted + 1)
    /\ UNCHANGED <<pc, status, flags, pendingReload, scripts, files, batch, done>>

\* Mutant of ImportRestart: a successful import only asks for a reload.
ImportRestartForgotten(f) ==
    /\ importing[f] = "askRestart" /\ importing' = [importing EXCEPT ![f] = "askReload"]
    /\ UNCHANGED <<restartModules, pc, status, disable, initialized, pendingReload,
                   scripts, disk, tasks>>

\* ScriptMarketplace: a thread of its own truncates the file and writes it ...
ImportWrite(f) ==
    /\ importing[f] \in {"idle", "failed"} /\ disk[f] < MaxVersion
    /\ importing' = [importing EXCEPT ![f] = "write"]
    /\ disk' = [disk EXCEPT ![f] = @ + 1]
    /\ UNCHANGED <<pc, status, flags, pendingReload, scripts, tasks>>

\* (a write that fails leaves what it has written of the file, and asks for nothing)
ImportFails(f) ==
    /\ importing[f] = "write" /\ importing' = [importing EXCEPT ![f] = "failed"]
    /\ UNCHANGED <<pc, status, flags, pendingReload, scripts, disk, tasks>>

ImportClose(f) ==
    /\ importing[f] = "write" /\ importing' = [importing EXCEPT ![f] = "askRestart"]
    /\ UNCHANGED <<pc, status, flags, pendingReload, scripts, disk, tasks>>

\* ... then requests the restart of the modules and the reload of the scripts.
ImportRestart(f) ==
    /\ importing[f] = "askRestart" /\ importing' = [importing EXCEPT ![f] = "askReload"]
    /\ restartModules' = TRUE
    /\ UNCHANGED <<pc, status, disable, initialized, pendingReload, scripts, disk, tasks>>

ImportReload(f) ==
    /\ importing[f] = "askReload" /\ importing' = [importing EXCEPT ![f] = "idle"]
    /\ pendingReload' = TRUE
    /\ UNCHANGED <<pc, status, flags, scripts, disk, tasks>>

Import(f) == \/ ImportWrite(f) \/ ImportFails(f) \/ ImportClose(f)
             \/ ImportRestart(f) \/ ImportReload(f)

\* .lua import: a coroutine copies a file over the script, and asks for nothing.  The
\* copy is one step.
LuaImport ==
    /\ Loaded
    /\ \E f \in Copied : disk[f] < MaxVersion /\ disk' = [disk EXCEPT ![f] = @ + 1]
    /\ UNCHANGED <<pc, status, flags, pendingReload, scripts, importing, tasks>>

-----------------------------------------------------------------------------

Done == pc = "unloaded" /\ UNCHANGED vars

Next ==
    \/ InitThread \/ StatusThread
    \/ LuaReload \/ Eject \/ ReloadButton \/ Post \/ RegisterCommand
    \/ \E f \in Imported : Loaded /\ Import(f)
    \/ LuaImport
    \/ Done

\* The two threads of the client are scheduled, and the requests of the status
\* thread return.  Nobody has to chat, press a button or finish an import.
Spec == Init /\ [][Next]_vars /\ WF_vars(InitThread) /\ WF_vars(StatusThread)

-----------------------------------------------------------------------------
(* Properties                                                              *)

InUse == {f \in Files : loaded[f] > 0}

\* Whenever events are delivered and the scripts are ready, the lists which a reload
\* rebuilds agree: what listens is what is loaded; the built-in commands and that of
\* every command script in use are there, once, and those that a script in use has
\* registered when it ran, whatever scripts were rejected after they had registered
\* some; and CommandManager never listens without the built-in ones, through reloads,
\* restarts and the end in any order.
ListsAgree ==
    /\ initialized /\ scriptsReady =>
        /\ subscribed = modules /\ listening
        /\ InUse = modules \cup (ToSet(commands) \ {Builtin})
        /\ IsInjective(commands)
        /\ InUse \cap Registers \subseteq registered
    /\ listening => Builtin \in ToSet(commands)

\* The tasks of the main thread run once each, in the order they were queued: those
\* run, taken and waiting make up all that were queued.
TasksInOrder == batch \o queue = [i \in 1..(posted - done) |-> done + i]

\* A script from the marketplace ends up in use with the version imported, although a
\* reload that is requested while one runs is forgotten at its end: unless the client
\* is disabled or the file is imported again.
ImportLoaded ==
    \A f \in Imported :
        (importing[f] = "idle" /\ disk[f] > 0)
            ~> (loaded[f] = disk[f] \/ importing[f] # "idle" \/ disable)

\* The end, with nothing of the client left behind in the event manager and the
\* status thread gone.
Quiet ==
    /\ pc = "unloaded" /\ status = "ended"
    /\ subscribed = {} /\ ~listening /\ commands = <<>> /\ registered = {} /\ InUse = {}

\* A client that is disabled, in whatever it is doing, is unloaded.
ShutdownCompletes == disable ~> Quiet
===============================================================================
