------------------------------ MODULE ConfigStore ------------------------------
(***************************************************************************)
(* The configurations on disk and what the client holds of them in memory  *)
(* (src/src/Client/Managers/ClientSettingsManager.cpp, ConfigManager.cpp,  *)
(* the start-up of Client.cpp and ModuleManager::restart): the settings of *)
(* the modules live in one .json file per configuration, the name of the   *)
(* configuration in use lives in the file PRIVATE.                         *)
(*                                                                         *)
(* The content of a file is abstracted to whose settings it holds.  The    *)
(* init thread runs the start-up and the restarts, the render thread the   *)
(* GUI, the input thread the key handlers and the chat commands; each      *)
(* carries out what it has begun step by step (todo), and the process may  *)
(* die between two steps.                                                  *)
(***************************************************************************)
EXTENDS Naturals, Sequences

CONSTANTS
    Configs,      \* the names of configurations that are used
    Default,      \* default.json
    NoConfig,     \* Client::settings has no "currentConfig"
    Operations,   \* the operations the user calls for
    GDK,          \* PlatformUtils::isGDK()
    TakeTurns,    \* a thread begins only when the other has nothing under way
    PrivateCrash, \* the process may die while PRIVATE is empty
    MaxOps,       \* bound: operations begun
    MaxCrashes,   \* bound: deaths of the process
    MaxFaults     \* bound: accesses to a file that fail

ASSUME DefaultAssumption == Default \in Configs /\ NoConfig \notin Configs
\* What is not a name stands for a content of its own.
ASSUME NamesAssumption ==
    Configs \cap {"missing", "empty", "torn", "mixed", "defaults"} = {}
ASSUME OperationsAssumption == Operations \subseteq
    {"save", "reload", "switch", "create", "delete", "create_command", "delete_command"}
ASSUME SwitchAssumption == {GDK, TakeTurns, PrivateCrash} \subseteq BOOLEAN
ASSUME BoundAssumption == {MaxOps, MaxCrashes, MaxFaults} \subseteq Nat

VARIABLES
    file,           \* disk: whose settings each configuration's file holds
    tmp,            \* disk: the same of its temporary file
    private,        \* disk: the configuration named by PRIVATE
    up,             \* the process: "down", "starting" or "running"
    current,        \* "currentConfig" of Client::settings
    path,           \* ConfigManager::path_
    global,         \* whose settings Client::globalSettings holds
    held,           \* whose settings the modules hold
    restartModules, \* ModuleManager::restartModules
    saving,         \* savingSettings_ and savingPrivate_
    job,            \* what each thread's saveSettings has taken: path and content
    writing,        \* the threads that have the temporary file of their job open
    text,           \* the configuration in the settings each thread's savePrivate has serialised
    todo,           \* the steps each thread still has to make
    ops, crashes, faults    \* counters of the bounds

disk == <<file, tmp, private>>
memory == <<current, path, global, held, restartModules>>
saves == <<saving, job, writing, text>>
bounds == <<ops, crashes, faults>>
vars == <<disk, up, memory, saves, todo, bounds>>

Threads == {"init", "render", "input"}

\* "defaults": the modules' defaults, where the user had settings of their own;
\* "mixed": settings of more than one origin; "torn": no JSON at all.
Contents == Configs \cup {"defaults", "mixed", "torn"}
Stored == Contents \cup {"missing", "empty"}
StepNames == {"save", "collect", "open", "write", "rename", "discard", "save_private", "truncate",
              "serialise", "append", "load_private", "select", "remove", "request_restart", "load_settings", "reset",
              "reload", "recreate_at_start", "add_settings", "ready"}

TypeOK ==
    /\ file \in [Configs -> Stored] /\ tmp \in [Configs -> Stored]
    /\ private \in Configs \cup {"missing", "empty", "torn"}
    /\ up \in {"down", "starting", "running"}
    /\ current \in Configs \cup {NoConfig} /\ path \in Configs
    /\ global \in Contents /\ held \in Contents
    /\ restartModules \in BOOLEAN
    /\ saving \in [settings: BOOLEAN, private: BOOLEAN]
    /\ job \in [Threads -> [path: Configs, content: Contents]]
    /\ writing \subseteq Threads
    /\ text \in [Threads -> Configs]
    /\ todo \in [Threads -> Seq(StepNames \X (Configs \cup {NoConfig}))]
    /\ ops \in 0..MaxOps /\ crashes \in 0..MaxCrashes /\ faults \in 0..MaxFaults

-----------------------------------------------------------------------------
(* Steps.                                                                  *)

Step(name) == <<name, NoConfig>>
At(t, name) == todo[t] # <<>> /\ Head(todo[t])[1] = name
Arg(t) == Head(todo[t])[2]

Proceed(t) == todo' = [todo EXCEPT ![t] = Tail(@)]
GoOn(t, name) == todo' = [todo EXCEPT ![t] = <<Step(name)>> \o Tail(@)]

Fault == faults < MaxFaults /\ faults' = faults + 1

(* ClientSettingsManager::saveSettings                                     *)

\* if (savingSettings_) return: the flag is a plain bool, read here and set one step later.
SaveSettings(t) ==
    /\ At(t, "save")
    /\ IF saving.settings THEN Proceed(t) ELSE GoOn(t, "collect")
    /\ UNCHANGED <<disk, up, memory, saves, bounds>>

\* The path, then every module's settings.
Collect(t) ==
    /\ At(t, "collect")
    /\ saving' = [saving EXCEPT !.settings = TRUE]
    /\ job' = [job EXCEPT ![t] = [path |-> path, content |-> held]]
    /\ GoOn(t, "open")
    /\ UNCHANGED <<disk, up, memory, writing, text, bounds>>

\* Mutant of OpenTemporary: the configuration's own file is truncated as well.
OpenInPlace(t) ==
    /\ At(t, "open")
    /\ tmp' = [tmp EXCEPT ![job[t].path] = "empty"]
    /\ file' = [file EXCEPT ![job[t].path] = "empty"]
    /\ writing' = writing \cup {t}
    /\ GoOn(t, "write")
    /\ UNCHANGED <<private, up, memory, saving, job, text, bounds>>

\* ofstream(path + ".tmp", trunc)
OpenTemporary(t) ==
    /\ At(t, "open")
    /\ tmp' = [tmp EXCEPT ![job[t].path] = "empty"]
    /\ writing' = writing \cup {t}
    /\ GoOn(t, "write")
    /\ UNCHANGED <<file, private, up, memory, saving, job, text, bounds>>

\* Mutant of OpenFails: this exit without the reset of savingSettings_.
OpenFailsKeepsFlag(t) ==
    /\ At(t, "open") /\ Fault
    /\ Proceed(t)
    /\ UNCHANGED <<disk, up, memory, saves, ops, crashes>>

\* It does not open, or an exception came before it.
OpenFails(t) ==
    /\ At(t, "open") /\ Fault
    /\ saving' = [saving EXCEPT !.settings = FALSE]
    /\ Proceed(t)
    /\ UNCHANGED <<disk, up, memory, job, writing, text, ops, crashes>>

\* Two streams on one file write over each other from its start.
WriteTemporary(t) ==
    LET c == job[t].path IN
    /\ At(t, "write")
    /\ tmp' = [tmp EXCEPT ![c] = IF @ \in {"missing", "empty", job[t].content}
                                 THEN job[t].content ELSE "torn"]
    /\ writing' = writing \ {t}
    /\ GoOn(t, "rename")
    /\ UNCHANGED <<file, private, up, memory, saving, job, text, bounds>>

\* dump throws: the stream is closed, what it has opened stays.
DumpFails(t) ==
    /\ At(t, "write") /\ Fault
    /\ writing' = writing \ {t}
    /\ saving' = [saving EXCEPT !.settings = FALSE]
    /\ Proceed(t)
    /\ UNCHANGED <<disk, up, memory, job, text, ops, crashes>>

InUse(c) == \E t \in writing : job[t].path = c

\* Windows renames a file that exists and that nobody has open.
Rename(t) ==
    LET c == job[t].path IN
    /\ At(t, "rename")
    /\ \/ /\ tmp[c] # "missing" /\ ~InUse(c)
          /\ file' = [file EXCEPT ![c] = tmp[c]]
          /\ tmp' = [tmp EXCEPT ![c] = "missing"]
          /\ saving' = [saving EXCEPT !.settings = FALSE]
          /\ Proceed(t)
       \/ /\ tmp[c] = "missing" \/ InUse(c)
          /\ GoOn(t, "discard")
          /\ UNCHANGED <<file, tmp, saving>>
    /\ UNCHANGED <<private, up, memory, job, writing, text, bounds>>

\* The file it is to replace is open elsewhere: an error code.
RenameFails(t) ==
    /\ At(t, "rename") /\ Fault
    /\ GoOn(t, "discard")
    /\ UNCHANGED <<disk, up, memory, saves, ops, crashes>>

\* The temporary file that could not be renamed is removed, if it can be.
Discard(t) ==
    LET c == job[t].path IN
    /\ At(t, "discard")
    /\ tmp' = IF InUse(c) THEN tmp ELSE [tmp EXCEPT ![c] = "missing"]
    /\ saving' = [saving EXCEPT !.settings = FALSE]
    /\ Proceed(t)
    /\ UNCHANGED <<file, private, up, memory, job, writing, text, bounds>>

(* ClientSettingsManager::savePrivate, loadPrivate, loadSettings           *)

SavePrivate(t) ==
    /\ At(t, "save_private")
    /\ IF saving.private \/ current = NoConfig \/ private = "missing" THEN Proceed(t)
       ELSE GoOn(t, "truncate")
    /\ UNCHANGED <<disk, up, memory, saves, bounds>>

TruncatePrivate(t) ==
    /\ At(t, "truncate")
    /\ saving' = [saving EXCEPT !.private = TRUE]
    /\ private' = "empty"
    /\ GoOn(t, "serialise")
    /\ UNCHANGED <<file, tmp, up, memory, job, writing, text, bounds>>

\* Its attributes are not to be had or changed, or it does not open: it stays as it is.
PrivateRefused(t) ==
    /\ At(t, "truncate") /\ Fault
    /\ saving' = [saving EXCEPT !.private = FALSE]
    /\ Proceed(t)
    /\ UNCHANGED <<disk, up, memory, job, writing, text, ops, crashes>>

\* ToJson, into a string of this thread.
Serialise(t) ==
    /\ At(t, "serialise")
    /\ text' = [text EXCEPT ![t] = current]
    /\ GoOn(t, "append")
    /\ UNCHANGED <<disk, up, memory, saving, job, writing, bounds>>

\* The string goes to the end of the file and is gone itself.
AppendPrivate(t) ==
    /\ At(t, "append")
    /\ private' = IF private = "empty" THEN text[t] ELSE "torn"
    /\ text' = [text EXCEPT ![t] = Default]
    /\ saving' = [saving EXCEPT !.private = FALSE]
    /\ Proceed(t)
    /\ UNCHANGED <<file, tmp, up, memory, job, writing, bounds>>

\* The second stream has not opened, which nothing looks at, or ToJson threw.
AppendFails(t) ==
    /\ At(t, "append") /\ Fault
    /\ text' = [text EXCEPT ![t] = Default]
    /\ saving' = [saving EXCEPT !.private = FALSE]
    /\ Proceed(t)
    /\ UNCHANGED <<disk, up, memory, job, writing, ops, crashes>>

\* Mutant of LoadPrivate: the path stays what it was.
LoadPrivateKeepsPath(t) ==
    /\ At(t, "load_private")
    /\ current' = IF private \in Configs THEN private ELSE current
    /\ Proceed(t)
    /\ UNCHANGED <<disk, up, path, global, held, restartModules, saves, bounds>>

\* Mutant of LoadPrivate: only the path is taken from PRIVATE.
LoadPrivatePathOnly(t) ==
    /\ At(t, "load_private")
    /\ path' = IF private \in Configs THEN private ELSE path
    /\ Proceed(t)
    /\ UNCHANGED <<disk, up, current, global, held, restartModules, saves, bounds>>

\* An empty PRIVATE is left alone; one that does not parse leaves the settings alone.
LoadPrivate(t) ==
    /\ At(t, "load_private")
    /\ current' = IF private \in Configs THEN private ELSE current
    /\ path' = IF private \in Configs \cup {"torn"} /\ current' # NoConfig THEN current' ELSE path
    /\ Proceed(t)
    /\ UNCHANGED <<disk, up, global, held, restartModules, saves, bounds>>

\* Mutant of LoadSettings: an empty file is parsed like any other.
LoadSettingsUnchecked(t) ==
    /\ At(t, "load_settings")
    /\ global' = IF current = NoConfig THEN global ELSE file[path]
    /\ Proceed(t)
    /\ UNCHANGED <<disk, up, current, path, held, restartModules, saves, bounds>>

\* An empty file clears globalSettings: the defaults that follow are what is configured.
LoadSettings(t) ==
    /\ At(t, "load_settings")
    /\ global' = CASE current = NoConfig \/ file[path] \in {"missing", "torn"} -> global
                   [] file[path] = "empty" -> path
                   [] OTHER -> file[path]
    /\ Proceed(t)
    /\ UNCHANGED <<disk, up, current, path, held, restartModules, saves, bounds>>

(* ConfigManager::switchConfig, createConfig and deleteConfig              *)

\* Mutant of Select: the path follows at once.
SelectAndMove(t) ==
    /\ At(t, "select")
    /\ current' = Arg(t) /\ path' = Arg(t)
    /\ file' = [file EXCEPT ![Arg(t)] = IF @ = "missing" THEN "empty" ELSE @]
    /\ Proceed(t)
    /\ UNCHANGED <<tmp, private, up, global, held, restartModules, saves, bounds>>

\* A configuration without a file gets an empty one.
Select(t) ==
    /\ At(t, "select")
    /\ current' = Arg(t)
    /\ file' = [file EXCEPT ![Arg(t)] = IF @ = "missing" THEN "empty" ELSE @]
    /\ Proceed(t)
    /\ UNCHANGED <<tmp, private, up, path, global, held, restartModules, saves, bounds>>

RemoveFile(t) ==
    /\ At(t, "remove")
    /\ file' = [file EXCEPT ![Arg(t)] = "missing"]
    /\ Proceed(t)
    /\ UNCHANGED <<tmp, private, up, memory, saves, bounds>>

RequestRestart(t) ==
    /\ At(t, "request_restart")
    /\ restartModules' = TRUE
    /\ Proceed(t)
    /\ UNCHANGED <<disk, up, current, path, global, held, saves, bounds>>

(* ModuleManager::restart                                                  *)

BeginRestart ==
    /\ up = "running" /\ todo["init"] = <<>> /\ restartModules
    /\ restartModules' = FALSE
    /\ todo' = [todo EXCEPT !["init"] =
                   <<Step("load_settings"), Step("reset"), Step("reload"), Step("save")>>]
    /\ UNCHANGED <<disk, up, current, path, global, held, saves, bounds>>

Reset(t) ==
    /\ At(t, "reset")
    /\ held' = "mixed"
    /\ Proceed(t)
    /\ UNCHANGED <<disk, up, current, path, global, restartModules, saves, bounds>>

Reload(t) ==
    /\ At(t, "reload")
    /\ held' = global
    /\ Proceed(t)
    /\ UNCHANGED <<disk, up, current, path, global, restartModules, saves, bounds>>

-----------------------------------------------------------------------------
(* Start-up and death of the process.                                      *)

\* checkSettingsFile; a process that starts has nothing of its own.
Start ==
    /\ up = "down"
    /\ up' = "starting"
    /\ file' = [file EXCEPT ![Default] = IF @ = "missing" THEN "empty" ELSE @]
    /\ private' = IF private = "missing" THEN "empty" ELSE private
    /\ todo' = [todo EXCEPT !["init"] =
        IF private = "missing"
        THEN <<Step("add_settings"), Step("save_private"), Step("load_settings"), Step("reload"), Step("ready")>>
        ELSE <<Step("load_private"), Step("load_settings"), Step("recreate_at_start"), Step("add_settings"),
               Step("save_private"), Step("reload"), Step("ready")>>]
    /\ UNCHANGED <<tmp, memory, saves, bounds>>

\* On GDK a setting is written that must have come with PRIVATE; without it, there is
\* a null pointer, and no step from here.
RecreateAtStart(t) ==
    /\ At(t, "recreate_at_start")
    /\ ~GDK \/ current # NoConfig
    /\ Proceed(t)
    /\ UNCHANGED <<disk, up, memory, saves, bounds>>

AddSettings(t) ==
    /\ At(t, "add_settings")
    /\ current' = IF current = NoConfig THEN Default ELSE current
    /\ Proceed(t)
    /\ UNCHANGED <<disk, up, path, global, held, restartModules, saves, bounds>>

Ready(t) ==
    /\ At(t, "ready")
    /\ up' = "running"
    /\ Proceed(t)
    /\ UNCHANGED <<disk, memory, saves, bounds>>

NothingSaving == [settings |-> FALSE, private |-> FALSE]
NoJobs == [t \in Threads |-> [path |-> Default, content |-> "mixed"]]
NoText == [t \in Threads |-> Default]

\* The game is closed or crashes: what is on disk stays as it is.
Crash ==
    /\ up # "down" /\ crashes < MaxCrashes
    /\ PrivateCrash \/ private # "empty"
    /\ crashes' = crashes + 1
    /\ up' = "down"
    /\ current' = NoConfig /\ path' = Default
    /\ global' = "defaults" /\ held' = "mixed" /\ restartModules' = FALSE
    /\ saving' = NothingSaving /\ job' = NoJobs /\ writing' = {} /\ text' = NoText
    /\ todo' = [t \in Threads |-> <<>>]
    /\ UNCHANGED <<disk, ops, faults>>

-----------------------------------------------------------------------------
(* What the user does.                                                     *)

Idle(t) == todo[t] = <<>>

Switching(c) == <<<<"select", c>>, Step("save"), Step("save_private"), Step("load_private")>>
Deleting(c) == <<<<"select", Default>>, Step("save_private"), Step("load_private"), <<"remove", c>>>>
AndRestart == <<Step("request_restart")>>

\* The GUI asks for a restart after each of its operations, the commands do not.
Steps(op, c) ==
    CASE op = "save" -> <<Step("save"), Step("save_private")>>
      [] op = "reload" -> AndRestart
      [] op \in {"switch", "create"} -> Switching(c) \o AndRestart
      [] op = "delete" -> Deleting(c) \o AndRestart
      [] op = "create_command" -> Switching(c)
      [] op = "delete_command" -> Deleting(c)

\* The operations of the GUI work on a configuration of its list, or a new one.
Allowed(op, c) ==
    CASE op \in {"save", "reload"} -> c = Default
      [] op = "switch" -> c # current /\ file[c] # "missing"
      [] op = "create" -> file[c] = "missing"
      [] op = "delete" -> c = current /\ c # Default
      [] op \in {"create_command", "delete_command"} -> TRUE

ThreadOf(op) == IF op \in {"save", "create_command", "delete_command"} THEN "input" ELSE "render"

\* ModuleState::initialized, without which no event reaches the GUI or a key handler.
initialized == \A name \in {"load_settings", "reset", "reload"} :
                  \A i \in DOMAIN todo["init"] : todo["init"][i][1] # name

Begin(op, c) ==
    LET t == ThreadOf(op) IN
    /\ up = "running" /\ initialized /\ Idle(t) /\ ops < MaxOps /\ Allowed(op, c)
    /\ TakeTurns => \A u \in Threads : Idle(u) /\ ~restartModules
    /\ ops' = ops + 1
    /\ todo' = [todo EXCEPT ![t] = Steps(op, c)]
    /\ UNCHANGED <<disk, up, memory, saves, crashes, faults>>

-----------------------------------------------------------------------------

\* The first start on a machine.
Init ==
    /\ file = [c \in Configs |-> "missing"] /\ tmp = [c \in Configs |-> "missing"]
    /\ private = "missing"
    /\ up = "down"
    /\ current = NoConfig /\ path = Default
    /\ global = "defaults" /\ held = "mixed" /\ restartModules = FALSE
    /\ saving = NothingSaving /\ job = NoJobs /\ writing = {} /\ text = NoText
    /\ todo = [t \in Threads |-> <<>>]
    /\ ops = 0 /\ crashes = 0 /\ faults = 0

Advance(t) ==
    \/ SaveSettings(t) \/ Collect(t) \/ OpenTemporary(t) \/ OpenFails(t) \/ WriteTemporary(t) \/ DumpFails(t)
    \/ Rename(t) \/ RenameFails(t) \/ Discard(t)
    \/ SavePrivate(t) \/ TruncatePrivate(t) \/ PrivateRefused(t) \/ Serialise(t) \/ AppendPrivate(t)
    \/ AppendFails(t) \/ LoadPrivate(t) \/ LoadSettings(t)
    \/ Select(t) \/ RemoveFile(t) \/ RequestRestart(t) \/ Reset(t) \/ Reload(t)
    \/ RecreateAtStart(t) \/ AddSettings(t) \/ Ready(t)

Next ==
    \/ Start \/ Crash \/ BeginRestart
    \/ \E t \in Threads : Advance(t)
    \/ \E op \in Operations, c \in Configs : Begin(op, c)

\* A thread goes on with what it has begun; the process is started again.
Fairness == WF_vars(Start) /\ WF_vars(BeginRestart) /\ \A t \in Threads : WF_vars(Advance(t))

Spec == Init /\ [][Next]_vars
FairSpec == Spec /\ Fairness

-----------------------------------------------------------------------------
(* Properties                                                              *)

\* As long as every access to a file succeeds, a configuration's file never holds another
\* one's settings, a mixture, or the defaults in place of what the user configured
\* (saveSettings writes whatever the modules hold to whatever path_ is).
ConfigsKept == faults = 0 => \A c \in Configs : file[c] \in {"missing", "empty", c}

\* What was saved is lost only when its configuration is deleted: a save that is
\* cut off or fails leaves the old file (saveSettings writes a temporary file and renames it).
SavedStaysSaved ==
    [][\A c \in Configs : file[c] = c /\ file'[c] # c => \E t \in Threads : At(t, "remove") /\ Arg(t) = c]_vars

\* When nothing is under way and no access to a file has failed, PRIVATE, memory, the path of
\* the next save and the modules' settings are all of one configuration (switchConfig,
\* deleteConfig, restart).
Settled ==
    up = "running" /\ ~restartModules /\ (\A t \in Threads : Idle(t)) /\ faults = 0
        => private = current /\ path = current /\ held = current

\* The settings of a configuration that was deleted are in no other file
\* (deleteConfig; "Deleted ", ConfigCommand.cpp:295).
DeletedIsGone == \A c, d \in Configs : file[c] = "missing" => file[d] # c

\* A save that has begun gives the flag back, on every way out of it, the failures and
\* the exceptions included: no later save is refused for ever (saveSettings).
FlagReleased == saving.settings ~> ~saving.settings

\* A start-up is completed, unless the process dies again
\* ("Empty or null PRIVATE", ClientSettingsManager.cpp:164, is a warning).
StartCompletes == up = "starting" ~> up # "starting"
================================================================================
