---------------------------- MODULE MainLoopProofs ----------------------------
(***************************************************************************)
(* The tasks of the main thread run once each and in order, and the lists  *)
(* of scripts and commands agree, for any scripts, tasks and imports.      *)
(***************************************************************************)
EXTENDS MainLoop, UniqueSequences

-----------------------------------------------------------------------------
(* The main-thread queue                                                   *)

\* The numbers after d, n of them.
Numbers(d, n) == [i \in 1..n |-> d + i]

LEMMA NumbersFacts ==
    ASSUME NEW d \in Nat, NEW n \in Nat
    PROVE  /\ Numbers(d, n) \in Seq(Nat) /\ Len(Numbers(d, n)) = n
           /\ \A s \in Seq(Nat) :
                (s = Numbers(d, n)) <=> (Len(s) = n /\ \A i \in 1..n : s[i] = d + i)
<1>1. Numbers(d, n) \in [1..n -> Nat]
  BY DEF Numbers
<1>2. Numbers(d, n) \in Seq(Nat) /\ Len(Numbers(d, n)) = n
  BY <1>1
<1>3. ASSUME NEW s \in Seq(Nat), Len(s) = n, \A i \in 1..n : s[i] = d + i
      PROVE  s = Numbers(d, n)
  BY <1>2, <1>3, SeqEqual DEF Numbers
<1> QED BY <1>2, <1>3 DEF Numbers

\* The library's facts, for sequences of task numbers.
LEMMA TaskSequences ==
    /\ \A s, t \in Seq(Nat) :
         /\ s \o t \in Seq(Nat) /\ Len(s \o t) = Len(s) + Len(t)
         /\ \A i \in 1..(Len(s) + Len(t)) :
              (s \o t)[i] = IF i <= Len(s) THEN s[i] ELSE t[i - Len(s)]
    /\ \A s \in Seq(Nat), e \in Nat :
         /\ Append(s, e) \in Seq(Nat) /\ Len(Append(s, e)) = Len(s) + 1
         /\ \A i \in 1..Len(s) : Append(s, e)[i] = s[i]
         /\ Append(s, e)[Len(s) + 1] = e
    /\ \A s, t \in Seq(Nat), e \in Nat : s \o Append(t, e) = Append(s \o t, e)
<1>1. \A s, t \in Seq(Nat) :
         /\ s \o t \in Seq(Nat) /\ Len(s \o t) = Len(s) + Len(t)
         /\ \A i \in 1..(Len(s) + Len(t)) :
              (s \o t)[i] = IF i <= Len(s) THEN s[i] ELSE t[i - Len(s)]
  BY ConcatProperties
<1>2. \A s \in Seq(Nat), e \in Nat :
         /\ Append(s, e) \in Seq(Nat) /\ Len(Append(s, e)) = Len(s) + 1
         /\ \A i \in 1..Len(s) : Append(s, e)[i] = s[i]
         /\ Append(s, e)[Len(s) + 1] = e
  BY AppendProperties
<1>3. ASSUME NEW s \in Seq(Nat), NEW t \in Seq(Nat), NEW e \in Nat
      PROVE  s \o Append(t, e) = Append(s \o t, e)
  <2>1. Append(t, e) = t \o <<e>> /\ Append(s \o t, e) = (s \o t) \o <<e>>
    BY <1>1, AppendIsConcat
  <2>2. <<e>> \in Seq(Nat)
    OBVIOUS
  <2>3. (s \o t) \o <<e>> = s \o (t \o <<e>>)
    BY <2>2, ConcatAssociative
  <2> QED BY <2>1, <2>3
<1> QED BY <1>1, <1>2, <1>3

\* The tasks that wait are those taken, and then those queued.
TasksInv ==
    /\ posted \in Nat /\ done \in Nat /\ done <= posted
    /\ batch \in Seq(Nat) /\ queue \in Seq(Nat)
    /\ pc # "runTasks" => batch = <<>>
    /\ TasksInOrder

LEMMA TakeAll ==
    ASSUME TasksInv, TakeTasks
    PROVE  TasksInv'
<1>1. batch = <<>> /\ batch' = queue /\ queue' = <<>> /\ pc' = "runTasks"
  BY DEF TasksInv, TakeTasks, Goes
<1>2. batch \o queue = queue /\ batch' \o queue' = queue
  BY <1>1 DEF TasksInv
<1>3. UNCHANGED <<posted, done>>
  BY DEF TakeTasks
<1> QED BY <1>1, <1>2, <1>3 DEF TasksInv, TasksInOrder

LEMMA RunHead ==
    ASSUME TasksInv, RunTask
    PROVE  TasksInv'
<1> DEFINE n == posted - done
<1>1. /\ batch # <<>> /\ batch \in Seq(Nat) /\ queue \in Seq(Nat)
      /\ batch \o queue = Numbers(done, n)
      /\ posted \in Nat /\ done \in Nat /\ n \in Nat
  BY DEF TasksInv, TasksInOrder, RunTask, Numbers
<1>2. /\ UNCHANGED <<pc, queue, posted>> /\ pc = "runTasks"
      /\ batch' = Tail(batch) /\ done' = Head(batch)
  BY DEF RunTask
<1>3. /\ Len(batch) \in Nat \ {0} /\ Len(queue) \in Nat /\ Len(batch) + Len(queue) = n
      /\ \A i \in 1..n :
           done + i = IF i <= Len(batch) THEN batch[i] ELSE queue[i - Len(batch)]
  <2>1. Len(batch) \in Nat \ {0} /\ Len(queue) \in Nat
    BY <1>1, EmptySeq, LenProperties
  <2>2. Len(batch \o queue) = n /\ \A i \in 1..n : (batch \o queue)[i] = done + i
    <3>1. Numbers(done, n) \in Seq(Nat) /\ Len(Numbers(done, n)) = n
      BY <1>1, NumbersFacts
    <3> QED BY <1>1, <3>1 DEF Numbers
  <2>3. /\ Len(batch \o queue) = Len(batch) + Len(queue)
        /\ \A i \in 1..(Len(batch) + Len(queue)) :
             (batch \o queue)[i] = IF i <= Len(batch) THEN batch[i] ELSE queue[i - Len(batch)]
    BY <1>1, TaskSequences
  <2>4. Len(batch) + Len(queue) = n
    BY <2>2, <2>3
  <2> QED BY <2>1, <2>2, <2>3, <2>4
<1>4. done' = done + 1
  BY <1>1, <1>2, <1>3
<1>5. /\ batch' \in Seq(Nat) /\ Len(batch') = Len(batch) - 1
      /\ \A i \in 1..Len(batch') : batch'[i] = batch[i + 1]
  BY <1>1, <1>2, HeadTailProperties
<1>6. posted' \in Nat /\ done' \in Nat /\ posted' - done' = n - 1 /\ n - 1 \in Nat
  <2>1. n # 0
    BY <1>1, <1>3
  <2>2. posted' = posted
    BY <1>2
  <2> QED BY <1>1, <1>4, <2>1, <2>2
<1>7. ASSUME NEW i \in 1..(n - 1) PROVE (batch' \o queue')[i] = done' + i
  <2>1. (batch' \o queue')[i] = IF i <= Len(batch') THEN batch'[i] ELSE queue[i - Len(batch')]
    <3>1. queue' = queue /\ Len(batch') + Len(queue) = n - 1
      BY <1>1, <1>2, <1>3, <1>5
    <3>2. batch' \in Seq(Nat) /\ queue' \in Seq(Nat)
      BY <1>1, <1>5, <3>1
    <3>3. \A k \in 1..(Len(batch') + Len(queue')) :
            (batch' \o queue')[k] = IF k <= Len(batch') THEN batch'[k] ELSE queue'[k - Len(batch')]
      BY <3>2, TaskSequences
    <3> QED BY <3>1, <3>3
  <2>2. i + 1 \in 1..n /\ done + (i + 1) = done' + i
    BY <1>1, <1>4
  <2>3. done' + i = IF i + 1 <= Len(batch) THEN batch[i + 1] ELSE queue[i + 1 - Len(batch)]
    BY <1>3, <2>2
  <2>4. CASE i <= Len(batch')
    <3>1. i + 1 <= Len(batch) /\ i \in 1..Len(batch')
      BY <1>3, <1>5, <2>4
    <3> QED BY <1>5, <2>1, <2>3, <2>4, <3>1
  <2>5. CASE ~(i <= Len(batch'))
    <3>1. ~(i + 1 <= Len(batch)) /\ i - Len(batch') = i + 1 - Len(batch)
      BY <1>3, <1>5, <2>5
    <3> QED BY <2>1, <2>3, <2>5, <3>1
  <2> QED BY <2>4, <2>5
<1>8. batch' \o queue' \in Seq(Nat) /\ Len(batch' \o queue') = n - 1
  <2>1. queue' = queue /\ Len(batch') + Len(queue) = n - 1
    BY <1>1, <1>2, <1>3, <1>5
  <2> QED BY <1>1, <1>5, <2>1, TaskSequences
<1>9. batch' \o queue' = Numbers(done', n - 1)
  BY <1>6, <1>7, <1>8, NumbersFacts
<1>10. TasksInOrder'
  BY <1>6, <1>9 DEF TasksInOrder, Numbers
<1> QED BY <1>1, <1>2, <1>5, <1>6, <1>10 DEF TasksInv

LEMMA PostLast ==
    ASSUME TasksInv, Post
    PROVE  TasksInv'
<1> DEFINE n == posted - done
<1>1. /\ batch \in Seq(Nat) /\ queue \in Seq(Nat)
      /\ batch \o queue = Numbers(done, n)
      /\ posted \in Nat /\ done \in Nat /\ n \in Nat
      /\ UNCHANGED <<pc, batch, done>> /\ posted' = posted + 1
      /\ queue' = Append(queue, posted + 1)
  BY DEF TasksInv, TasksInOrder, Post, Numbers
<1>2. queue' \in Seq(Nat) /\ batch' \o queue' = Append(batch \o queue, posted + 1)
  <2>1. posted + 1 \in Nat
    BY <1>1
  <2> QED BY <1>1, <2>1, TaskSequences
<1>3. Append(Numbers(done, n), posted + 1) = Numbers(done, n + 1)
  <2> DEFINE s == Append(Numbers(done, n), posted + 1)
  <2>1. /\ s \in Seq(Nat) /\ Len(s) = n + 1 /\ s[n + 1] = posted + 1
        /\ \A i \in 1..n : s[i] = Numbers(done, n)[i]
    <3>1. Numbers(done, n) \in Seq(Nat) /\ Len(Numbers(done, n)) = n
      BY <1>1, NumbersFacts
    <3>2. posted + 1 \in Nat
      BY <1>1
    <3> QED BY <3>1, <3>2, TaskSequences
  <2>2. \A i \in 1..(n + 1) : s[i] = done + i
    BY <1>1, <2>1 DEF Numbers
  <2>3. n + 1 \in Nat
    BY <1>1
  <2> HIDE DEF s
  <2>4. s = Numbers(done, n + 1)
    BY <1>1, <2>1, <2>2, <2>3, NumbersFacts, SMTT(30)
  <2> QED BY <2>4 DEF s
<1>4. posted' - done' = n + 1 /\ posted' \in Nat
  BY <1>1
<1>5. TasksInOrder'
  BY <1>1, <1>2, <1>3, <1>4 DEF TasksInOrder, Numbers
<1> QED BY <1>1, <1>2, <1>4, <1>5 DEF TasksInv

\* Nothing else touches the tasks, and only RunTask leaves some of them taken.
LEMMA TasksKept ==
    ASSUME TasksInv, [Next]_vars, ~TakeTasks, ~RunTask, ~Post
    PROVE  TasksInv'
<1>1. UNCHANGED <<queue, batch, posted, done>>
  BY DEF Next, InitThread, StatusThread, Import, vars, tasks, Elsewhere,
      LoadModule, ModulesLoaded, LoadCommand, CommandsLoaded, Started, Loop, TasksRun,
      Sync, ClearCommands, TerminateScript, ClearScripts, InitCommands, EndReload,
      CheckRestart, Restart, AskReload, Join, Terminate, ShutdownScripts, Unload,
      StatusWait, StatusWork, LuaReload, Eject, RegisterCommand, LuaImport, ReloadButton, ImportWrite, ImportFails,
      ImportClose, ImportRestart, ImportReload, Done
<1>2. pc' # "runTasks" => pc # "runTasks" \/ batch = <<>>
  BY DEF Next, InitThread, StatusThread, Import, vars, Goes,
      LoadModule, ModulesLoaded, LoadCommand, CommandsLoaded, Started, Loop, TasksRun,
      Sync, ClearCommands, TerminateScript, ClearScripts, InitCommands, EndReload,
      CheckRestart, Restart, AskReload, Join, Terminate, ShutdownScripts, Unload,
      StatusWait, StatusWork, LuaReload, Eject, RegisterCommand, LuaImport, ReloadButton, ImportWrite, ImportFails,
      ImportClose, ImportRestart, ImportReload, Done
<1> QED BY <1>1, <1>2 DEF TasksInv, TasksInOrder

LEMMA AlwaysTasks == Spec => []TasksInv
<1>1. Init => TasksInv
  <2> SUFFICES ASSUME Init PROVE TasksInv
    OBVIOUS
  <2>1. batch = <<>> /\ queue = <<>> /\ posted = 0 /\ done = 0
    BY DEF Init
  <2>2. batch \o queue = Numbers(0, 0)
    BY <2>1, NumbersFacts, EmptySeq, ConcatEmptySeq
  <2> QED BY <2>1, <2>2 DEF TasksInv, TasksInOrder, Numbers
<1>2. TasksInv /\ [Next]_vars => TasksInv'
  BY TakeAll, RunHead, PostLast, TasksKept
<1> QED BY <1>1, <1>2, PTL DEF Spec

\* The tasks of the main thread run once each, in the order in which they were queued,
\* however many there are and whatever the init thread does between them.
THEOREM TasksAlwaysInOrder == Spec => []TasksInOrder
<1>1. TasksInv => TasksInOrder
  BY DEF TasksInv
<1> QED BY <1>1, AlwaysTasks, PTL

-----------------------------------------------------------------------------
(* The lists of scripts and commands                                       *)

\* While a reload or the end is under way the lists disagree.  The invariant says, for
\* every place the init thread may be in, which of them do.

Names == ToSet(commands)

ListsTyped ==
    /\ loaded \in [Files -> Nat] /\ disk \in [Files -> Nat]
    /\ modules \subseteq ModuleFiles
    /\ commands \in Seq(CommandFiles \cup {Builtin}) /\ IsInjective(commands)

Deaf == {"terminateScripts", "loadModules", "loadCommands", "initCommands", "unload", "unloaded"}

CommandsPlace ==
    /\ pc \in Deaf => ~listening /\ Builtin \notin Names
    /\ pc \notin Deaf => listening /\ Builtin \in Names
    /\ pc = "terminateScripts" => commands = <<>>
    /\ pc = "unload" \/ pc = "unloaded" => commands = <<>>

ScriptsPlace ==
    /\ pc \notin {"terminateScripts", "shutdownScripts"} => subscribed = modules
    /\ pc \notin {"terminateScripts", "terminateCommands"}
         => InUse = modules \cup (Names \ {Builtin})
    /\ pc = "terminateCommands" => loaded = NothingLoaded /\ modules = {}

\* What the directories still hold has not been loaded.
TodoPlace ==
    /\ pc \in {"startModules", "loadModules"}
         => todo \subseteq ModuleFiles \ modules /\ Names \subseteq {Builtin}
    /\ pc \in {"startCommands", "loadCommands"} => todo \subseteq CommandFiles \ Names

\* What a script in use has registered is there, unless a reload has just begun.
RegisteredPlace ==
    /\ registered \subseteq Registers
    /\ pc # "terminateScripts" => InUse \cap Registers \subseteq registered

\* Where the lists disagree nobody is told that they are there.
GatePlace ==
    /\ pc \in Starting \cup Reloading => ~scriptsReady
    /\ pc \in {"terminateCommands", "unload", "unloaded"} => ~scriptsReady
    /\ pc \in Leaving \ {"join", "terminate"} => ~initialized

ListsInv ==
    ListsTyped /\ CommandsPlace /\ ScriptsPlace /\ TodoPlace /\ RegisteredPlace /\ GatePlace

LEMMA InitLists == Init => ListsInv
<1> SUFFICES ASSUME Init PROVE ListsInv
  OBVIOUS
<1>1. Names = {Builtin} /\ InUse = {} /\ IsInjective(commands)
      /\ commands \in Seq(CommandFiles \cup {Builtin})
  BY DEF Init, Names, ToSet, InUse, NothingLoaded, IsInjective
<1>2. loaded \in [Files -> Nat] /\ disk \in [Files -> Nat]
  BY DEF Init, NothingLoaded
<1>3. ListsTyped /\ CommandsPlace /\ GatePlace
  BY <1>1, <1>2
  DEF Init, ListsTyped, CommandsPlace, GatePlace, Deaf, Leaving
<1>4. ScriptsPlace /\ TodoPlace /\ RegisteredPlace
  BY <1>1 DEF Init, ScriptsPlace, TodoPlace, RegisteredPlace
<1> QED BY <1>3, <1>4 DEF ListsInv

\* A file that compiles is in use afterwards.
LEMMA OneMoreInUse ==
    ASSUME NEW f \in Files, ListsTyped, Accepted(f), loaded' = [loaded EXCEPT ![f] = disk[f]]
    PROVE  loaded' \in [Files -> Nat] /\ InUse' = InUse \cup {f}
<1>1. disk[f] \in Nat /\ disk[f] > 0 /\ loaded \in [Files -> Nat]
  BY DEF ListsTyped, Accepted
<1>2. loaded' \in [Files -> Nat]
  BY <1>1
<1>3. \A g \in Files : loaded'[g] = IF g = f THEN disk[f] ELSE loaded[g]
  BY <1>1
<1> QED BY <1>1, <1>2, <1>3 DEF InUse

\* A script that runs and comes into use has registered its commands.
LEMMA RegisteredMore ==
    ASSUME RegisteredPlace, NEW f \in Files, Runs(f), pc # "terminateScripts",
           \/ Accepted(f) /\ InUse' = InUse \cup {f}
           \/ InUse' = InUse
    PROVE  RegisteredPlace'
<1>1. registered \subseteq registered' /\ registered' \subseteq Registers
  BY DEF Runs, RegisteredPlace
<1>2. Accepted(f) /\ f \in Registers => f \in registered'
  BY DEF Runs
<1> QED BY <1>1, <1>2 DEF RegisteredPlace

LEMMA ListsLoadModule ==
    ASSUME ListsInv, LoadModule
    PROVE  ListsInv'
<1> USE DEF Elsewhere, files, flags
<1>1. PICK f \in todo :
        /\ todo' = todo \ {f} /\ Runs(f)
        /\ \/ /\ Accepted(f)
              /\ loaded' = [loaded EXCEPT ![f] = disk[f]]
              /\ modules' = modules \cup {f} /\ subscribed' = subscribed \cup {f}
           \/ UNCHANGED <<loaded, modules, subscribed>>
  BY DEF LoadModule
<1>2. /\ pc \in {"startModules", "loadModules"}
      /\ UNCHANGED <<pc, commands, listening, scriptsReady, initialized, disk>>
      /\ Names' = Names /\ Builtin \notin Files
      /\ f \in ModuleFiles /\ f \in Files /\ f \notin modules /\ Names \subseteq {Builtin}
  BY <1>1, FilesAssumption
  DEF LoadModule, ListsInv, TodoPlace, Names, FilesAssumption, Files
<1>3. /\ ListsTyped' /\ InUse' = modules' \cup (Names' \ {Builtin}) /\ subscribed' = modules'
      /\ (Accepted(f) /\ InUse' = InUse \cup {f}) \/ InUse' = InUse
  <2>1. ListsTyped /\ subscribed = modules /\ InUse = modules \cup (Names \ {Builtin})
    BY <1>2 DEF ListsInv, ScriptsPlace
  <2>2. CASE Accepted(f) /\ loaded' = [loaded EXCEPT ![f] = disk[f]]
             /\ modules' = modules \cup {f} /\ subscribed' = subscribed \cup {f}
    <3>1. loaded' \in [Files -> Nat] /\ InUse' = InUse \cup {f}
      BY <1>2, <2>1, <2>2, OneMoreInUse
    <3>2. InUse' = modules' \cup (Names' \ {Builtin})
      BY <1>2, <2>1, <2>2, <3>1
    <3>3. ListsTyped' /\ subscribed' = modules'
      BY <1>2, <2>1, <2>2, <3>1 DEF ListsTyped
    <3> QED BY <2>2, <3>1, <3>2, <3>3
  <2>3. CASE UNCHANGED <<loaded, modules, subscribed>>
    BY <1>2, <2>1, <2>3 DEF ListsTyped, InUse
  <2> QED BY <1>1, <2>2, <2>3
<1>4. CommandsPlace' /\ GatePlace'
  BY <1>2 DEF ListsInv, CommandsPlace, GatePlace
<1>5. ScriptsPlace'
  BY <1>2, <1>3 DEF ScriptsPlace
<1>6. TodoPlace'
  BY <1>1, <1>2 DEF ListsInv, TodoPlace
<1>7. RegisteredPlace'
  BY <1>1, <1>2, <1>3, RegisteredMore DEF ListsInv
<1> QED BY <1>3, <1>4, <1>5, <1>6, <1>7 DEF ListsInv

LEMMA ListsLoadCommand ==
    ASSUME ListsInv, LoadCommand
    PROVE  ListsInv'
<1> USE DEF Elsewhere, files, flags
<1>1. PICK f \in todo :
        /\ todo' = todo \ {f} /\ Runs(f)
        /\ \/ /\ Accepted(f)
              /\ loaded' = [loaded EXCEPT ![f] = disk[f]]
              /\ commands' = Append(commands, f)
           \/ UNCHANGED <<loaded, commands>>
  BY DEF LoadCommand
<1>2. /\ pc \in {"startCommands", "loadCommands"}
      /\ UNCHANGED <<pc, modules, subscribed, listening, scriptsReady, initialized, disk>>
      /\ f \in CommandFiles /\ f \in Files /\ f \notin Names /\ f # Builtin
  BY <1>1, FilesAssumption DEF LoadCommand, ListsInv, TodoPlace, FilesAssumption, Files
<1>3. /\ ListsTyped' /\ InUse' = modules' \cup (Names' \ {Builtin})
      /\ Names' \in {Names, Names \cup {f}}
      /\ (Accepted(f) /\ InUse' = InUse \cup {f}) \/ InUse' = InUse
  <2>1. ListsTyped /\ InUse = modules \cup (Names \ {Builtin})
    BY <1>2 DEF ListsInv, ScriptsPlace
  <2>2. CASE Accepted(f) /\ loaded' = [loaded EXCEPT ![f] = disk[f]]
             /\ commands' = Append(commands, f)
    <3>1. loaded' \in [Files -> Nat] /\ InUse' = InUse \cup {f}
      BY <1>2, <2>1, <2>2, OneMoreInUse
    <3>2. /\ commands' \in Seq(CommandFiles \cup {Builtin}) /\ IsInjective(commands')
          /\ Names' = Names \cup {f}
      BY <1>2, <2>1, <2>2, AppendNew DEF ListsTyped, Names
    <3>3. InUse' = modules' \cup (Names' \ {Builtin})
      BY <1>2, <2>1, <3>1, <3>2
    <3>4. ListsTyped'
      BY <1>2, <2>1, <3>1, <3>2 DEF ListsTyped
    <3> QED BY <2>2, <3>1, <3>2, <3>3, <3>4
  <2>3. CASE UNCHANGED <<loaded, commands>>
    BY <1>2, <2>1, <2>3 DEF ListsTyped, InUse, Names
  <2> QED BY <1>1, <2>2, <2>3
<1>4. CommandsPlace'
  BY <1>2, <1>3 DEF ListsInv, CommandsPlace
<1>5. GatePlace'
  BY <1>2 DEF ListsInv, GatePlace
<1>6. ScriptsPlace'
  BY <1>2, <1>3 DEF ListsInv, ScriptsPlace
<1>7. TodoPlace'
  BY <1>1, <1>2, <1>3 DEF ListsInv, TodoPlace
<1>8. RegisteredPlace'
  BY <1>1, <1>2, <1>3, RegisteredMore DEF ListsInv
<1> QED BY <1>3, <1>4, <1>5, <1>6, <1>7, <1>8 DEF ListsInv

LEMMA ListsInitCommands ==
    ASSUME ListsInv, InitCommands
    PROVE  ListsInv'
<1> USE DEF Elsewhere, files, flags, InitCommands, Goes
<1>1. /\ pc = "initCommands" /\ Builtin \notin Names /\ ListsTyped
      /\ ~scriptsReady /\ subscribed = modules /\ InUse = modules \cup (Names \ {Builtin})
  BY DEF ListsInv, CommandsPlace, ScriptsPlace, GatePlace, Deaf, Reloading
<1>2. /\ commands' \in Seq(CommandFiles \cup {Builtin}) /\ IsInjective(commands')
      /\ Names' = Names \cup {Builtin}
  BY <1>1, AppendNew DEF ListsTyped, Names
<1>3. ListsTyped' /\ InUse' = InUse
  BY <1>1, <1>2 DEF ListsTyped, InUse
<1>4. CommandsPlace' /\ GatePlace' /\ TodoPlace'
  BY <1>1, <1>2 DEF CommandsPlace, GatePlace, TodoPlace, Deaf, Leaving
<1>5. ScriptsPlace'
  BY <1>1, <1>2, <1>3 DEF ScriptsPlace
<1>6. RegisteredPlace'
  BY <1>1, <1>3 DEF ListsInv, RegisteredPlace
<1> QED BY <1>3, <1>4, <1>5, <1>6 DEF ListsInv

LEMMA NothingInUse ==
    /\ loaded' = NothingLoaded => loaded' \in [Files -> Nat] /\ InUse' = {}
    /\ commands' = <<>> => /\ commands' \in Seq(CommandFiles \cup {Builtin})
                           /\ IsInjective(commands') /\ Names' = {}
<1>1. NothingLoaded \in [Files -> Nat] /\ \A f \in Files : ~(NothingLoaded[f] > 0)
  BY DEF NothingLoaded
<1>2. <<>> \in Seq(CommandFiles \cup {Builtin}) /\ IsInjective(<<>>) /\ ToSet(<<>>) = {}
  BY DEF ToSet, IsInjective
<1> QED BY <1>1, <1>2 DEF InUse, Names

LEMMA ListsClear ==
    ASSUME ListsInv, ClearCommands \/ TerminateScript \/ ClearScripts \/ ShutdownScripts
    PROVE  ListsInv'
<1> USE DEF Elsewhere, files, flags, Goes
<1>1. ListsTyped'
  <2>1. CASE ClearCommands
    BY <2>1, NothingInUse DEF ClearCommands, ListsInv, ListsTyped
  <2>2. CASE TerminateScript
    BY <2>2 DEF TerminateScript, ListsInv, ListsTyped
  <2>3. CASE ClearScripts \/ ShutdownScripts
    BY <2>3, NothingInUse DEF ClearScripts, ShutdownScripts, ListsInv, ListsTyped
  <2> QED BY <2>1, <2>2, <2>3
<1>2. CASE ClearCommands
  <2>1. /\ pc \in {"clearCommands", "terminateCommands"}
        /\ pc' = IF pc = "clearCommands" THEN "terminateScripts" ELSE "unload"
        /\ ~listening' /\ commands' = <<>> /\ Names' = {} /\ InUse' = InUse
        /\ UNCHANGED <<scriptsReady, initialized, loaded, modules, subscribed>>
    BY <1>2, NothingInUse DEF ClearCommands, ListsInv, InUse
  <2>2. CommandsPlace' /\ TodoPlace'
    BY <2>1 DEF CommandsPlace, TodoPlace, Deaf
  <2>3. GatePlace'
    BY <2>1 DEF ListsInv, GatePlace, Reloading, Starting, Leaving
  <2>4. ScriptsPlace'
    <3>1. CASE pc = "clearCommands"
      BY <2>1, <3>1 DEF ScriptsPlace
    <3>2. CASE pc = "terminateCommands"
      <4>1. subscribed = modules /\ modules = {} /\ InUse = {}
        BY <3>2 DEF ListsInv, ScriptsPlace, NothingLoaded, InUse
      <4> QED BY <2>1, <3>2, <4>1 DEF ScriptsPlace
    <3> QED BY <2>1, <3>1, <3>2
  <2>5. RegisteredPlace'
    <3>1. registered' = {}
      BY <1>2 DEF ClearCommands
    <3>2. CASE pc = "terminateCommands"
      BY <2>1, <3>1, <3>2 DEF ListsInv, ScriptsPlace, RegisteredPlace, NothingLoaded, InUse
    <3>3. CASE pc = "clearCommands"
      BY <2>1, <3>1, <3>3 DEF RegisteredPlace
    <3> QED BY <2>1, <3>2, <3>3
  <2> QED BY <1>1, <2>2, <2>3, <2>4, <2>5 DEF ListsInv
<1>3. CASE TerminateScript
  <2>1. /\ pc \in {"terminateScripts", "shutdownScripts"}
        /\ UNCHANGED <<pc, scriptsReady, initialized, loaded, modules, commands, registered,
                       listening, todo>>
        /\ InUse' = InUse /\ Names' = Names
    BY <1>3 DEF TerminateScript, InUse, Names
  <2>2. CommandsPlace' /\ TodoPlace' /\ GatePlace' /\ ScriptsPlace' /\ RegisteredPlace'
    BY <2>1
    DEF ListsInv, CommandsPlace, TodoPlace, GatePlace, ScriptsPlace, RegisteredPlace
  <2> QED BY <1>1, <2>2 DEF ListsInv
<1>4. CASE ClearScripts
  <2>1. /\ pc = "terminateScripts" /\ pc' = "loadModules" /\ commands = <<>> /\ commands' = commands
        /\ InUse' = {} /\ modules' = {} /\ subscribed' = {} /\ Names' = {}
        /\ todo' = ModuleFiles /\ ~scriptsReady /\ ~listening
        /\ UNCHANGED <<scriptsReady, initialized, listening, registered>>
    BY <1>4, NothingInUse
    DEF ClearScripts, ListsInv, CommandsPlace, GatePlace, Reloading, Deaf
  <2>2. CommandsPlace' /\ TodoPlace' /\ GatePlace' /\ ScriptsPlace'
    BY <2>1 DEF CommandsPlace, TodoPlace, GatePlace, ScriptsPlace, Deaf, Leaving
  <2>3. RegisteredPlace'
    BY <2>1, NothingInUse DEF ListsInv, RegisteredPlace
  <2> QED BY <1>1, <2>2, <2>3 DEF ListsInv
<1>5. CASE ShutdownScripts
  <2>1. /\ pc = "shutdownScripts" /\ pc' = "terminateCommands" /\ ~initialized
        /\ loaded' = NothingLoaded /\ modules' = {} /\ subscribed' = {} /\ ~scriptsReady'
        /\ listening /\ Builtin \in Names
        /\ UNCHANGED <<initialized, commands, listening, registered>> /\ Names' = Names
    BY <1>5
    DEF ShutdownScripts, ListsInv, CommandsPlace, GatePlace, Leaving, Deaf, Names
  <2>2. CommandsPlace' /\ TodoPlace' /\ GatePlace' /\ ScriptsPlace'
    BY <2>1 DEF CommandsPlace, TodoPlace, GatePlace, ScriptsPlace, Deaf, Leaving
  <2>3. RegisteredPlace'
    BY <2>1, NothingInUse DEF ListsInv, RegisteredPlace
  <2> QED BY <1>1, <2>2, <2>3 DEF ListsInv
<1> QED BY <1>2, <1>3, <1>4, <1>5

\* The other steps of the init thread only move it on.
LEMMA ListsMove ==
    ASSUME ListsInv,
           \/ ModulesLoaded \/ CommandsLoaded \/ Started \/ Loop \/ TakeTasks \/ RunTask
           \/ TasksRun \/ Sync \/ EndReload \/ CheckRestart \/ Restart \/ AskReload
           \/ Join \/ Terminate \/ Unload
    PROVE  ListsInv'
<1> USE DEF Elsewhere, files, flags, scripts, Goes,
        ModulesLoaded, CommandsLoaded, Started, Loop, TakeTasks, RunTask, TasksRun, Sync,
        EndReload, CheckRestart, Restart, AskReload, Join, Terminate, Unload
<1>1. /\ UNCHANGED <<loaded, disk, modules, subscribed, commands, registered, listening>>
      /\ Names' = Names /\ InUse' = InUse
  BY DEF Names, InUse
<1>2. ListsTyped'
  BY <1>1 DEF ListsInv, ListsTyped
<1>3. CommandsPlace'
  BY <1>1 DEF ListsInv, CommandsPlace, Deaf
<1>4. ScriptsPlace'
  BY <1>1 DEF ListsInv, ScriptsPlace
<1>5. TodoPlace'
  <2>1. CASE ModulesLoaded
    BY <1>1, <2>1, FilesAssumption DEF ListsInv, TodoPlace, FilesAssumption, Files
  <2>2. CASE ~ModulesLoaded
    BY <1>1, <2>2 DEF ListsInv, TodoPlace
  <2> QED BY <2>1, <2>2
<1>6. GatePlace'
  BY DEF ListsInv, GatePlace, Starting, Reloading, Leaving
<1>7. RegisteredPlace'
  BY <1>1 DEF ListsInv, RegisteredPlace
<1> QED BY <1>2, <1>3, <1>4, <1>5, <1>6, <1>7 DEF ListsInv

\* The other threads touch no list but that of the commands, where a script adds to its own.
LEMMA ListsBeside ==
    ASSUME ListsInv,
           \/ StatusThread \/ LuaReload \/ Eject \/ ReloadButton \/ Post
           \/ RegisterCommand \/ LuaImport
           \/ \E f \in Imported : Loaded /\ Import(f)
           \/ UNCHANGED vars
    PROVE  ListsInv'
<1> USE DEF files, flags, scripts, vars, StatusThread, StatusWait, StatusWork,
        LuaReload, Eject, RegisterCommand, LuaImport, ReloadButton, Post, Import,
        ImportWrite, ImportFails, ImportClose, ImportRestart, ImportReload
<1>1. /\ UNCHANGED <<pc, initialized, scriptsReady, todo, loaded, modules, subscribed,
                     commands, listening>>
      /\ Names' = Names /\ InUse' = InUse
  BY DEF Names, InUse
<1>2. disk' \in [Files -> Nat]
  <2>1. \/ UNCHANGED disk
        \/ \E f \in Imported \cup Copied : disk' = [disk EXCEPT ![f] = @ + 1]
    OBVIOUS
  <2>2. disk \in [Files -> Nat]
    BY DEF ListsInv, ListsTyped
  <2>3. \A f \in Imported \cup Copied : [disk EXCEPT ![f] = @ + 1] \in [Files -> Nat]
    <3> SUFFICES ASSUME NEW f \in Imported \cup Copied
                 PROVE  [disk EXCEPT ![f] = disk[f] + 1] \in [Files -> Nat]
      OBVIOUS
    <3>1. disk[f] + 1 \in Nat
      BY <2>2, FilesAssumption DEF FilesAssumption
    <3> QED BY <2>2, <3>1
  <2> QED BY <2>1, <2>2, <2>3
<1>3. registered' = registered \/ \E f \in Registers : registered' = registered \cup {f}
  OBVIOUS
<1>4. RegisteredPlace'
  BY <1>1, <1>3 DEF ListsInv, RegisteredPlace
<1> QED
  BY <1>1, <1>2, <1>4
  DEF ListsInv, ListsTyped, CommandsPlace, ScriptsPlace, TodoPlace, GatePlace

LEMMA AlwaysLists == Spec => []ListsInv
<1>1. ListsInv /\ [Next]_vars => ListsInv'
  BY ListsLoadModule, ListsLoadCommand, ListsInitCommands, ListsClear, ListsMove, ListsBeside
  DEF Next, InitThread, Done
<1> QED BY InitLists, <1>1, PTL DEF Spec

\* Whenever events are delivered and the scripts are ready, what listens is what is loaded,
\* and of the commands those that are built in, those of the scripts in use, once, and what
\* these have registered are there; and CommandManager never listens without the built-in
\* ones: for any scripts, rejected ones and such as register commands among them, through
\* reloads, restarts, imports and the end in any order.
THEOREM ListsAlwaysAgree == Spec => []ListsAgree
<1>1. ListsInv => ListsAgree
  <2> SUFFICES ASSUME ListsInv PROVE ListsAgree
    OBVIOUS
  <2>1. listening => Builtin \in Names
    BY DEF ListsInv, CommandsPlace
  <2>2. ASSUME initialized, scriptsReady
        PROVE  /\ pc \notin Deaf
               /\ pc \notin {"terminateScripts", "shutdownScripts", "terminateCommands"}
    BY <2>2 DEF ListsInv, GatePlace, Deaf, Reloading, Starting, Leaving
  <2> QED
    BY <2>1, <2>2
    DEF ListsInv, ListsTyped, CommandsPlace, ScriptsPlace, RegisteredPlace, ListsAgree, Names
<1> QED BY <1>1, AlwaysLists, PTL

-----------------------------------------------------------------------------
(* The type invariant.  It needs the two invariants above: only modules    *)
(* are in the list of modules because the directory that is being read is  *)
(* theirs, and no more tasks have run than were queued.                    *)

ImportPlaces == {"idle", "write", "failed", "askRestart", "askReload"}

\* A file that is loaded, as a module or as a command.
LEMMA TypeLoad ==
    ASSUME TypeOK, ListsInv, TasksInv, LoadModule \/ LoadCommand
    PROVE  TypeOK'
<1>1. \/ loaded' = loaded
      \/ \E f \in todo : loaded' = [loaded EXCEPT ![f] = disk[f]]
  BY DEF LoadModule, LoadCommand
<1>2. loaded' \in [Files -> 0..MaxVersion] /\ todo' \subseteq Files
  BY <1>1 DEF TypeOK, LoadModule, LoadCommand
<1>3. ListsTyped' /\ registered' \subseteq Registers
  BY ListsLoadModule, ListsLoadCommand DEF ListsInv, RegisteredPlace
<1>4. subscribed' \subseteq modules'
  BY DEF TypeOK, LoadModule, LoadCommand
<1>5. UNCHANGED <<pc, pendingReload, scriptsReady, listening, status, flags, files, tasks>>
  BY DEF LoadModule, LoadCommand, Elsewhere
<1> QED BY <1>2, <1>3, <1>4, <1>5 DEF TypeOK, ListsTyped, flags, files, tasks

\* The rest of what the init thread does.
LEMMA TypeInitThread ==
    ASSUME TypeOK, ListsInv, ListsInv', TasksInv', InitThread, ~LoadModule, ~LoadCommand
    PROVE  TypeOK'
<1>1. /\ pc' \in Starting \cup Looping \cup Reloading \cup Leaving
      /\ status' \in {"none", "wait", "work", "ended"}
  BY DEF TypeOK, InitThread, Goes, Elsewhere, flags, scripts, files, tasks,
      ModulesLoaded, CommandsLoaded, Started, Loop, TakeTasks, RunTask, TasksRun, Sync,
      ClearCommands, TerminateScript, ClearScripts, InitCommands, EndReload, CheckRestart,
      Restart, AskReload, Join, Terminate, ShutdownScripts, Unload,
      Starting, Looping, Reloading, Leaving
<1>2. {disable, initialized, restartModules, pendingReload, scriptsReady, listening}'
         \subseteq BOOLEAN
  BY DEF TypeOK, InitThread, Goes, Elsewhere, flags, scripts, files, tasks,
      ModulesLoaded, CommandsLoaded, Started, Loop, TakeTasks, RunTask, TasksRun, Sync,
      ClearCommands, TerminateScript, ClearScripts, InitCommands, EndReload, CheckRestart,
      Restart, AskReload, Join, Terminate, ShutdownScripts, Unload
<1>3. /\ todo' \in {todo, ModuleFiles, CommandFiles}
      /\ loaded' \in {loaded, NothingLoaded}
      /\ subscribed' \subseteq modules'
      /\ UNCHANGED files
  BY DEF TypeOK, InitThread, Goes, Elsewhere, flags, scripts, files, tasks,
      ModulesLoaded, CommandsLoaded, Started, Loop, TakeTasks, RunTask, TasksRun, Sync,
      ClearCommands, TerminateScript, ClearScripts, InitCommands, EndReload, CheckRestart,
      Restart, AskReload, Join, Terminate, ShutdownScripts, Unload
<1>4. NothingLoaded \in [Files -> 0..MaxVersion]
  BY BoundsAssumption DEF NothingLoaded, BoundsAssumption
<1>5. /\ todo' \subseteq Files /\ loaded' \in [Files -> 0..MaxVersion]
      /\ disk' \in [Files -> 0..MaxVersion] /\ importing' \in [Imported -> ImportPlaces]
  BY <1>3, <1>4 DEF TypeOK, Files, files, ImportPlaces
<1>6. /\ posted' \in 0..MaxTasks /\ queue' \in Seq(1..MaxTasks) /\ batch' \in Seq(1..MaxTasks)
  <2>1. CASE TakeTasks
    <3>1. <<>> \in Seq(1..MaxTasks)
      OBVIOUS
    <3> QED BY <2>1, <3>1 DEF TakeTasks, TypeOK
  <2>2. CASE RunTask
    BY <2>2, HeadTailElements DEF RunTask, TypeOK
  <2>3. CASE ~TakeTasks /\ ~RunTask
    <3>1. UNCHANGED <<queue, batch, posted>>
      BY <2>3 DEF InitThread, Elsewhere, tasks,
          ModulesLoaded, CommandsLoaded, Started, Loop, TasksRun, Sync,
          ClearCommands, TerminateScript, ClearScripts, InitCommands, EndReload,
          CheckRestart, Restart, AskReload, Join, Terminate, ShutdownScripts, Unload
    <3> QED BY <3>1 DEF TypeOK
  <2> QED BY <2>1, <2>2, <2>3
<1>7. done' \in 0..posted'
  BY DEF TasksInv
<1>8. /\ modules' \subseteq ModuleFiles /\ commands' \in Seq(CommandFiles \cup {Builtin})
      /\ registered' \subseteq Registers
  BY DEF ListsInv, ListsTyped, RegisteredPlace
<1> QED BY <1>1, <1>2, <1>3, <1>5, <1>6, <1>7, <1>8 DEF TypeOK, ImportPlaces

\* The other threads.
LEMMA TypeBeside ==
    ASSUME TypeOK, TasksInv',
           \/ StatusThread \/ LuaReload \/ Eject \/ ReloadButton \/ Post
           \/ RegisterCommand \/ LuaImport
           \/ \E f \in Imported : Loaded /\ Import(f)
           \/ UNCHANGED vars
    PROVE  TypeOK'
<1>1. CASE StatusThread \/ LuaReload \/ Eject \/ ReloadButton \/ UNCHANGED vars
  BY <1>1 DEF TypeOK, StatusThread, StatusWait, StatusWork, LuaReload, Eject, RegisterCommand, LuaImport, ReloadButton,
      flags, scripts, files, tasks, vars
<1>2. CASE Post
  <2>1. posted + 1 \in 1..MaxTasks /\ posted' = posted + 1 /\ queue' = Append(queue, posted + 1)
    BY <1>2, BoundsAssumption DEF Post, TypeOK, BoundsAssumption
  <2>2. queue' \in Seq(1..MaxTasks) /\ posted' \in 0..MaxTasks
    BY <2>1, AppendElements DEF TypeOK
  <2>3. done' \in 0..posted'
    BY DEF TasksInv
  <2> QED BY <1>2, <2>2, <2>3 DEF Post, TypeOK, flags, scripts, files
<1>3. ASSUME NEW f \in Imported, Import(f) PROVE TypeOK'
  <2>1. f \in Files
    BY FilesAssumption DEF FilesAssumption
  <2>2. importing' \in [Imported -> ImportPlaces]
    BY <1>3 DEF TypeOK, Import, ImportWrite, ImportFails, ImportClose, ImportRestart,
        ImportReload, ImportPlaces
  <2>3. disk' \in [Files -> 0..MaxVersion]
    <3>1. CASE ImportWrite(f)
      <4>1. disk[f] + 1 \in 0..MaxVersion /\ disk' = [disk EXCEPT ![f] = disk[f] + 1]
        BY <2>1, <3>1, BoundsAssumption DEF TypeOK, ImportWrite, BoundsAssumption
      <4> QED BY <4>1 DEF TypeOK
    <3>2. CASE UNCHANGED disk
      BY <3>2 DEF TypeOK
    <3> QED BY <1>3, <3>1, <3>2 DEF Import, ImportFails, ImportClose, ImportRestart,
                ImportReload, files
  <2>4. /\ UNCHANGED <<pc, status, scripts, tasks, disable, initialized>>
        /\ restartModules' \in {restartModules, TRUE} /\ pendingReload' \in {pendingReload, TRUE}
    BY <1>3 DEF Import, ImportWrite, ImportFails, ImportClose, ImportRestart, ImportReload, flags
  <2> QED BY <2>2, <2>3, <2>4 DEF TypeOK, scripts, tasks, ImportPlaces
<1>4. CASE RegisterCommand
  BY <1>4 DEF RegisterCommand, TypeOK, flags, files, tasks
<1>5. CASE LuaImport
  <2>1. PICK f \in Files : disk[f] < MaxVersion /\ disk' = [disk EXCEPT ![f] = disk[f] + 1]
    BY <1>5, FilesAssumption DEF LuaImport, FilesAssumption
  <2>2. disk[f] + 1 \in 0..MaxVersion
    BY <2>1, BoundsAssumption DEF TypeOK, BoundsAssumption
  <2>3. disk' \in [Files -> 0..MaxVersion]
    BY <2>1, <2>2 DEF TypeOK
  <2> QED BY <1>5, <2>3 DEF LuaImport, TypeOK, flags, scripts, tasks
<1> QED BY <1>1, <1>2, <1>3, <1>4, <1>5

\* The type invariant, for any scripts, tasks and imports: in the list of modules are only
\* files of the one directory, and in that of commands, apart from what scripts register,
\* only files of the other (loadModuleScripts and loadCommandScripts); and no task runs
\* that was not queued.
THEOREM MainLoopTypeCorrect == Spec => []TypeOK
<1>1. Init => TypeOK
  <2> SUFFICES ASSUME Init PROVE TypeOK
    OBVIOUS
  <2>1. /\ loaded \in [Files -> 0..MaxVersion] /\ disk \in [Files -> 0..MaxVersion]
        /\ todo \subseteq Files
    BY BoundsAssumption DEF Init, NothingLoaded, Files, BoundsAssumption
  <2>2. posted \in 0..MaxTasks /\ done \in 0..posted
    BY BoundsAssumption DEF Init, BoundsAssumption
  <2>3. /\ commands \in Seq(CommandFiles \cup {Builtin})
        /\ queue \in Seq(1..MaxTasks) /\ batch \in Seq(1..MaxTasks)
    BY DEF Init
  <2> QED BY <2>1, <2>2, <2>3 DEF Init, TypeOK, Starting
<1>2. TypeOK /\ ListsInv /\ TasksInv /\ (ListsInv /\ TasksInv)' /\ [Next]_vars => TypeOK'
  BY TypeLoad, TypeInitThread, TypeBeside DEF Next, Done
<1> QED BY <1>1, <1>2, AlwaysLists, AlwaysTasks, PTL DEF Spec
================================================================================
