--------------------------- MODULE ConfigStoreProofs ---------------------------
(***************************************************************************)
(* Proofs about ConfigStore, for every set of configurations and any       *)
(* number of operations and deaths of the process.                         *)
(*                                                                         *)
(* Whatever the threads interleave and whichever access to a file fails,   *)
(* the state is well typed (TypedInv).  When the threads take turns, the   *)
(* disk, the memory and the modules go through the operations together     *)
(* (OneInv): as long as nothing fails they agree, and after a failure a    *)
(* save still writes over a configuration nothing but its own settings.    *)
(*                                                                         *)
(* What a thread may rely on depends on what it has still to do, so the    *)
(* invariants relate the sequence todo[t] to the disk and to the memory.   *)
(* The sequences are written step by step with Then: a step of the thread  *)
(* takes the first one off.                                                *)
(***************************************************************************)
EXTENDS ConfigStore, UniqueSequences

\* The step a, and what is to be done after it.
Then(a, k) == <<a>> \o k
Done == <<>>

\* The steps that threads are given: only select and remove are told a configuration.
Items == {s \in StepNames \X (Configs \cup {NoConfig}) :
            s[1] \in {"select", "remove"} => s[2] \in Configs}

\* One of the steps of s has this name.
Does(s, name) == \E x \in ToSet(s) : x[1] = name

LEMMA ThenFacts ==
    ASSUME NEW S, NEW a \in S, NEW k \in Seq(S)
    PROVE  /\ Then(a, k) \in Seq(S) /\ Then(a, k) # <<>>
           /\ Head(Then(a, k)) = a /\ Tail(Then(a, k)) = k
           /\ ToSet(Then(a, k)) = {a} \cup ToSet(k)
<1>1. /\ Then(a, k) \in Seq(S) /\ Then(a, k) # <<>>
      /\ Head(Then(a, k)) = a /\ Tail(Then(a, k)) = k
  BY DEF Then
<1> HIDE DEF Then
<1> QED BY <1>1, HeadTailElements

\* Sequences written out, and followed by another one.
LEMMA Cut == \A a, b, c, d :
    /\ <<a, b>> = <<a>> \o <<b>>
    /\ <<a, b, c>> = <<a>> \o <<b, c>>
    /\ <<a, b, c, d>> = <<a>> \o <<b, c, d>>
<1> TAKE a, b, c, d
<1>1. <<a, b>> = <<a>> \o <<b>>
  <2> DEFINE t == <<a>> \o <<b>>
  <2>1. t \in Seq({a, b}) /\ Len(t) = 2 /\ t[1] = a /\ t[2] = b
    OBVIOUS
  <2> HIDE DEF t
  <2>2. t = <<a, b>>
    BY <2>1
  <2> QED BY <2>2 DEF t
<1>2. <<a, b, c>> = <<a>> \o <<b, c>>
  OBVIOUS
<1>3. <<a, b, c, d>> = <<a>> \o <<b, c, d>>
  OBVIOUS
<1> QED BY <1>1, <1>2, <1>3

Two(a, b) == <<a, b>>
Four(a, b, c, d) == <<a, b, c, d>>

LEMMA CutFive == \A a, b, c, d, e : <<a, b, c, d, e>> = Four(a, b, c, d) \o <<e>>
BY DEF Four

Splits(a, b, c, d, e, f, g) == <<a, b, c, d, e, f, g>> = Four(a, b, c, d) \o <<e, f, g>>
LEMMA CutSeven == \A a, b, c, d, e, f, g : Splits(a, b, c, d, e, f, g)
BY DEF Four, Splits

LEMMA WrittenOne ==
    ASSUME NEW S, NEW k \in Seq(S), NEW x \in S, NEW u \in Seq(S)
    PROVE  (<<x>> \o u) \o k = Then(x, u \o k)
<1>1. <<x>> \in Seq(S)
  OBVIOUS
<1>2. (<<x>> \o u) \o k = <<x>> \o (u \o k)
  BY <1>1, ConcatAssociative
<1> QED BY <1>2 DEF Then

LEMMA WrittenTwo ==
    ASSUME NEW S, NEW k \in Seq(S)
    PROVE  \A x, y \in S : Two(x, y) \o k = Then(x, Then(y, k))
<1> TAKE x, y \in S
<1>1. <<y>> \in Seq(S) /\ Two(x, y) = <<x>> \o <<y>>
  BY Cut DEF Two
<1>2. (<<x>> \o <<y>>) \o k = Then(x, <<y>> \o k)
  BY <1>1, WrittenOne
<1>3. <<y>> \o k = Then(y, k)
  BY DEF Then
<1> QED BY <1>1, <1>2, <1>3

Unrolls(w, x, y, z, k) ==
    Four(w, x, y, z) \o k = Then(w, Then(x, Then(y, Then(z, k))))

LEMMA WrittenFour ==
    ASSUME NEW S, NEW k \in Seq(S), NEW w \in S, NEW x \in S, NEW y \in S, NEW z \in S
    PROVE  Unrolls(w, x, y, z, k)
<1>1. <<x, y, z>> \in Seq(S) /\ <<y, z>> \in Seq(S)
  OBVIOUS
<1>2. Four(w, x, y, z) = <<w>> \o <<x, y, z>>
  BY Cut, SMTT(30) DEF Four
<1>3. <<x, y, z>> = <<x>> \o <<y, z>>
  BY Cut, SMTT(30)
<1>4. (<<w>> \o <<x, y, z>>) \o k = Then(w, <<x, y, z>> \o k)
  BY <1>1, WrittenOne
<1>5. (<<x>> \o <<y, z>>) \o k = Then(x, <<y, z>> \o k)
  BY <1>1, WrittenOne
<1>6. Two(y, z) \o k = Then(y, Then(z, k))
  BY WrittenTwo
<1>7. <<x, y, z>> \o k = Then(x, Then(y, Then(z, k)))
  BY <1>3, <1>5, <1>6 DEF Two
<1> QED BY <1>2, <1>4, <1>7 DEF Unrolls

\* The steps that take no configuration.
LEMMA StepItems ==
    /\ \A n \in StepNames \ {"select", "remove"} : Step(n) \in Items
    /\ \A n \in StepNames : Step(n)[1] = n
    /\ \A c \in Configs : <<"select", c>> \in Items /\ <<"remove", c>> \in Items
BY DEF Step, Items, StepNames

\* The programs of the operations, of the start and of the restart.
LEMMA Programs ==
    ASSUME NEW c \in Configs
    PROVE  /\ <<Step("save"), Step("save_private")>>
                = Then(Step("save"), Then(Step("save_private"), Done))
           /\ AndRestart = Then(Step("request_restart"), Done)
           /\ Switching(c) \o AndRestart
                = Then(<<"select", c>>, Then(Step("save"), Then(Step("save_private"),
                    Then(Step("load_private"), AndRestart))))
           /\ Deleting(c) \o AndRestart
                = Then(<<"select", Default>>, Then(Step("save_private"), Then(Step("load_private"),
                    Then(<<"remove", c>>, AndRestart))))
<1> DEFINE sa == Step("save")
           sp == Step("save_private")
           lp == Step("load_private")
           rr == Step("request_restart")
           sc == <<"select", c>>
           sd == <<"select", Default>>
           rc == <<"remove", c>>
<1>1. sa \in Items /\ sp \in Items /\ lp \in Items /\ rr \in Items
      /\ sc \in Items /\ rc \in Items /\ sd \in Items
  BY StepItems, DefaultAssumption DEF StepNames, DefaultAssumption
<1>2. AndRestart = <<rr>> /\ Switching(c) = Four(sc, sa, sp, lp) /\ Deleting(c) = Four(sd, sp, lp, rc)
  BY DEF AndRestart, Switching, Deleting, Four
<1>3. AndRestart \in Seq(Items)
  BY <1>1, <1>2
<1> HIDE DEF sa, sp, lp, rr, sc, sd, rc
<1>4. Done \in Seq(Items) /\ Two(sa, sp) \in Seq(Items)
  BY <1>1 DEF Done, Two
<1>5. Two(sa, sp) \o Done = Two(sa, sp) /\ AndRestart \o Done = AndRestart
  BY <1>3, <1>4, ConcatEmptySeq DEF Done
<1>6. AndRestart \o Done = Then(rr, Done)
  BY <1>2 DEF Then
<1>7. Two(sa, sp) \o Done = Then(sa, Then(sp, Done))
  <2>1. Done \in Seq(Items)
    BY <1>4
  <2>2. \A a, b \in Items : Two(a, b) \o Done = Then(a, Then(b, Done))
    BY <2>1, WrittenTwo
  <2> QED BY <1>1, <2>2
<1>8. Unrolls(sc, sa, sp, lp, AndRestart) /\ Unrolls(sd, sp, lp, rc, AndRestart)
  BY <1>1, <1>3, WrittenFour
<1> QED BY <1>2, <1>5, <1>6, <1>7, <1>8 DEF Unrolls, sa, sp, lp, rr, sc, sd, rc, Two

\* The step that a thread makes is the one at the front of what it has to do.
LEMMA Dispatch ==
    ASSUME NEW t \in Threads, Advance(t)
    PROVE  /\ todo[t] # <<>>
           /\ At(t, "save") => SaveSettings(t)
           /\ At(t, "collect") => Collect(t)
           /\ At(t, "open") => OpenTemporary(t) \/ OpenFails(t)
           /\ At(t, "write") => WriteTemporary(t) \/ DumpFails(t)
           /\ At(t, "rename") => Rename(t) \/ RenameFails(t)
           /\ At(t, "discard") => Discard(t)
           /\ At(t, "save_private") => SavePrivate(t)
           /\ At(t, "truncate") => TruncatePrivate(t) \/ PrivateRefused(t)
           /\ At(t, "serialise") => Serialise(t)
           /\ At(t, "append") => AppendPrivate(t) \/ AppendFails(t)
           /\ At(t, "load_private") => LoadPrivate(t)
           /\ At(t, "load_settings") => LoadSettings(t)
           /\ At(t, "select") => Select(t)
           /\ At(t, "remove") => RemoveFile(t)
           /\ At(t, "request_restart") => RequestRestart(t)
           /\ At(t, "reset") => Reset(t)
           /\ At(t, "reload") => Reload(t)
           /\ At(t, "recreate_at_start") => RecreateAtStart(t)
           /\ At(t, "add_settings") => AddSettings(t)
           /\ At(t, "ready") => Ready(t)
<1>1. /\ SaveSettings(t) => At(t, "save")
      /\ Collect(t) => At(t, "collect")
      /\ OpenTemporary(t) \/ OpenFails(t) => At(t, "open")
      /\ WriteTemporary(t) \/ DumpFails(t) => At(t, "write")
      /\ Rename(t) \/ RenameFails(t) => At(t, "rename")
      /\ Discard(t) => At(t, "discard")
      /\ SavePrivate(t) => At(t, "save_private")
      /\ TruncatePrivate(t) \/ PrivateRefused(t) => At(t, "truncate")
      /\ Serialise(t) => At(t, "serialise")
      /\ AppendPrivate(t) \/ AppendFails(t) => At(t, "append")
      /\ LoadPrivate(t) => At(t, "load_private")
      /\ LoadSettings(t) => At(t, "load_settings")
      /\ Select(t) => At(t, "select")
      /\ RemoveFile(t) => At(t, "remove")
      /\ RequestRestart(t) => At(t, "request_restart")
      /\ Reset(t) => At(t, "reset")
      /\ Reload(t) => At(t, "reload")
      /\ RecreateAtStart(t) => At(t, "recreate_at_start")
      /\ AddSettings(t) => At(t, "add_settings")
      /\ Ready(t) => At(t, "ready")
  BY DEF SaveSettings, Collect, OpenTemporary, WriteTemporary, Rename, Discard, SavePrivate,
     TruncatePrivate, Serialise, AppendPrivate, LoadPrivate, LoadSettings, Select, RemoveFile,
     RequestRestart, Reset, Reload, RecreateAtStart, AddSettings, Ready, OpenFails, DumpFails,
     RenameFails, PrivateRefused, AppendFails
<1> DEFINE h == Head(todo[t])[1]
<1>2. todo[t] # <<>>
  BY <1>1 DEF Advance, At
<1>3. \A n : At(t, n) <=> h = n
  BY <1>2 DEF At
<1> HIDE DEF h
<1>4. \/ h = "save" /\ SaveSettings(t)
      \/ h = "collect" /\ Collect(t)
      \/ h = "open" /\ (OpenTemporary(t) \/ OpenFails(t))
      \/ h = "write" /\ (WriteTemporary(t) \/ DumpFails(t))
      \/ h = "rename" /\ (Rename(t) \/ RenameFails(t))
      \/ h = "discard" /\ Discard(t)
      \/ h = "save_private" /\ SavePrivate(t)
      \/ h = "truncate" /\ (TruncatePrivate(t) \/ PrivateRefused(t))
      \/ h = "serialise" /\ Serialise(t)
      \/ h = "append" /\ (AppendPrivate(t) \/ AppendFails(t))
      \/ h = "load_private" /\ LoadPrivate(t)
      \/ h = "load_settings" /\ LoadSettings(t)
      \/ h = "select" /\ Select(t)
      \/ h = "remove" /\ RemoveFile(t)
      \/ h = "request_restart" /\ RequestRestart(t)
      \/ h = "reset" /\ Reset(t)
      \/ h = "reload" /\ Reload(t)
      \/ h = "recreate_at_start" /\ RecreateAtStart(t)
      \/ h = "add_settings" /\ AddSettings(t)
      \/ h = "ready" /\ Ready(t)
  BY <1>1, <1>3 DEF Advance
<1> QED BY <1>2, <1>3, <1>4

-----------------------------------------------------------------------------
(* The type invariant                                                      *)

\* saveSettings and savePrivate before k, from each place in them.
Save(k) == Then(Step("save"), k)
Collecting(k) == Then(Step("collect"), k)
Opening(k) == Then(Step("open"), k)
Writing(k) == Then(Step("write"), k)
Renaming(k) == Then(Step("rename"), k)
Discarding(k) == Then(Step("discard"), k)
Private(k) == Then(Step("save_private"), k)
Truncating(k) == Then(Step("truncate"), k)
Serialising(k) == Then(Step("serialise"), k)
Appending(k) == Then(Step("append"), k)

TodoTyped == todo \in [Threads -> Seq(Items)]

\* The steps that are followed by another one, and by which.
Onward == {<<"save", "collect">>, <<"collect", "open">>, <<"open", "write">>, <<"write", "rename">>,
           <<"rename", "discard">>, <<"save_private", "truncate">>, <<"truncate", "serialise">>,
           <<"serialise", "append">>}

\* Thread t has the step p[2] before it after the step p[1].
GoesOn(t, p) ==
    /\ At(t, p[1]) /\ todo'[t] = Then(Step(p[2]), Tail(todo[t]))
    /\ p[2] = "truncate" => current # NoConfig

\* What a step of a thread leaves it to do.
LEMMA AdvanceTodo ==
    ASSUME TodoTyped, NEW t \in Threads, Advance(t)
    PROVE  /\ todo[t] # <<>> /\ Tail(todo[t]) \in Seq(Items) /\ Head(todo[t]) \in Items
           /\ \E s \in Seq(Items) : todo' = [todo EXCEPT ![t] = s]
           /\ \A u \in Threads \ {t} : todo'[u] = todo[u]
           /\ todo'[t] \in Seq(Items)
           /\ \/ todo'[t] = Tail(todo[t])
              \/ \E p \in Onward : GoesOn(t, p)
<1> DEFINE k == Tail(todo[t])
<1>1. todo[t] # <<>> /\ todo[t] \in Seq(Items)
  BY Dispatch DEF TodoTyped
<1>2. k \in Seq(Items) /\ Head(todo[t]) \in Items
  BY <1>1, HeadTailElements
<1>3. \A p \in Onward : Step(p[2]) \in Items
  BY StepItems DEF StepNames, Onward
<1>4. \A p \in Onward : Then(Step(p[2]), k) \in Seq(Items)
  BY <1>2, <1>3, ThenFacts
<1>5. \/ Proceed(t)
      \/ At(t, "save") /\ GoOn(t, "collect")
      \/ At(t, "collect") /\ GoOn(t, "open")
      \/ At(t, "open") /\ GoOn(t, "write")
      \/ At(t, "write") /\ GoOn(t, "rename")
      \/ At(t, "rename") /\ GoOn(t, "discard")
      \/ At(t, "save_private") /\ GoOn(t, "truncate") /\ current # NoConfig
      \/ At(t, "truncate") /\ GoOn(t, "serialise")
      \/ At(t, "serialise") /\ GoOn(t, "append")
  BY DEF Advance, SaveSettings, Collect, OpenTemporary, WriteTemporary, Rename, Discard, SavePrivate,
     TruncatePrivate, Serialise, AppendPrivate, LoadPrivate, LoadSettings, Select, RemoveFile,
     RequestRestart, Reset, Reload, RecreateAtStart, AddSettings, Ready, OpenFails, DumpFails,
     RenameFails, PrivateRefused, AppendFails
<1> DEFINE Takes(p) == At(t, p[1]) /\ GoOn(t, p[2]) /\ (p[2] = "truncate" => current # NoConfig)
<1>6. Proceed(t) \/ \E p \in Onward : Takes(p)
  BY <1>5 DEF Onward
<1>7. /\ Proceed(t) => todo' = [todo EXCEPT ![t] = k]
      /\ \A n : GoOn(t, n) => todo' = [todo EXCEPT ![t] = Then(Step(n), k)]
  BY DEF Proceed, GoOn, Then
<1> HIDE DEF k, Takes
<1>8. \A s \in Seq(Items) : todo' = [todo EXCEPT ![t] = s]
         => todo'[t] = s /\ \A u \in Threads \ {t} : todo'[u] = todo[u]
  BY DEF TodoTyped
<1>9. ASSUME NEW p \in Onward, Takes(p)
      PROVE  (\E s \in Seq(Items) : todo' = [todo EXCEPT ![t] = s]) /\ GoesOn(t, p)
  <2>1. todo' = [todo EXCEPT ![t] = Then(Step(p[2]), k)] /\ Then(Step(p[2]), k) \in Seq(Items)
    BY <1>4, <1>7, <1>9 DEF Takes
  <2>2. todo'[t] = Then(Step(p[2]), k)
    BY <1>8, <2>1
  <2> QED BY <1>9, <2>1, <2>2 DEF GoesOn, Takes, k
<1>10. /\ \E s \in Seq(Items) : todo' = [todo EXCEPT ![t] = s]
       /\ Proceed(t) \/ \E p \in Onward : GoesOn(t, p)
  <2>1. Proceed(t) => \E s \in Seq(Items) : todo' = [todo EXCEPT ![t] = s]
    BY <1>2, <1>7
  <2> QED BY <1>6, <1>9, <2>1
<1>11. todo'[t] = k \/ \E p \in Onward : GoesOn(t, p)
  BY <1>2, <1>7, <1>8, <1>10
<1>12. todo'[t] \in Seq(Items) /\ \A u \in Threads \ {t} : todo'[u] = todo[u]
  BY <1>8, <1>10
<1> QED BY <1>1, <1>2, <1>10, <1>11, <1>12 DEF k

\* Who is going to write PRIVATE has found a configuration to name in it.
WritesAName(t) ==
    Does(todo[t], "truncate") \/ Does(todo[t], "serialise") => current # NoConfig

TypedInv ==
    /\ TypeOK
    /\ TodoTyped
    /\ \A t \in Threads : WritesAName(t)

\* What operations, the start and restarts begin with.
Quiet == {s \in Items : s[1] \notin {"truncate", "serialise"}}

LEMMA QuietSequences ==
    ASSUME NEW s \in Seq(Quiet)
    PROVE  s \in Seq(Items) /\ ~Does(s, "truncate") /\ ~Does(s, "serialise")
<1>1. s \in Seq(Items)
  BY DEF Quiet
<1>2. ToSet(s) \subseteq Quiet
  BY Elements
<1> QED BY <1>1, <1>2 DEF Does, Quiet

LEMMA BegunQuiet ==
    /\ \A op \in Operations, c \in Configs : Steps(op, c) \in Seq(Quiet)
    /\ <<Step("add_settings"), Step("save_private"), Step("load_settings"), Step("reload"), Step("ready")>>
         \in Seq(Quiet)
    /\ <<Step("load_private"), Step("load_settings"), Step("recreate_at_start"), Step("add_settings"),
         Step("save_private"), Step("reload"), Step("ready")>> \in Seq(Quiet)
    /\ <<Step("load_settings"), Step("reset"), Step("reload"), Step("save")>> \in Seq(Quiet)
<1>1. /\ \A n \in StepNames \ {"select", "remove", "truncate", "serialise"} : Step(n) \in Quiet
      /\ \A c \in Configs : <<"select", c>> \in Quiet /\ <<"remove", c>> \in Quiet
  BY StepItems DEF Quiet
<1>2. \A n \in {"save", "save_private", "load_private", "request_restart", "add_settings", "load_settings",
                "reload", "ready", "recreate_at_start", "reset"} : Step(n) \in Quiet
  BY <1>1 DEF StepNames
<1> HIDE DEF Quiet
<1>3. \A op \in Operations, c \in Configs : Steps(op, c) \in Seq(Quiet)
  <2> TAKE op \in Operations, c \in Configs
  <2> DEFINE sa == Step("save")
             sp == Step("save_private")
             lp == Step("load_private")
             rr == Step("request_restart")
             sc == <<"select", c>>
             sd == <<"select", Default>>
             rc == <<"remove", c>>
  <2>1. /\ sa \in Quiet /\ sp \in Quiet /\ lp \in Quiet /\ rr \in Quiet
        /\ sc \in Quiet /\ sd \in Quiet /\ rc \in Quiet
    BY <1>1, <1>2, DefaultAssumption DEF DefaultAssumption
  <2>2. AndRestart = <<rr>> /\ Switching(c) = <<sc, sa, sp, lp>> /\ Deleting(c) = <<sd, sp, lp, rc>>
    BY DEF AndRestart, Switching, Deleting
  <2> HIDE DEF sa, sp, lp, rr, sc, sd, rc
  <2>3. AndRestart \in Seq(Quiet) /\ Switching(c) \in Seq(Quiet) /\ Deleting(c) \in Seq(Quiet)
    BY <2>1, <2>2
  <2>4. Switching(c) \o AndRestart \in Seq(Quiet) /\ Deleting(c) \o AndRestart \in Seq(Quiet)
    BY <2>3, ConcatProperties
  <2>5. <<sa, sp>> \in Seq(Quiet)
    BY <2>1
  <2>6. op \in {"save", "reload", "switch", "create", "delete", "create_command", "delete_command"}
    BY OperationsAssumption DEF OperationsAssumption
  <2> QED BY <2>3, <2>4, <2>5, <2>6 DEF Steps, sa, sp
<1>4. <<Step("add_settings"), Step("save_private"), Step("load_settings"), Step("reload"), Step("ready")>>
        \in Seq(Quiet)
  BY <1>2
<1>5. <<Step("load_private"), Step("load_settings"), Step("recreate_at_start"), Step("add_settings"),
        Step("save_private"), Step("reload"), Step("ready")>> \in Seq(Quiet)
  BY <1>2
<1>6. <<Step("load_settings"), Step("reset"), Step("reload"), Step("save")>> \in Seq(Quiet)
  BY <1>2
<1> QED BY <1>3, <1>4, <1>5, <1>6

DiskTyped == file \in [Configs -> Stored] /\ tmp \in [Configs -> Stored]
NamesTyped ==
    /\ private \in Configs \cup {"missing", "empty", "torn"}
    /\ current \in Configs \cup {NoConfig} /\ path \in Configs
SettingsTyped == global \in Contents /\ held \in Contents /\ restartModules \in BOOLEAN
SavesTyped ==
    /\ saving \in [settings: BOOLEAN, private: BOOLEAN]
    /\ job \in [Threads -> [path: Configs, content: Contents]]
    /\ writing \subseteq Threads
    /\ text \in [Threads -> Configs]
RunTyped ==
    /\ up \in {"down", "starting", "running"}
    /\ ops \in 0..MaxOps /\ crashes \in 0..MaxCrashes /\ faults \in 0..MaxFaults

LEMMA TypedParts ==
    TypedInv <=> /\ DiskTyped /\ NamesTyped /\ SettingsTyped /\ SavesTyped /\ RunTyped
                 /\ TodoTyped /\ \A t \in Threads : WritesAName(t)
<1>1. \A s \in Seq(Items) : s \in Seq(StepNames \X (Configs \cup {NoConfig}))
  BY DEF Items
<1>2. TodoTyped => todo \in [Threads -> Seq(StepNames \X (Configs \cup {NoConfig}))]
  BY <1>1 DEF TodoTyped
<1> QED BY <1>2 DEF TypedInv, TypeOK, DiskTyped, NamesTyped, SettingsTyped, SavesTyped, RunTyped

LEMMA TypedPartsNext ==
    TypedInv' <=> /\ DiskTyped' /\ NamesTyped' /\ SettingsTyped' /\ SavesTyped' /\ RunTyped'
                  /\ TodoTyped' /\ \A t \in Threads : WritesAName(t)'
<1>1. \A s \in Seq(Items) : s \in Seq(StepNames \X (Configs \cup {NoConfig}))
  BY DEF Items
<1>2. TodoTyped' => todo' \in [Threads -> Seq(StepNames \X (Configs \cup {NoConfig}))]
  BY <1>1 DEF TodoTyped
<1> QED BY <1>2 DEF TypedInv, TypeOK, DiskTyped, NamesTyped, SettingsTyped, SavesTyped, RunTyped

\* The names that are read from disk and taken from the user.
LEMMA AdvanceNames ==
    ASSUME TypedInv, NEW t \in Threads, Advance(t)
    PROVE  /\ NamesTyped'
           /\ current # NoConfig => current' # NoConfig
           /\ At(t, "select") \/ At(t, "remove") => Arg(t) \in Configs
           /\ At(t, "serialise") => current \in Configs
<1>1. NamesTyped /\ TodoTyped /\ WritesAName(t) /\ Head(todo[t]) \in Items /\ todo[t] # <<>>
  BY TypedParts, AdvanceTodo
<1>2. At(t, "select") \/ At(t, "remove") => Arg(t) \in Configs
  BY <1>1 DEF At, Arg, Items
<1>3. At(t, "serialise") => current \in Configs
  <2>1. Head(todo[t]) \in ToSet(todo[t])
    BY <1>1, HeadTailElements DEF TodoTyped
  <2> QED BY <1>1, <2>1 DEF At, WritesAName, Does, NamesTyped
<1>4. CASE UNCHANGED <<private, current, path>>
  BY <1>1, <1>2, <1>3, <1>4 DEF NamesTyped
<1>5. CASE TruncatePrivate(t) \/ AppendPrivate(t)
  <2>1. text[t] \in Configs
    BY TypedParts DEF SavesTyped
  <2> QED BY <1>1, <1>2, <1>3, <1>5, <2>1 DEF NamesTyped, TruncatePrivate, AppendPrivate, memory
<1>6. CASE LoadPrivate(t)
  BY <1>1, <1>2, <1>3, <1>6, DefaultAssumption DEF NamesTyped, LoadPrivate, disk, DefaultAssumption
<1>7. CASE Select(t) \/ AddSettings(t)
  BY <1>1, <1>2, <1>3, <1>7, DefaultAssumption DEF NamesTyped, Select, AddSettings, disk, DefaultAssumption
<1> QED BY <1>4, <1>5, <1>6, <1>7 DEF Advance, disk, memory,
   SaveSettings, Collect, OpenTemporary, WriteTemporary, Rename, Discard, SavePrivate,
     TruncatePrivate, Serialise, AppendPrivate, LoadPrivate, LoadSettings, Select, RemoveFile,
     RequestRestart, Reset, Reload, RecreateAtStart, AddSettings, Ready, OpenFails, DumpFails,
     RenameFails, PrivateRefused, AppendFails

LEMMA AdvanceDisk ==
    ASSUME TypedInv, NEW t \in Threads, Advance(t)
    PROVE  DiskTyped'
<1>1. /\ DiskTyped /\ SavesTyped
      /\ At(t, "select") \/ At(t, "remove") => Arg(t) \in Configs
  BY TypedParts, AdvanceNames
<1>2. job[t].path \in Configs /\ job[t].content \in Stored
  BY <1>1 DEF SavesTyped, Stored
<1>3. "missing" \in Stored /\ "empty" \in Stored /\ "torn" \in Stored
  BY DEF Stored, Contents
<1> HIDE DEF Stored
<1>4. \A x \in Stored, c \in Configs : /\ [tmp EXCEPT ![c] = x] \in [Configs -> Stored]
                                      /\ [file EXCEPT ![c] = x] \in [Configs -> Stored]
  BY <1>1 DEF DiskTyped
<1>5. CASE UNCHANGED <<file, tmp>>
  BY <1>1, <1>5 DEF DiskTyped
<1>6. CASE OpenTemporary(t)
  BY <1>1, <1>2, <1>3, <1>4, <1>6 DEF OpenTemporary, DiskTyped
<1>7. CASE WriteTemporary(t)
  BY <1>1, <1>2, <1>3, <1>4, <1>7 DEF WriteTemporary, DiskTyped
<1>8. CASE Rename(t)
  <2>1. tmp[job[t].path] \in Stored
    BY <1>1, <1>2 DEF DiskTyped
  <2> QED BY <1>1, <1>2, <1>3, <1>4, <1>8, <2>1 DEF Rename, DiskTyped
<1>9. CASE Discard(t)
  BY <1>1, <1>2, <1>3, <1>4, <1>9 DEF Discard, DiskTyped
<1>10. CASE Select(t)
  <2>1. At(t, "select") /\ Arg(t) \in Configs
    BY <1>1, <1>10 DEF Select
  <2>2. file[Arg(t)] \in Stored
    BY <1>1, <2>1 DEF DiskTyped
  <2> HIDE DEF Arg
  <2> QED BY <1>1, <1>3, <1>4, <1>10, <2>1, <2>2 DEF Select, DiskTyped
<1>11. CASE RemoveFile(t)
  <2>1. At(t, "remove") /\ Arg(t) \in Configs
    BY <1>1, <1>11 DEF RemoveFile
  <2> HIDE DEF Arg
  <2> QED BY <1>1, <1>3, <1>4, <1>11, <2>1 DEF RemoveFile, DiskTyped
<1> QED BY <1>5, <1>6, <1>7, <1>8, <1>9, <1>10, <1>11 DEF Advance, disk,
   SaveSettings, Collect, OpenTemporary, WriteTemporary, Rename, Discard, SavePrivate,
     TruncatePrivate, Serialise, AppendPrivate, LoadPrivate, LoadSettings, Select, RemoveFile,
     RequestRestart, Reset, Reload, RecreateAtStart, AddSettings, Ready, OpenFails, DumpFails,
     RenameFails, PrivateRefused, AppendFails

LEMMA AdvanceSettings ==
    ASSUME TypedInv, NEW t \in Threads, Advance(t)
    PROVE  SettingsTyped' /\ SavesTyped' /\ RunTyped'
<1>1. DiskTyped /\ NamesTyped /\ SettingsTyped /\ SavesTyped /\ RunTyped
  BY TypedParts
<1>2. SettingsTyped'
  <2>1. LoadSettings(t) => global' \in Contents
    <3>1. file[path] \in Stored /\ path \in Configs
      BY <1>1 DEF DiskTyped, NamesTyped
    <3> QED BY <1>1, <3>1 DEF LoadSettings, SettingsTyped, Stored, Contents
  <2>2. "mixed" \in Contents
    BY DEF Contents
  <2> HIDE DEF Contents
  <2> QED BY <1>1, <2>1, <2>2 DEF Advance, SettingsTyped, memory,
     SaveSettings, Collect, OpenTemporary, WriteTemporary, Rename, Discard, SavePrivate,
     TruncatePrivate, Serialise, AppendPrivate, LoadPrivate, LoadSettings, Select, RemoveFile,
     RequestRestart, Reset, Reload, RecreateAtStart, AddSettings, Ready, OpenFails, DumpFails,
     RenameFails, PrivateRefused, AppendFails
<1>3. SavesTyped'
  <2>1. [path |-> path, content |-> held] \in [path: Configs, content: Contents]
    BY <1>1 DEF NamesTyped, SettingsTyped
  <2>2. \A r \in [path: Configs, content: Contents] :
          [job EXCEPT ![t] = r] \in [Threads -> [path: Configs, content: Contents]]
    BY <1>1 DEF SavesTyped
  <2>3. \A b \in BOOLEAN : /\ [saving EXCEPT !.settings = b] \in [settings: BOOLEAN, private: BOOLEAN]
                           /\ [saving EXCEPT !.private = b] \in [settings: BOOLEAN, private: BOOLEAN]
    BY <1>1 DEF SavesTyped
  <2>4. saving' \in [settings: BOOLEAN, private: BOOLEAN]
    BY <1>1, <2>3 DEF Advance, SavesTyped, saves,
       SaveSettings, Collect, OpenTemporary, WriteTemporary, Rename, Discard, SavePrivate,
     TruncatePrivate, Serialise, AppendPrivate, LoadPrivate, LoadSettings, Select, RemoveFile,
     RequestRestart, Reset, Reload, RecreateAtStart, AddSettings, Ready, OpenFails, DumpFails,
     RenameFails, PrivateRefused, AppendFails
  <2>5. job' \in [Threads -> [path: Configs, content: Contents]]
    BY <1>1, <2>1, <2>2 DEF Advance, SavesTyped, saves,
       SaveSettings, Collect, OpenTemporary, WriteTemporary, Rename, Discard, SavePrivate,
     TruncatePrivate, Serialise, AppendPrivate, LoadPrivate, LoadSettings, Select, RemoveFile,
     RequestRestart, Reset, Reload, RecreateAtStart, AddSettings, Ready, OpenFails, DumpFails,
     RenameFails, PrivateRefused, AppendFails
  <2>6. writing' \subseteq Threads
    BY <1>1 DEF Advance, SavesTyped, saves,
       SaveSettings, Collect, OpenTemporary, WriteTemporary, Rename, Discard, SavePrivate,
     TruncatePrivate, Serialise, AppendPrivate, LoadPrivate, LoadSettings, Select, RemoveFile,
     RequestRestart, Reset, Reload, RecreateAtStart, AddSettings, Ready, OpenFails, DumpFails,
     RenameFails, PrivateRefused, AppendFails
  <2>7. text' \in [Threads -> Configs]
    <3>1. Serialise(t) => current \in Configs
      BY AdvanceNames DEF Serialise
    <3>2. \A c \in Configs : [text EXCEPT ![t] = c] \in [Threads -> Configs]
      BY <1>1 DEF SavesTyped
    <3>3. Default \in Configs
      BY DefaultAssumption DEF DefaultAssumption
    <3> QED BY <1>1, <3>1, <3>2, <3>3 DEF Advance, SavesTyped, saves,
       SaveSettings, Collect, OpenTemporary, WriteTemporary, Rename, Discard, SavePrivate,
     TruncatePrivate, Serialise, AppendPrivate, LoadPrivate, LoadSettings, Select, RemoveFile,
     RequestRestart, Reset, Reload, RecreateAtStart, AddSettings, Ready, OpenFails, DumpFails,
     RenameFails, PrivateRefused, AppendFails
  <2> QED BY <2>4, <2>5, <2>6,  <2>7 DEF SavesTyped
<1>4. RunTyped'
  BY <1>1, BoundAssumption DEF Advance, RunTyped, bounds, Fault, BoundAssumption,
     SaveSettings, Collect, OpenTemporary, WriteTemporary, Rename, Discard, SavePrivate,
     TruncatePrivate, Serialise, AppendPrivate, LoadPrivate, LoadSettings, Select, RemoveFile,
     RequestRestart, Reset, Reload, RecreateAtStart, AddSettings, Ready, OpenFails, DumpFails,
     RenameFails, PrivateRefused, AppendFails
<1> QED BY <1>2, <1>3, <1>4

LEMMA AdvanceWrites ==
    ASSUME TypedInv, NEW t \in Threads, Advance(t)
    PROVE  \A u \in Threads : WritesAName(u)'
<1>1. /\ TodoTyped /\ \A u \in Threads : WritesAName(u)
      /\ current # NoConfig => current' # NoConfig
  BY TypedParts, AdvanceNames
<1>2. \A u \in Threads \ {t} : WritesAName(u)'
  BY <1>1, AdvanceTodo DEF WritesAName, Does
<1> DEFINE k == Tail(todo[t])
<1>3. k \in Seq(Items) /\ ToSet(k) \subseteq ToSet(todo[t])
  BY <1>1, AdvanceTodo, HeadTailElements DEF TodoTyped
<1>4. CASE current # NoConfig
  BY <1>1, <1>2, <1>4 DEF WritesAName
<1>5. CASE current = NoConfig
  <2>1. ~Does(todo[t], "truncate") /\ ~Does(todo[t], "serialise")
    BY <1>1, <1>5 DEF WritesAName
  <2>2. ~Does(k, "truncate") /\ ~Does(k, "serialise")
    BY <1>3, <2>1 DEF Does
  <2>3. Head(todo[t]) \in ToSet(todo[t])
    BY <1>1, AdvanceTodo, HeadTailElements DEF TodoTyped
  <2>4. ~At(t, "truncate")
    BY <2>1, <2>3 DEF At, Does
  <2>5. ASSUME NEW p \in Onward, GoesOn(t, p)
        PROVE  ~Does(todo'[t], "truncate") /\ ~Does(todo'[t], "serialise")
    <3>1. p[2] \in {"collect", "open", "write", "rename", "discard", "append"}
      BY <1>5, <2>4, <2>5 DEF Onward, GoesOn
    <3>2. Step(p[2]) \in Items /\ Step(p[2])[1] = p[2]
      BY <3>1, StepItems DEF StepNames
    <3>3. ToSet(Then(Step(p[2]), k)) = {Step(p[2])} \cup ToSet(k)
      BY <1>3, <3>2, ThenFacts
    <3> QED BY <2>2, <2>5, <3>1, <3>2, <3>3 DEF Does, GoesOn
  <2>6. todo'[t] = k \/ \E p \in Onward : GoesOn(t, p)
    BY <1>1, AdvanceTodo
  <2>7. ~Does(todo'[t], "truncate") /\ ~Does(todo'[t], "serialise")
    BY <2>2, <2>5, <2>6
  <2> QED BY <1>2, <2>7 DEF WritesAName
<1> QED BY <1>4, <1>5

LEMMA AdvanceTyped ==
    ASSUME TypedInv, NEW t \in Threads, Advance(t)
    PROVE  TypedInv'
<1>1. DiskTyped' /\ NamesTyped' /\ SettingsTyped' /\ SavesTyped' /\ RunTyped'
  BY AdvanceDisk, AdvanceNames, AdvanceSettings
<1>2. TodoTyped'
  <2>1. TodoTyped
    BY TypedParts
  <2>2. PICK s \in Seq(Items) : todo' = [todo EXCEPT ![t] = s]
    BY <2>1, AdvanceTodo
  <2> QED BY <2>1, <2>2 DEF TodoTyped
<1>3. \A u \in Threads : WritesAName(u)'
  BY AdvanceWrites
<1> QED BY <1>1, <1>2, <1>3, TypedPartsNext

\* A thread that had nothing to do is given something.
LEMMA BegunTyped ==
    ASSUME TypedInv, NEW t \in Threads, NEW s \in Seq(Quiet), todo' = [todo EXCEPT ![t] = s],
           current' = current
    PROVE  TodoTyped' /\ \A u \in Threads : WritesAName(u)'
<1>1. TodoTyped /\ \A u \in Threads : WritesAName(u)
  BY TypedParts
<1>2. s \in Seq(Items) /\ ~Does(s, "truncate") /\ ~Does(s, "serialise")
  BY QuietSequences
<1>3. todo'[t] = s /\ \A u \in Threads \ {t} : todo'[u] = todo[u]
  BY <1>1 DEF TodoTyped
<1>4. TodoTyped'
  BY <1>1, <1>2 DEF TodoTyped
<1> QED BY <1>1, <1>2, <1>3, <1>4 DEF WritesAName

LEMMA NothingDone ==
    Done \in Seq(Items) /\ ToSet(Done) = {}
<1>1. Done \in Seq(Items)
  BY DEF Done
<1>2. DOMAIN Done = {}
  BY DEF Done
<1> QED BY <1>1, <1>2 DEF ToSet

LEMMA InitTyped == Init => TypedInv
<1> SUFFICES ASSUME Init PROVE TypedInv
  OBVIOUS
<1>1. DiskTyped /\ NamesTyped /\ SettingsTyped
  BY DefaultAssumption DEF Init, DiskTyped, NamesTyped, SettingsTyped, Stored, Contents, DefaultAssumption
<1>2. SavesTyped
  BY DefaultAssumption DEF Init, SavesTyped, NothingSaving, NoJobs, NoText, Contents, DefaultAssumption
<1>3. RunTyped
  BY BoundAssumption DEF Init, RunTyped, BoundAssumption
<1>4. TodoTyped
  BY NothingDone DEF Init, TodoTyped, Done
<1>5. \A t \in Threads : WritesAName(t)
  BY NothingDone DEF Init, WritesAName, Does, Done
<1> QED BY <1>1, <1>2, <1>3, <1>4, <1>5, TypedParts

LEMMA NextTyped == TypedInv /\ [Next]_vars => TypedInv'
<1> SUFFICES ASSUME TypedInv, [Next]_vars PROVE TypedInv'
  OBVIOUS
<1>0. /\ DiskTyped /\ NamesTyped /\ SettingsTyped /\ SavesTyped /\ RunTyped
      /\ TodoTyped /\ \A t \in Threads : WritesAName(t)
  BY TypedParts
<1>1. TypedInv' <=> /\ DiskTyped' /\ NamesTyped' /\ SettingsTyped' /\ SavesTyped' /\ RunTyped'
                    /\ TodoTyped' /\ \A t \in Threads : WritesAName(t)'
  BY TypedPartsNext
<1>2. CASE Start
  <2>1. DiskTyped' /\ NamesTyped' /\ SettingsTyped' /\ SavesTyped' /\ RunTyped'
    <3>1. DiskTyped'
      BY <1>0, <1>2, DefaultAssumption DEF Start, DiskTyped, Stored, DefaultAssumption
    <3> QED BY <1>0, <1>2, <3>1 DEF Start, NamesTyped, SettingsTyped, SavesTyped, RunTyped, memory, saves, bounds
  <2>2. \E s \in Seq(Quiet) : todo' = [todo EXCEPT !["init"] = s]
    BY <1>2, BegunQuiet DEF Start
  <2>3. "init" \in Threads /\ current' = current
    BY <1>2 DEF Start, Threads, memory
  <2>4. TodoTyped' /\ \A t \in Threads : WritesAName(t)'
    BY <2>2, <2>3, BegunTyped
  <2> QED BY <1>1, <2>1, <2>4
<1>3. CASE Crash
  <2>1. DiskTyped' /\ NamesTyped' /\ SettingsTyped'
    BY <1>0, <1>3, DefaultAssumption
       DEF Crash, DiskTyped, NamesTyped, SettingsTyped, Contents, disk, DefaultAssumption
  <2>2. SavesTyped' /\ RunTyped'
    <3>1. SavesTyped'
      BY <1>3, DefaultAssumption DEF Crash, SavesTyped, NothingSaving, NoJobs, NoText, Contents, DefaultAssumption
    <3> QED BY <1>0, <1>3, <3>1, BoundAssumption DEF Crash, RunTyped, BoundAssumption
  <2>3. todo' = [t \in Threads |-> Done]
    BY <1>3 DEF Crash, Done
  <2>4. TodoTyped' /\ \A t \in Threads : WritesAName(t)'
    BY <2>3, NothingDone DEF TodoTyped, WritesAName, Does
  <2> QED BY <1>1, <2>1, <2>2, <2>4
<1>4. CASE BeginRestart
  <2>1. DiskTyped' /\ NamesTyped' /\ SettingsTyped' /\ SavesTyped' /\ RunTyped'
    BY <1>0, <1>4
       DEF BeginRestart, DiskTyped, NamesTyped, SettingsTyped, SavesTyped, RunTyped, disk, saves, bounds
  <2>2. \E s \in Seq(Quiet) : todo' = [todo EXCEPT !["init"] = s]
    BY <1>4, BegunQuiet DEF BeginRestart
  <2>3. "init" \in Threads /\ current' = current
    BY <1>4 DEF BeginRestart, Threads
  <2>4. TodoTyped' /\ \A t \in Threads : WritesAName(t)'
    BY <2>2, <2>3, BegunTyped
  <2> QED BY <1>1, <2>1, <2>4
<1>5. CASE \E t \in Threads : Advance(t)
  BY <1>5, AdvanceTyped
<1>6. CASE \E op \in Operations, c \in Configs : Begin(op, c)
  <2>1. PICK op \in Operations, c \in Configs : Begin(op, c)
    BY <1>6
  <2>2. /\ up' = up /\ UNCHANGED <<disk, memory, saves, crashes, faults>> /\ ops < MaxOps /\ ops' = ops + 1
        /\ todo' = [todo EXCEPT ![ThreadOf(op)] = Steps(op, c)]
    BY <2>1 DEF Begin
  <2>3. DiskTyped' /\ NamesTyped' /\ SettingsTyped' /\ SavesTyped'
    BY <1>0, <2>2 DEF DiskTyped, NamesTyped, SettingsTyped, SavesTyped, disk, memory, saves
  <2>4. RunTyped'
    BY <1>0, <2>2, BoundAssumption DEF RunTyped, BoundAssumption
  <2>5. ThreadOf(op) \in Threads /\ Steps(op, c) \in Seq(Quiet)
    BY BegunQuiet DEF ThreadOf, Threads
  <2>6. current' = current
    BY <2>2 DEF memory
  <2>7. TodoTyped' /\ \A t \in Threads : WritesAName(t)'
    BY <2>2, <2>5, <2>6, BegunTyped
  <2> QED BY <1>1, <2>3, <2>4, <2>7
<1>7. CASE UNCHANGED vars
  BY <1>0, <1>1, <1>7 DEF vars, disk, memory, saves, bounds, DiskTyped, NamesTyped, SettingsTyped, SavesTyped,
     RunTyped, TodoTyped, WritesAName
<1> QED BY <1>2, <1>3, <1>4, <1>5, <1>6, <1>7 DEF Next

LEMMA AlwaysTyped == Spec => []TypedInv
BY InitTyped, NextTyped, PTL DEF Spec

\* Files hold settings or nothing, PRIVATE names a configuration only when it was
\* written with one, and threads make only the steps of the operations, whatever
\* they interleave and wherever the process dies.
THEOREM ConfigsTypeCorrect == Spec => []TypeOK
<1>1. TypedInv => TypeOK
  BY DEF TypedInv
<1> QED BY <1>1, AlwaysTyped, PTL
-----------------------------------------------------------------------------
(* Configurations, one operation at a time                                 *)

\* The commands are not used, and where the start needs a PRIVATE that can be read, the
\* process does not die while it is empty: without isGDK such a start goes on with the
\* defaults.
OneAtATime ==
    /\ TakeTurns
    /\ Operations \subseteq {"save", "reload", "switch", "create", "delete"}
    /\ GDK \/ ~PrivateCrash

\* What is left of the operations, of the restart and of the starts.
ToRestart == Then(Step("request_restart"), Done)
ToRemove(c) == Then(<<"remove", c>>, ToRestart)
ToLeave(c) == Then(Step("load_private"), ToRemove(c))
ToSwitch(c) == Then(<<"select", Default>>, Private(ToLeave(c)))
ToLoad == Then(Step("load_private"), ToRestart)
ToCreate(c) == Then(<<"select", c>>, Save(Private(ToLoad)))
ReloadSave == Then(Step("reload"), Save(Done))
ResetAll == Then(Step("reset"), ReloadSave)
RestartAll == Then(Step("load_settings"), ResetAll)
ToReady == Then(Step("ready"), Done)
ToReload == Then(Step("reload"), ToReady)
ToLoadSettings == Then(Step("load_settings"), ToReload)
FirstStart == Then(Step("add_settings"), Private(ToLoadSettings))
ToAdd == Then(Step("add_settings"), Private(ToReload))
ToRecreate == Then(Step("recreate_at_start"), ToAdd)
ToLoadAll == Then(Step("load_settings"), ToRecreate)
LaterStart == Then(Step("load_private"), ToLoadAll)

\* The disk is in order: it is left with an empty PRIVATE where the start insists on one,
\* and as long as nothing has failed, files hold their own settings and what is in use has one.
Kept ==
    /\ private \in Configs \cup {"missing", "empty"}
    /\ up = "down" /\ private = "empty" => GDK
    /\ faults = 0 => /\ \A c \in Configs : file[c] \in {"missing", "empty", c}
                     /\ private \in Configs => file[private] # "missing"
                     /\ current \in Configs => file[current] # "missing"
                     /\ up # "down" => file[Default] # "missing"

Named == current \in Configs /\ private # "missing"
Agreed == faults = 0 => path = current
Same == Named /\ Agreed /\ (faults = 0 => private = current)

\* Settings that a save may write to path: no others than those that are there.
Harmless(x) == (file[path] = path => x = path) /\ (faults = 0 => x = path)
NothingUnderWay == ~saving.settings /\ ~saving.private /\ writing = {}

\* saveSettings before k: what it writes is harmless.
AfterSave(k) ==
    \/ k \in {Done, Private(Done)} /\ Same
    \/ k = Private(ToLoad) /\ Named
InSave(t, k) ==
    /\ AfterSave(k) /\ up = "running" /\ Harmless(held) /\ ~saving.private
    /\ \/ todo[t] \in {Save(k), Collecting(k)} /\ NothingUnderWay
       \/ /\ job[t] = [path |-> path, content |-> held]
          /\ \/ todo[t] = Opening(k) /\ writing = {}
             \/ todo[t] = Writing(k) /\ tmp[path] = "empty" /\ writing = {t}
             \/ todo[t] = Renaming(k) /\ tmp[path] = held /\ writing = {}
             \/ todo[t] = Discarding(k) /\ writing = {}

\* savePrivate before k: what follows needs no more than that PRIVATE names what is
\* in use, unless something failed.
AfterPrivate(k) ==
    /\ Named
    /\ \/ k = Done /\ up = "running" /\ Agreed /\ Harmless(held)
       \/ k = ToLoadSettings /\ up = "starting" /\ Agreed
       \/ k = ToReload /\ up = "starting" /\ Agreed /\ Harmless(global)
       \/ k = ToLoad /\ up = "running"
       \/ \E c \in Configs \ {Default} : k = ToLeave(c) /\ up = "running" /\ current = Default
InPrivate(t, k) ==
    /\ AfterPrivate(k) /\ ~saving.settings /\ writing = {}
    /\ \/ todo[t] \in {Private(k), Truncating(k)} /\ ~saving.private
       \/ todo[t] = Serialising(k) /\ private = "empty"
       \/ todo[t] = Appending(k) /\ private = "empty" /\ text[t] = current

\* Between them: switchConfig, createConfig, deleteConfig and the restart they ask for.
Recorded == Named /\ (faults = 0 => private = current)
InUsing(t) ==
    /\ NothingUnderWay /\ up = "running"
    /\ \/ todo[t] = ToRestart /\ Same
       \/ todo[t] = ToLoad /\ Recorded
       \/ \E c \in Configs : todo[t] = ToCreate(c) /\ Named /\ Harmless(held)
       \/ \E c \in Configs \ {Default} :
            \/ todo[t] = ToSwitch(c) /\ Named
            \/ todo[t] = ToLeave(c) /\ Recorded /\ (faults = 0 => current = Default)
            \/ todo[t] = ToRemove(c) /\ Same /\ (faults = 0 => current = Default)
InRestart(t) ==
    /\ NothingUnderWay /\ up = "running" /\ Same
    /\ \/ todo[t] = RestartAll
       \/ todo[t] \in {ResetAll, ReloadSave} /\ Harmless(global)

\* A start that has found PRIVATE empty goes no further than to recreate_at_start.
Lost == current = NoConfig /\ private = "empty" /\ GDK
InStart(t) ==
    /\ NothingUnderWay /\ up = "starting"
    /\ \/ todo[t] = FirstStart /\ private = "empty" /\ current = NoConfig /\ path = Default
       \/ todo[t] = LaterStart /\ private \in Configs
       \/ todo[t] \in {LaterStart, ToLoadAll, ToRecreate} /\ Lost
       \/ todo[t] \in {ToLoadAll, ToLoadSettings} /\ Same
       \/ todo[t] \in {ToRecreate, ToAdd, ToReload} /\ Same /\ Harmless(global)
       \/ todo[t] = ToReady /\ Same /\ Harmless(held)

Resting ==
    /\ NothingUnderWay /\ \A t \in Threads : todo[t] = Done
    /\ \/ up = "down" /\ current = NoConfig /\ path = Default /\ ~restartModules
       \/ up = "running" /\ Same /\ (restartModules \/ Harmless(held))
Placed(t) ==
    \/ \E k \in Seq(Items) : InSave(t, k)
    \/ \E k \in Seq(Items) : InPrivate(t, k)
    \/ InUsing(t) \/ InRestart(t) \/ InStart(t)
Acting(t) == ~restartModules /\ (\A u \in Threads \ {t} : todo[u] = Done) /\ Placed(t)

OneInv == TypedInv /\ Kept /\ (Resting \/ \E t \in Threads : Acting(t))

LEMMA FrontOf ==
    ASSUME NEW t \in Threads, NEW x \in Items, NEW k \in Seq(Items), todo[t] = Then(x, k)
    PROVE  /\ todo[t] # <<>> /\ Head(todo[t]) = x /\ Tail(todo[t]) = k /\ Arg(t) = x[2]
           /\ \A n : At(t, n) <=> n = x[1]
<1>1. Then(x, k) # <<>> /\ Head(Then(x, k)) = x /\ Tail(Then(x, k)) = k
  BY ThenFacts
<1> QED BY <1>1 DEF At, Arg

LEMMA Proceeds ==
    ASSUME TodoTyped, NEW t \in Threads
    PROVE  /\ Proceed(t) => todo'[t] = Tail(todo[t])
           /\ \A n : GoOn(t, n) => todo'[t] = Then(Step(n), Tail(todo[t]))
BY DEF TodoTyped, Proceed, GoOn, Then

\* Everything a thread has still to do is a sequence of steps.
LEMMA PlacesTyped ==
    /\ Done \in Seq(Items) /\ ToRestart \in Seq(Items) /\ ToLoad \in Seq(Items) /\ ReloadSave \in Seq(Items)
    /\ ResetAll \in Seq(Items) /\ RestartAll \in Seq(Items) /\ ToReady \in Seq(Items)
    /\ ToReload \in Seq(Items) /\ ToLoadSettings \in Seq(Items) /\ FirstStart \in Seq(Items)
    /\ ToAdd \in Seq(Items) /\ ToRecreate \in Seq(Items) /\ ToLoadAll \in Seq(Items)
    /\ LaterStart \in Seq(Items)
    /\ \A k \in Seq(Items) : Save(k) \in Seq(Items) /\ Private(k) \in Seq(Items)
    /\ \A c \in Configs : ToRemove(c) \in Seq(Items) /\ ToLeave(c) \in Seq(Items)
<1> DEFINE P(n, k) == Then(Step(n), k)
<1>1. \A n \in StepNames \ {"select", "remove"}, k \in Seq(Items) : P(n, k) \in Seq(Items)
  BY StepItems, ThenFacts
<1>2. \A n \in {"save", "save_private", "load_private", "load_settings", "reset", "reload", "ready",
                "add_settings", "recreate_at_start", "request_restart"} :
        \A k \in Seq(Items) : P(n, k) \in Seq(Items)
  BY <1>1 DEF StepNames
<1>3. \A k \in Seq(Items) : Save(k) = P("save", k) /\ Private(k) = P("save_private", k)
  BY DEF Save, Private
<1>4. /\ ToRestart = P("request_restart", Done) /\ ToLoad = P("load_private", ToRestart)
      /\ ReloadSave = P("reload", Save(Done)) /\ ResetAll = P("reset", ReloadSave)
      /\ RestartAll = P("load_settings", ResetAll) /\ ToReady = P("ready", Done)
      /\ ToReload = P("reload", ToReady) /\ ToLoadSettings = P("load_settings", ToReload)
      /\ FirstStart = P("add_settings", Private(ToLoadSettings))
      /\ ToAdd = P("add_settings", Private(ToReload)) /\ ToRecreate = P("recreate_at_start", ToAdd)
      /\ ToLoadAll = P("load_settings", ToRecreate) /\ LaterStart = P("load_private", ToLoadAll)
      /\ \A c : ToLeave(c) = P("load_private", ToRemove(c))
  BY DEF ToRestart, ToLoad, ReloadSave, ResetAll, RestartAll, ToReady, ToReload, ToLoadSettings,
     FirstStart, ToAdd, ToRecreate, ToLoadAll, LaterStart, ToLeave
<1>5. Done \in Seq(Items)
  BY NothingDone
<1> HIDE DEF P
<1>6. \A k \in Seq(Items) : Save(k) \in Seq(Items) /\ Private(k) \in Seq(Items)
  BY <1>2, <1>3
<1>7. ToRestart \in Seq(Items) /\ ToReady \in Seq(Items) /\ ReloadSave \in Seq(Items)
  BY <1>2, <1>4, <1>5, <1>6
<1>8. ToLoad \in Seq(Items) /\ ToReload \in Seq(Items) /\ ResetAll \in Seq(Items)
  BY <1>2, <1>4, <1>7
<1>9. ToLoadSettings \in Seq(Items) /\ RestartAll \in Seq(Items) /\ ToAdd \in Seq(Items)
  BY <1>2, <1>4, <1>6, <1>8
<1>10. FirstStart \in Seq(Items) /\ ToRecreate \in Seq(Items)
  BY <1>2, <1>4, <1>6, <1>9
<1>11. ToLoadAll \in Seq(Items)
  BY <1>2, <1>4, <1>10
<1>12. LaterStart \in Seq(Items)
  BY <1>2, <1>4, <1>11
<1>13. \A c \in Configs : ToRemove(c) \in Seq(Items)
  BY <1>7, StepItems, ThenFacts DEF ToRemove
<1>14. \A c \in Configs : ToLeave(c) \in Seq(Items)
  BY <1>2, <1>4, <1>13
<1> QED BY <1>5, <1>6, <1>7, <1>8, <1>9, <1>10, <1>11, <1>12, <1>13, <1>14

\* The step at the front is the one that is made.
LEMMA NextStep ==
    ASSUME TodoTyped, NEW t \in Threads, Advance(t),
           NEW n \in StepNames \ {"select", "remove"}, NEW k \in Seq(Items), todo[t] = Then(Step(n), k)
    PROVE  /\ At(t, n) /\ (Proceed(t) => todo'[t] = k)
           /\ \A m : GoOn(t, m) => todo'[t] = Then(Step(m), k)
<1>1. Step(n) \in Items /\ Step(n)[1] = n
  BY StepItems
<1>2. At(t, n) /\ Tail(todo[t]) = k
  BY <1>1, FrontOf
<1> QED BY <1>2, Proceeds

\* The steps that are told a configuration.
LEMMA NextChosen ==
    ASSUME TodoTyped, NEW t \in Threads, Advance(t),
           NEW n \in {"select", "remove"}, NEW c \in Configs, NEW k \in Seq(Items),
           todo[t] = Then(<<n, c>>, k)
    PROVE  At(t, n) /\ Arg(t) = c /\ (Proceed(t) => todo'[t] = k)
<1> DEFINE x == <<n, c>>
<1>1. x \in Items /\ x[1] = n /\ x[2] = c /\ todo[t] = Then(x, k)
  BY StepItems DEF Items, StepNames
<1> HIDE DEF x
<1>2. At(t, n) /\ Arg(t) = c /\ Tail(todo[t]) = k
  BY <1>1, FrontOf
<1> QED BY <1>2, Proceeds

\* What fails is remembered.
LEMMA FaultCounts ==
    ASSUME TypedInv, Fault
    PROVE  faults' # 0
BY TypedParts, BoundAssumption DEF Fault, RunTyped, BoundAssumption

\* saveSettings writes to path what is harmless there, or gives up.
LEMMA SaveStep ==
    ASSUME OneInv, NEW t \in Threads, NEW k \in Seq(Items), InSave(t, k), Advance(t)
    PROVE  /\ Kept' /\ restartModules' = restartModules
           /\ \/ InSave(t, k)'
              \/ /\ todo'[t] = k /\ AfterSave(k)' /\ NothingUnderWay'
                 /\ up' = "running" /\ Harmless(held)'
<1>1. /\ TodoTyped /\ TypedInv /\ Kept /\ SavesTyped /\ DiskTyped /\ path \in Configs /\ held \in Contents
      /\ AfterSave(k) /\ up = "running" /\ Harmless(held) /\ ~saving.private
  BY TypedParts DEF OneInv, NamesTyped, SettingsTyped, InSave
<1>2. {"missing", "empty", "torn"} \cap Configs = {} /\ held # "missing"
  BY <1>1, NamesAssumption DEF NamesAssumption, Contents
<1>3. \A n \in {"save", "collect", "open", "write", "rename", "discard"} : n \in StepNames \ {"select", "remove"}
  BY DEF StepNames
<1>4. ASSUME UNCHANGED <<file, private, up, memory>>, faults' = faults \/ faults' # 0
      PROVE  /\ AfterSave(k)' /\ up' = "running" /\ Harmless(held)' /\ restartModules' = restartModules
             /\ path' = path /\ held' = held /\ Kept'
  BY <1>1, <1>4 DEF AfterSave, Same, Named, Agreed, Harmless, Kept, memory
<1>5. CASE todo[t] = Save(k) /\ NothingUnderWay
  <2>1. At(t, "save") /\ \A m : GoOn(t, m) => todo'[t] = Then(Step(m), k)
    BY <1>1, <1>3, <1>5, NextStep DEF Save
  <2>2. SaveSettings(t)
    BY <2>1, Dispatch
  <2>3. UNCHANGED <<file, private, up, memory, saving, writing, faults>> /\ GoOn(t, "collect")
    BY <1>5, <2>2 DEF SaveSettings, disk, saves, bounds, NothingUnderWay
  <2>4. todo'[t] = Collecting(k)
    BY <2>1, <2>3 DEF Collecting
  <2> QED BY <1>4, <1>5, <2>3, <2>4 DEF InSave, NothingUnderWay
<1>6. CASE todo[t] = Collecting(k) /\ NothingUnderWay
  <2>1. At(t, "collect") /\ \A m : GoOn(t, m) => todo'[t] = Then(Step(m), k)
    BY <1>1, <1>3, <1>6, NextStep DEF Collecting
  <2>2. Collect(t)
    BY <2>1, Dispatch
  <2>3. UNCHANGED <<file, private, up, memory, writing, faults>> /\ GoOn(t, "open")
    BY <2>2 DEF Collect, disk, bounds
  <2>4. job'[t] = [path |-> path, content |-> held]
    BY <1>1, <2>2 DEF Collect, SavesTyped
  <2>5. saving'.private = saving.private
    BY <1>1, <2>2 DEF Collect, SavesTyped
  <2>6. todo'[t] = Opening(k)
    BY <2>1, <2>3 DEF Opening
  <2> QED BY <1>1, <1>4, <1>6, <2>3, <2>4, <2>5, <2>6 DEF InSave, NothingUnderWay
<1>7. CASE todo[t] = Opening(k) /\ writing = {} /\ job[t] = [path |-> path, content |-> held]
  <2>1. /\ At(t, "open") /\ (Proceed(t) => todo'[t] = k)
        /\ \A m : GoOn(t, m) => todo'[t] = Then(Step(m), k)
    BY <1>1, <1>3, <1>7, NextStep DEF Opening
  <2>2. CASE OpenTemporary(t)
    <3>1. UNCHANGED <<file, private, up, memory, saving, job, faults>> /\ GoOn(t, "write")
      BY <2>2 DEF OpenTemporary, bounds
    <3>2. writing' = {t} /\ todo'[t] = Writing(k)
      BY <1>7, <2>1, <2>2, <3>1 DEF OpenTemporary, Writing
    <3>3. tmp'[path] = "empty"
      BY <1>1, <1>7, <2>2 DEF OpenTemporary, DiskTyped
    <3> QED BY <1>1, <1>4, <1>7, <3>1, <3>2, <3>3 DEF InSave
  <2>3. CASE OpenFails(t)
    <3>1. UNCHANGED <<file, private, up, memory, writing>> /\ todo'[t] = k /\ Fault
      BY <2>1, <2>3 DEF OpenFails, disk
    <3>2. saving'.private = saving.private /\ saving'.settings = FALSE
      BY <1>1, <2>3 DEF OpenFails, SavesTyped
    <3>3. faults' # 0
      BY <1>1, <3>1, FaultCounts
    <3> QED BY <1>1, <1>4, <1>7, <3>1, <3>2, <3>3 DEF NothingUnderWay
  <2> QED BY <2>1, <2>2, <2>3, Dispatch
<1>8. CASE todo[t] = Writing(k) /\ tmp[path] = "empty" /\ writing = {t}
           /\ job[t] = [path |-> path, content |-> held]
  <2>1. /\ At(t, "write") /\ (Proceed(t) => todo'[t] = k)
        /\ \A m : GoOn(t, m) => todo'[t] = Then(Step(m), k)
    BY <1>1, <1>3, <1>8, NextStep DEF Writing
  <2>2. CASE WriteTemporary(t)
    <3>1. UNCHANGED <<file, private, up, memory, saving, job, faults>> /\ GoOn(t, "rename")
      BY <2>2 DEF WriteTemporary, bounds
    <3>2. writing' = {} /\ todo'[t] = Renaming(k)
      BY <1>8, <2>1, <2>2, <3>1 DEF WriteTemporary, Renaming
    <3>3. tmp'[path] = held
      BY <1>1, <1>8, <2>2 DEF WriteTemporary, DiskTyped
    <3> QED BY <1>1, <1>4, <1>8, <3>1, <3>2, <3>3 DEF InSave
  <2>3. CASE DumpFails(t)
    <3>1. UNCHANGED <<file, private, up, memory>> /\ writing' = {} /\ todo'[t] = k /\ Fault
      BY <1>8, <2>1, <2>3 DEF DumpFails, disk
    <3>2. saving'.private = saving.private /\ saving'.settings = FALSE
      BY <1>1, <2>3 DEF DumpFails, SavesTyped
    <3>3. faults' # 0
      BY <1>1, <3>1, FaultCounts
    <3> QED BY <1>1, <1>4, <3>1, <3>2, <3>3 DEF NothingUnderWay
  <2> QED BY <2>1, <2>2, <2>3, Dispatch
<1>9. CASE todo[t] = Renaming(k) /\ tmp[path] = held /\ writing = {}
           /\ job[t] = [path |-> path, content |-> held]
  <2>1. /\ At(t, "rename") /\ (Proceed(t) => todo'[t] = k)
        /\ \A m : GoOn(t, m) => todo'[t] = Then(Step(m), k)
    BY <1>1, <1>3, <1>9, NextStep DEF Renaming
  <2>2. CASE Rename(t)
    <3>1. tmp[path] # "missing" /\ ~InUse(path)
      BY <1>1, <1>2, <1>9 DEF InUse
    <3>2. /\ file' = [file EXCEPT ![path] = held]
          /\ saving' = [saving EXCEPT !.settings = FALSE]
          /\ Proceed(t) /\ UNCHANGED <<private, up, memory, job, writing, faults>>
      BY <1>9, <2>2, <3>1 DEF Rename, bounds
    <3>3. NothingUnderWay'
      <4>1. saving'.private = saving.private /\ saving'.settings = FALSE
        BY <1>1, <3>2 DEF SavesTyped
      <4> QED BY <1>1, <1>9, <3>2, <4>1 DEF NothingUnderWay
    <3>4. file'[path] = held /\ \A c \in Configs \ {path} : file'[c] = file[c]
      BY <1>1, <3>2 DEF DiskTyped
    <3>5. Kept'
      BY <1>1, <1>2, <3>2, <3>4 DEF Kept, Harmless, memory
    <3>6. AfterSave(k)' /\ Harmless(held)' /\ up' = "running" /\ restartModules' = restartModules
      BY <1>1, <3>2, <3>4 DEF AfterSave, Same, Named, Agreed, Harmless, memory
    <3> QED BY <2>1, <3>2, <3>3, <3>5, <3>6
  <2>3. CASE RenameFails(t)
    <3>1. UNCHANGED <<file, private, up, memory, saving, job, writing>> /\ GoOn(t, "discard") /\ Fault
      BY <2>3 DEF RenameFails, disk, saves
    <3>2. todo'[t] = Discarding(k)
      BY <2>1, <3>1 DEF Discarding
    <3>3. faults' # 0
      BY <1>1, <3>1, FaultCounts
    <3> QED BY <1>1, <1>4, <1>9, <3>1, <3>2, <3>3 DEF InSave
  <2> QED BY <2>1, <2>2, <2>3, Dispatch
<1>10. CASE todo[t] = Discarding(k) /\ writing = {}
  <2>1. At(t, "discard") /\ (Proceed(t) => todo'[t] = k)
    BY <1>1, <1>3, <1>10, NextStep DEF Discarding
  <2>2. Discard(t)
    BY <2>1, Dispatch
  <2>3. UNCHANGED <<file, private, up, memory, writing, faults>> /\ todo'[t] = k
    BY <2>1, <2>2 DEF Discard, bounds
  <2>4. saving'.private = saving.private /\ saving'.settings = FALSE
    BY <1>1, <2>2 DEF Discard, SavesTyped
  <2> QED BY <1>1, <1>4, <1>10, <2>3, <2>4 DEF NothingUnderWay
<1> QED BY <1>5, <1>6, <1>7, <1>8, <1>9, <1>10 DEF InSave

\* savePrivate makes PRIVATE name the configuration in use, or gives up.
LEMMA PrivateStep ==
    ASSUME OneInv, NEW t \in Threads, NEW k \in Seq(Items), InPrivate(t, k), Advance(t)
    PROVE  /\ Kept' /\ restartModules' = restartModules
           /\ \/ InPrivate(t, k)'
              \/ todo'[t] = k /\ AfterPrivate(k)' /\ NothingUnderWay' /\ Recorded'
<1>1. /\ TodoTyped /\ TypedInv /\ Kept /\ SavesTyped /\ AfterPrivate(k) /\ Named
      /\ ~saving.settings /\ writing = {}
  BY TypedParts DEF OneInv, InPrivate, AfterPrivate
<1>2. {"missing", "empty", "torn"} \cap Configs = {} /\ NoConfig \notin Configs
  BY NamesAssumption, DefaultAssumption DEF NamesAssumption, DefaultAssumption
<1>3. \A n \in {"save_private", "truncate", "serialise", "append"} : n \in StepNames \ {"select", "remove"}
  BY DEF StepNames
<1>4. up # "down" /\ private # "missing" /\ current \in Configs
  BY <1>1 DEF AfterPrivate, Named
<1>5. ASSUME UNCHANGED <<file, up, memory>>, private' \in {private, current, "empty"},
             faults' = faults \/ faults' # 0
      PROVE  Kept' /\ AfterPrivate(k)' /\ restartModules' = restartModules /\ current' = current /\ Named'
  <2>1. UNCHANGED <<file, up, current, path, held, global, restartModules>>
    BY <1>5 DEF memory
  <2>2. private' \in Configs \cup {"empty"}
    BY <1>1, <1>4, <1>5 DEF Kept
  <2>3. Kept'
    BY <1>1, <1>2, <1>4, <1>5, <2>1, <2>2 DEF Kept
  <2>4. Named'
    BY <1>2, <1>4, <2>1, <2>2 DEF Named
  <2>5. AfterPrivate(k)'
    BY <1>1, <1>5, <2>1, <2>4 DEF AfterPrivate, Agreed, Harmless
  <2> QED BY <2>1, <2>3, <2>4, <2>5
<1>6. ASSUME UNCHANGED <<disk, up, memory, writing>>, Fault, saving' = [saving EXCEPT !.private = FALSE],
             todo'[t] = k
      PROVE  /\ Kept' /\ restartModules' = restartModules
             /\ AfterPrivate(k)' /\ NothingUnderWay' /\ Recorded'
  <2>1. faults' # 0
    BY <1>1, <1>6, FaultCounts
  <2>2. saving'.settings = saving.settings /\ saving'.private = FALSE
    BY <1>1, <1>6 DEF SavesTyped
  <2>3. UNCHANGED <<file, private, up, memory>>
    BY <1>6 DEF disk
  <2> QED BY <1>1, <1>5, <1>6, <2>1, <2>2, <2>3 DEF NothingUnderWay, Recorded
<1>7. CASE todo[t] = Private(k) /\ ~saving.private
  <2>1. At(t, "save_private") /\ \A m : GoOn(t, m) => todo'[t] = Then(Step(m), k)
    BY <1>1, <1>3, <1>7, NextStep DEF Private
  <2>2. SavePrivate(t)
    BY <2>1, Dispatch
  <2>3. UNCHANGED <<file, up, memory, saving, writing, private, faults>> /\ GoOn(t, "truncate")
    BY <1>2, <1>4, <1>7, <2>2 DEF SavePrivate, disk, saves, bounds
  <2>4. todo'[t] = Truncating(k)
    BY <2>1, <2>3 DEF Truncating
  <2> QED BY <1>1, <1>5, <1>7, <2>3, <2>4 DEF InPrivate
<1>8. CASE todo[t] = Truncating(k) /\ ~saving.private
  <2>1. /\ At(t, "truncate") /\ (Proceed(t) => todo'[t] = k)
        /\ \A m : GoOn(t, m) => todo'[t] = Then(Step(m), k)
    BY <1>1, <1>3, <1>8, NextStep DEF Truncating
  <2>2. CASE TruncatePrivate(t)
    <3>1. UNCHANGED <<file, up, memory, writing, faults>> /\ private' = "empty" /\ GoOn(t, "serialise")
      BY <2>2 DEF TruncatePrivate, bounds
    <3>2. todo'[t] = Serialising(k)
      BY <2>1, <3>1 DEF Serialising
    <3>3. saving'.settings = saving.settings
      BY <1>1, <2>2 DEF TruncatePrivate, SavesTyped
    <3> QED BY <1>1, <1>5, <3>1, <3>2, <3>3 DEF InPrivate
  <2>3. CASE PrivateRefused(t)
    <3>1. /\ UNCHANGED <<disk, up, memory, writing>> /\ Fault /\ todo'[t] = k
          /\ saving' = [saving EXCEPT !.private = FALSE]
      BY <2>1, <2>3 DEF PrivateRefused
    <3> QED BY <1>6, <3>1
  <2> QED BY <2>1, <2>2, <2>3, Dispatch
<1>9. CASE todo[t] = Serialising(k) /\ private = "empty"
  <2>1. At(t, "serialise") /\ \A m : GoOn(t, m) => todo'[t] = Then(Step(m), k)
    BY <1>1, <1>3, <1>9, NextStep DEF Serialising
  <2>2. Serialise(t)
    BY <2>1, Dispatch
  <2>3. UNCHANGED <<file, private, up, memory, saving, writing, faults>> /\ GoOn(t, "append")
    BY <2>2 DEF Serialise, disk, bounds
  <2>4. text'[t] = current
    BY <1>1, <2>2 DEF Serialise, SavesTyped
  <2>5. todo'[t] = Appending(k)
    BY <2>1, <2>3 DEF Appending
  <2> QED BY <1>1, <1>5, <1>9, <2>3, <2>4, <2>5 DEF InPrivate
<1>10. CASE todo[t] = Appending(k) /\ private = "empty" /\ text[t] = current
  <2>1. At(t, "append") /\ (Proceed(t) => todo'[t] = k)
    BY <1>1, <1>3, <1>10, NextStep DEF Appending
  <2>2. CASE AppendPrivate(t)
    <3>1. UNCHANGED <<file, up, memory, writing, faults>> /\ private' = current /\ todo'[t] = k
      BY <1>10, <2>1, <2>2 DEF AppendPrivate, bounds
    <3>2. saving' = [saving EXCEPT !.private = FALSE]
      BY <2>2 DEF AppendPrivate
    <3>3. saving'.settings = saving.settings /\ saving'.private = FALSE
      BY <1>1, <3>2 DEF SavesTyped
    <3>4. Kept' /\ AfterPrivate(k)' /\ restartModules' = restartModules /\ current' = current /\ Named'
      BY <1>5, <3>1
    <3> QED BY <1>1, <3>1, <3>3, <3>4 DEF NothingUnderWay, Recorded
  <2>3. CASE AppendFails(t)
    <3>1. /\ UNCHANGED <<disk, up, memory, writing>> /\ Fault /\ todo'[t] = k
          /\ saving' = [saving EXCEPT !.private = FALSE]
      BY <2>1, <2>3 DEF AppendFails
    <3> QED BY <1>6, <3>1
  <2> QED BY <2>1, <2>2, <2>3, Dispatch
<1> QED BY <1>7, <1>8, <1>9, <1>10 DEF InPrivate

\* Where saveSettings and savePrivate lead to.
LEMMA SaveLeadsNext ==
    ASSUME NEW t \in Threads, NEW k, todo'[t] = k, AfterSave(k)', NothingUnderWay',
           up' = "running", Harmless(held)'
    PROVE  Placed(t)' \/ (k = Done /\ Same')
<1>1. Done \in Seq(Items) /\ ToLoad \in Seq(Items)
  BY PlacesTyped
<1>2. CASE k = Done /\ Same'
  BY <1>2
<1>3. CASE k = Private(Done) /\ Same'
  <2>1. InPrivate(t, Done)'
    BY <1>3 DEF InPrivate, AfterPrivate, Same, NothingUnderWay
  <2> QED BY <1>1, <2>1 DEF Placed
<1>4. CASE k = Private(ToLoad) /\ Named'
  <2>1. InPrivate(t, ToLoad)'
    BY <1>4 DEF InPrivate, AfterPrivate, NothingUnderWay
  <2> QED BY <1>1, <2>1 DEF Placed
<1> QED BY <1>2, <1>3, <1>4 DEF AfterSave

LEMMA PrivateLeadsNext ==
    ASSUME NEW t \in Threads, NEW k, todo'[t] = k, AfterPrivate(k)', NothingUnderWay', Recorded'
    PROVE  Placed(t)' \/ (k = Done /\ Same' /\ up' = "running" /\ Harmless(held)')
BY DEF AfterPrivate, Placed, InUsing, InStart, Named, Same, Recorded

\* switchConfig, createConfig and deleteConfig between what they save.
LEMMA UsingStep ==
    ASSUME OneInv, NEW t \in Threads, InUsing(t), Advance(t)
    PROVE  /\ Kept'
           /\ \/ restartModules' = restartModules /\ Placed(t)'
              \/ todo'[t] = Done /\ NothingUnderWay' /\ up' = "running" /\ Same' /\ restartModules'
<1>1. /\ TodoTyped /\ Kept /\ DiskTyped /\ path \in Configs /\ NothingUnderWay /\ up = "running"
  BY TypedParts DEF OneInv, NamesTyped, InUsing
<1>2. {"missing", "empty", "torn"} \cap Configs = {} /\ NoConfig \notin Configs /\ Default \in Configs
  BY NamesAssumption, DefaultAssumption DEF NamesAssumption, DefaultAssumption
<1>3. /\ Done \in Seq(Items) /\ ToRestart \in Seq(Items) /\ ToLoad \in Seq(Items)
      /\ \A k \in Seq(Items) : Save(k) \in Seq(Items) /\ Private(k) \in Seq(Items)
      /\ \A c \in Configs : ToLeave(c) \in Seq(Items) /\ ToRemove(c) \in Seq(Items)
  BY PlacesTyped
<1>4. \A n \in {"request_restart", "load_private"} : n \in StepNames \ {"select", "remove"}
  BY DEF StepNames
<1>5. UNCHANGED saves => NothingUnderWay'
  BY <1>1 DEF NothingUnderWay, saves
<1>6. CASE todo[t] = ToRestart /\ Same
  <2>1. At(t, "request_restart") /\ (Proceed(t) => todo'[t] = Done)
    BY <1>1, <1>3, <1>4, <1>6, NextStep DEF ToRestart
  <2>2. RequestRestart(t)
    BY <2>1, Dispatch
  <2>3. /\ UNCHANGED <<disk, up, current, path, saves, faults>> /\ restartModules' = TRUE /\ todo'[t] = Done
    BY <2>1, <2>2 DEF RequestRestart, bounds
  <2>4. Kept' /\ Same'
    BY <1>1, <1>6, <2>3 DEF Kept, Same, Named, Agreed, disk
  <2> QED BY <1>1, <1>5, <2>3, <2>4
<1>7. CASE todo[t] = ToLoad /\ Recorded
  <2>1. At(t, "load_private") /\ (Proceed(t) => todo'[t] = ToRestart)
    BY <1>1, <1>3, <1>4, <1>7, NextStep DEF ToLoad
  <2>2. LoadPrivate(t)
    BY <2>1, Dispatch
  <2>3. UNCHANGED <<disk, up, restartModules, saves, faults>> /\ todo'[t] = ToRestart
    BY <2>1, <2>2 DEF LoadPrivate, bounds
  <2>4. /\ current' = IF private \in Configs THEN private ELSE current
        /\ path' = IF private \in Configs \cup {"torn"} /\ current' # NoConfig THEN current' ELSE path
    BY <2>2 DEF LoadPrivate
  <2>5. Kept' /\ Same'
    BY <1>1, <1>2, <1>7, <2>3, <2>4 DEF Kept, Same, Named, Agreed, Recorded, disk
  <2> QED BY <1>1, <1>5, <2>3, <2>5 DEF Placed, InUsing
<1>8. CASE \E c \in Configs : todo[t] = ToCreate(c) /\ Named /\ Harmless(held)
  <2>1. PICK c \in Configs : todo[t] = ToCreate(c) /\ Named /\ Harmless(held)
    BY <1>8
  <2> DEFINE k == Save(Private(ToLoad))
  <2>2. k \in Seq(Items) /\ Private(ToLoad) \in Seq(Items)
    BY <1>3
  <2>3. At(t, "select") /\ Arg(t) = c /\ (Proceed(t) => todo'[t] = k)
    BY <1>1, <2>1, <2>2, NextChosen DEF ToCreate
  <2>4. Select(t)
    BY <2>3, Dispatch
  <2>5. /\ UNCHANGED <<private, up, path, held, restartModules, saves, faults>>
        /\ todo'[t] = k /\ current' = c
        /\ file' = [file EXCEPT ![c] = IF @ = "missing" THEN "empty" ELSE @]
    BY <2>3, <2>4 DEF Select, bounds
  <2>6. Kept'
    BY <1>1, <1>2, <2>1, <2>5 DEF Kept, DiskTyped
  <2>7. Named'
    BY <2>1, <2>5 DEF Named
  <2>8. Harmless(held)'
    BY <1>1, <1>2, <2>1, <2>5 DEF Harmless, DiskTyped
  <2>9. NothingUnderWay'
    BY <1>5, <2>5
  <2>10. InSave(t, Private(ToLoad))'
    BY <1>1, <2>5, <2>7, <2>8, <2>9 DEF InSave, AfterSave, NothingUnderWay
  <2> QED BY <2>2, <2>5, <2>6, <2>10 DEF Placed
<1>9. CASE \E c \in Configs \ {Default} : todo[t] = ToSwitch(c) /\ Named
  <2>1. PICK c \in Configs \ {Default} : todo[t] = ToSwitch(c) /\ Named
    BY <1>9
  <2>2. At(t, "select") /\ Arg(t) = Default /\ (Proceed(t) => todo'[t] = Private(ToLeave(c)))
    BY <1>1, <1>2, <1>3, <2>1, NextChosen DEF ToSwitch
  <2>3. Select(t)
    BY <2>2, Dispatch
  <2>4. /\ UNCHANGED <<private, up, path, held, restartModules, saves, faults>>
        /\ todo'[t] = Private(ToLeave(c)) /\ current' = Default
        /\ file' = [file EXCEPT ![Default] = IF @ = "missing" THEN "empty" ELSE @]
    BY <2>2, <2>3 DEF Select, bounds
  <2>5. Kept'
    BY <1>1, <1>2, <2>4 DEF Kept, DiskTyped
  <2>6. Named'
    BY <1>2, <2>1, <2>4 DEF Named
  <2>7. NothingUnderWay'
    BY <1>5, <2>4
  <2>8. InPrivate(t, ToLeave(c))'
    BY <1>1, <2>1, <2>4, <2>6, <2>7 DEF InPrivate, AfterPrivate, NothingUnderWay
  <2>9. ToLeave(c) \in Seq(Items)
    BY <1>3, <2>1
  <2> QED BY <2>4, <2>5, <2>8, <2>9 DEF Placed
<1>10. CASE \E c \in Configs \ {Default} :
              todo[t] = ToLeave(c) /\ Recorded /\ (faults = 0 => current = Default)
  <2>1. PICK c \in Configs \ {Default} :
          todo[t] = ToLeave(c) /\ Recorded /\ (faults = 0 => current = Default)
    BY <1>10
  <2>2. At(t, "load_private") /\ (Proceed(t) => todo'[t] = ToRemove(c))
    BY <1>1, <1>3, <1>4, <2>1, NextStep DEF ToLeave
  <2>3. LoadPrivate(t)
    BY <2>2, Dispatch
  <2>4. UNCHANGED <<disk, up, restartModules, saves, faults>> /\ todo'[t] = ToRemove(c)
    BY <2>2, <2>3 DEF LoadPrivate, bounds
  <2>5. /\ current' = IF private \in Configs THEN private ELSE current
        /\ path' = IF private \in Configs \cup {"torn"} /\ current' # NoConfig THEN current' ELSE path
    BY <2>3 DEF LoadPrivate
  <2>6. Kept' /\ Same' /\ (faults' = 0 => current' = Default)
    BY <1>1, <1>2, <2>1, <2>4, <2>5 DEF Kept, Same, Named, Agreed, Recorded, disk
  <2> QED BY <1>1, <1>5, <2>1, <2>4, <2>6 DEF Placed, InUsing
<1>11. CASE \E c \in Configs \ {Default} :
              todo[t] = ToRemove(c) /\ Same /\ (faults = 0 => current = Default)
  <2>1. PICK c \in Configs \ {Default} :
          todo[t] = ToRemove(c) /\ Same /\ (faults = 0 => current = Default)
    BY <1>11
  <2>2. At(t, "remove") /\ Arg(t) = c /\ (Proceed(t) => todo'[t] = ToRestart)
    BY <1>1, <1>3, <2>1, NextChosen DEF ToRemove
  <2>3. RemoveFile(t)
    BY <2>2, Dispatch
  <2>4. /\ UNCHANGED <<private, up, memory, saves, faults>> /\ todo'[t] = ToRestart
        /\ file' = [file EXCEPT ![c] = "missing"]
    BY <2>2, <2>3 DEF RemoveFile, bounds
  <2>5. \A d \in Configs : file'[d] = IF d = c THEN "missing" ELSE file[d]
    BY <1>1, <2>4 DEF DiskTyped
  <2>6. Kept'
    BY <1>1, <1>2, <2>1, <2>4, <2>5 DEF Kept, Same, memory
  <2>7. Same' /\ restartModules' = restartModules
    BY <2>1, <2>4 DEF Same, Named, Agreed, memory
  <2> QED BY <1>1, <1>5, <2>4, <2>6, <2>7 DEF Placed, InUsing
<1> QED BY <1>6, <1>7, <1>8, <1>9, <1>10, <1>11 DEF InUsing

\* What is read from a configuration's file is harmless there.
LEMMA ReadsOwn ==
    ASSUME OneInv, Same, NEW t \in Threads, LoadSettings(t)
    PROVE  Harmless(global)'
<1>1. path \in Configs /\ current # NoConfig
  BY TypedParts, DefaultAssumption DEF OneInv, NamesTyped, Same, Named, DefaultAssumption
<1>2. {"missing", "empty", "torn"} \cap Configs = {}
  BY NamesAssumption DEF NamesAssumption
<1>3. faults = 0 => file[path] \in {"empty", path}
  BY <1>1 DEF OneInv, Kept, Same, Named, Agreed
<1>4. file' = file /\ path' = path /\ faults' = faults
  BY DEF LoadSettings, disk, bounds
<1>5. file[path] = path \/ faults = 0 => global' = path
  BY <1>1, <1>2, <1>3 DEF LoadSettings
<1> QED BY <1>4, <1>5 DEF Harmless

\* ModuleManager::restart brings the modules to the settings of the configuration.
LEMMA RestartStep ==
    ASSUME OneInv, NEW t \in Threads, InRestart(t), Advance(t)
    PROVE  Kept' /\ restartModules' = restartModules /\ Placed(t)'
<1>1. /\ TodoTyped /\ Kept /\ NothingUnderWay /\ up = "running" /\ Same
  BY TypedParts DEF OneInv, InRestart
<1>2. Done \in Seq(Items) /\ Save(Done) \in Seq(Items) /\ ReloadSave \in Seq(Items) /\ ResetAll \in Seq(Items)
  BY PlacesTyped
<1>3. \A n \in {"load_settings", "reset", "reload"} : n \in StepNames \ {"select", "remove"}
  BY DEF StepNames
<1>4. UNCHANGED <<disk, up, current, path, saves, bounds>>
        => Kept' /\ Same' /\ NothingUnderWay' /\ up' = "running"
  BY <1>1 DEF Kept, Same, Named, Agreed, NothingUnderWay, disk, saves, bounds
<1>5. CASE todo[t] = RestartAll
  <2>1. At(t, "load_settings") /\ (Proceed(t) => todo'[t] = ResetAll)
    BY <1>1, <1>2, <1>3, <1>5, NextStep DEF RestartAll
  <2>2. LoadSettings(t)
    BY <2>1, Dispatch
  <2>3. UNCHANGED <<disk, up, current, path, held, restartModules, saves, bounds>> /\ todo'[t] = ResetAll
    BY <2>1, <2>2 DEF LoadSettings
  <2>4. Harmless(global)'
    BY <1>1, <2>2, ReadsOwn
  <2> QED BY <1>4, <2>3, <2>4 DEF Placed, InRestart
<1>6. CASE todo[t] = ResetAll /\ Harmless(global)
  <2>1. At(t, "reset") /\ (Proceed(t) => todo'[t] = ReloadSave)
    BY <1>1, <1>2, <1>3, <1>6, NextStep DEF ResetAll
  <2>2. Reset(t)
    BY <2>1, Dispatch
  <2>3. /\ UNCHANGED <<disk, up, current, path, global, restartModules, saves, bounds>>
        /\ todo'[t] = ReloadSave
    BY <2>1, <2>2 DEF Reset
  <2>4. Harmless(global)'
    BY <1>6, <2>3 DEF Harmless, disk, bounds
  <2> QED BY <1>4, <2>3, <2>4 DEF Placed, InRestart
<1>7. CASE todo[t] = ReloadSave /\ Harmless(global)
  <2>1. At(t, "reload") /\ (Proceed(t) => todo'[t] = Save(Done))
    BY <1>1, <1>2, <1>3, <1>7, NextStep DEF ReloadSave
  <2>2. Reload(t)
    BY <2>1, Dispatch
  <2>3. /\ UNCHANGED <<disk, up, current, path, restartModules, saves, bounds>>
        /\ todo'[t] = Save(Done) /\ held' = global
    BY <2>1, <2>2 DEF Reload
  <2>4. Harmless(held)'
    BY <1>7, <2>3 DEF Harmless, disk, bounds
  <2>5. InSave(t, Done)'
    BY <1>1, <1>4, <2>3, <2>4 DEF InSave, AfterSave, NothingUnderWay
  <2> QED BY <1>2, <1>4, <2>3, <2>5 DEF Placed
<1> QED BY <1>5, <1>6, <1>7 DEF InRestart

\* The start reads PRIVATE and the configuration it names.
LEMMA StartStep ==
    ASSUME OneInv, NEW t \in Threads, InStart(t), Advance(t)
    PROVE  /\ Kept' /\ restartModules' = restartModules
           /\ \/ Placed(t)'
              \/ todo'[t] = Done /\ NothingUnderWay' /\ up' = "running" /\ Same' /\ Harmless(held)'
<1>1. /\ TodoTyped /\ Kept /\ NothingUnderWay /\ up = "starting"
  BY TypedParts DEF OneInv, InStart
<1>2. /\ Done \in Seq(Items) /\ ToReady \in Seq(Items) /\ ToReload \in Seq(Items)
      /\ ToLoadSettings \in Seq(Items) /\ ToAdd \in Seq(Items) /\ ToRecreate \in Seq(Items)
      /\ ToLoadAll \in Seq(Items)
      /\ Private(ToLoadSettings) \in Seq(Items) /\ Private(ToReload) \in Seq(Items)
  BY PlacesTyped
<1>3. \A n \in {"load_private", "load_settings", "reload", "ready", "add_settings", "recreate_at_start"} :
        n \in StepNames \ {"select", "remove"}
  BY DEF StepNames
<1>4. {"missing", "empty", "torn"} \cap Configs = {} /\ NoConfig \notin Configs /\ Default \in Configs
  BY NamesAssumption, DefaultAssumption DEF NamesAssumption, DefaultAssumption
<1>5. ASSUME UNCHANGED <<disk, saves, bounds>>, up' # "down", current' \in {current, private, Default}
      PROVE  NothingUnderWay' /\ Kept'
  BY <1>1, <1>4, <1>5 DEF Kept, NothingUnderWay, disk, saves, bounds
<1>6. ASSUME UNCHANGED <<disk, current, path, bounds>>
      PROVE  /\ (Same => Same') /\ (Lost => Lost')
             /\ Harmless(global) /\ global' = global => Harmless(global)'
             /\ Harmless(held) /\ held' = held => Harmless(held)'
             /\ Harmless(global) /\ held' = global => Harmless(held)'
  BY <1>6 DEF Same, Named, Agreed, Lost, Harmless, disk, bounds
<1>7. CASE todo[t] = FirstStart /\ private = "empty" /\ current = NoConfig /\ path = Default
  <2>1. At(t, "add_settings") /\ (Proceed(t) => todo'[t] = Private(ToLoadSettings))
    BY <1>1, <1>2, <1>3, <1>7, NextStep DEF FirstStart
  <2>2. AddSettings(t)
    BY <2>1, Dispatch
  <2>3. /\ UNCHANGED <<disk, up, path, restartModules, saves, bounds>>
        /\ todo'[t] = Private(ToLoadSettings) /\ current' = Default
    BY <1>7, <2>1, <2>2 DEF AddSettings
  <2>4. Named' /\ Agreed'
    BY <1>4, <1>7, <2>3 DEF Named, Agreed, disk
  <2>5. InPrivate(t, ToLoadSettings)'
    BY <1>1, <1>5, <2>3, <2>4 DEF InPrivate, AfterPrivate, NothingUnderWay
  <2> QED BY <1>1, <1>2, <1>5, <2>3, <2>5 DEF Placed
<1>8. CASE todo[t] = LaterStart /\ (private \in Configs \/ Lost)
  <2>1. At(t, "load_private") /\ (Proceed(t) => todo'[t] = ToLoadAll)
    BY <1>1, <1>2, <1>3, <1>8, NextStep DEF LaterStart
  <2>2. LoadPrivate(t)
    BY <2>1, Dispatch
  <2>3. UNCHANGED <<disk, up, restartModules, saves, bounds>> /\ todo'[t] = ToLoadAll
    BY <2>1, <2>2 DEF LoadPrivate
  <2>4. CASE private \in Configs
    <3>1. current' = private /\ path' = private
      BY <1>4, <2>2, <2>4 DEF LoadPrivate
    <3>2. Same'
      BY <1>4, <2>3, <2>4, <3>1 DEF Same, Named, Agreed, disk
    <3> QED BY <1>1, <1>5, <2>3, <3>1, <3>2 DEF Placed, InStart
  <2>5. CASE Lost
    <3>1. current' = current
      BY <1>4, <2>2, <2>5 DEF LoadPrivate, Lost
    <3>2. Lost'
      BY <2>3, <2>5, <3>1 DEF Lost, disk
    <3> QED BY <1>1, <1>5, <2>3, <3>1, <3>2 DEF Placed, InStart
  <2> QED BY <1>8, <2>4, <2>5
<1>9. CASE todo[t] = ToLoadAll /\ (Same \/ Lost)
  <2>1. At(t, "load_settings") /\ (Proceed(t) => todo'[t] = ToRecreate)
    BY <1>1, <1>2, <1>3, <1>9, NextStep DEF ToLoadAll
  <2>2. LoadSettings(t)
    BY <2>1, Dispatch
  <2>3. UNCHANGED <<disk, up, current, path, restartModules, saves, bounds>> /\ todo'[t] = ToRecreate
    BY <2>1, <2>2 DEF LoadSettings
  <2>4. Same => Same' /\ Harmless(global)'
    BY <1>6, <2>2, <2>3, ReadsOwn
  <2>5. Lost => Lost'
    BY <1>6, <2>3
  <2> QED BY <1>1, <1>5, <1>9, <2>3, <2>4, <2>5 DEF Placed, InStart
<1>10. CASE todo[t] = ToLoadSettings /\ Same
  <2>1. At(t, "load_settings") /\ (Proceed(t) => todo'[t] = ToReload)
    BY <1>1, <1>2, <1>3, <1>10, NextStep DEF ToLoadSettings
  <2>2. LoadSettings(t)
    BY <2>1, Dispatch
  <2>3. UNCHANGED <<disk, up, current, path, restartModules, saves, bounds>> /\ todo'[t] = ToReload
    BY <2>1, <2>2 DEF LoadSettings
  <2>4. Same' /\ Harmless(global)'
    BY <1>6, <1>10, <2>2, <2>3, ReadsOwn
  <2> QED BY <1>1, <1>5, <2>3, <2>4 DEF Placed, InStart
<1>11. CASE todo[t] = ToRecreate /\ ((Same /\ Harmless(global)) \/ Lost)
  <2>1. At(t, "recreate_at_start") /\ (Proceed(t) => todo'[t] = ToAdd)
    BY <1>1, <1>2, <1>3, <1>11, NextStep DEF ToRecreate
  <2>2. RecreateAtStart(t)
    BY <2>1, Dispatch
  <2>3. ~Lost
    BY <2>2 DEF RecreateAtStart, Lost
  <2>4. /\ UNCHANGED <<disk, up, current, path, global, restartModules, saves, bounds>>
        /\ todo'[t] = ToAdd
    BY <2>1, <2>2 DEF RecreateAtStart, memory
  <2>5. Same' /\ Harmless(global)'
    BY <1>6, <1>11, <2>3, <2>4
  <2> QED BY <1>1, <1>5, <2>4, <2>5 DEF Placed, InStart
<1>12. CASE todo[t] = ToAdd /\ Same /\ Harmless(global)
  <2>1. At(t, "add_settings") /\ (Proceed(t) => todo'[t] = Private(ToReload))
    BY <1>1, <1>2, <1>3, <1>12, NextStep DEF ToAdd
  <2>2. AddSettings(t)
    BY <2>1, Dispatch
  <2>3. /\ UNCHANGED <<disk, up, current, path, global, restartModules, saves, bounds>>
        /\ todo'[t] = Private(ToReload)
    BY <1>4, <1>12, <2>1, <2>2 DEF AddSettings, Same, Named
  <2>4. Same' /\ Harmless(global)'
    BY <1>6, <1>12, <2>3
  <2>5. AfterPrivate(ToReload)'
    BY <1>1, <2>3, <2>4 DEF AfterPrivate, Same
  <2>6. InPrivate(t, ToReload)'
    BY <1>1, <1>5, <2>3, <2>5 DEF InPrivate, NothingUnderWay
  <2> QED BY <1>1, <1>2, <1>5, <2>3, <2>6 DEF Placed
<1>13. CASE todo[t] = ToReload /\ Same /\ Harmless(global)
  <2>1. At(t, "reload") /\ (Proceed(t) => todo'[t] = ToReady)
    BY <1>1, <1>2, <1>3, <1>13, NextStep DEF ToReload
  <2>2. Reload(t)
    BY <2>1, Dispatch
  <2>3. /\ UNCHANGED <<disk, up, current, path, restartModules, saves, bounds>>
        /\ todo'[t] = ToReady /\ held' = global
    BY <2>1, <2>2 DEF Reload
  <2>4. Same' /\ Harmless(held)'
    BY <1>6, <1>13, <2>3
  <2> QED BY <1>1, <1>5, <2>3, <2>4 DEF Placed, InStart
<1>14. CASE todo[t] = ToReady /\ Same /\ Harmless(held)
  <2>1. At(t, "ready") /\ (Proceed(t) => todo'[t] = Done)
    BY <1>1, <1>2, <1>3, <1>14, NextStep DEF ToReady
  <2>2. Ready(t)
    BY <2>1, Dispatch
  <2>3. /\ UNCHANGED <<disk, current, path, held, restartModules, saves, bounds>>
        /\ todo'[t] = Done /\ up' = "running"
    BY <2>1, <2>2 DEF Ready, memory
  <2>4. Same' /\ Harmless(held)'
    BY <1>6, <1>14, <2>3
  <2> QED BY <1>5, <2>3, <2>4
<1> QED BY <1>7, <1>8, <1>9, <1>10, <1>11, <1>12, <1>13, <1>14 DEF InStart

LEMMA AdvanceOne ==
    ASSUME OneInv, NEW t \in Threads, Advance(t)
    PROVE  Kept' /\ (Resting' \/ Acting(t)')
<1>1. TodoTyped /\ todo[t] # Done /\ \A u \in Threads \ {t} : todo'[u] = todo[u]
  BY TypedParts, AdvanceTodo DEF OneInv, Done
<1>2. Acting(t)
  BY <1>1 DEF OneInv, Resting, Acting
<1>3. ~restartModules /\ \A u \in Threads \ {t} : todo'[u] = Done
  BY <1>1, <1>2 DEF Acting
<1>4. Kept' /\ restartModules' = restartModules /\ Placed(t)' => Kept' /\ Acting(t)'
  BY <1>3 DEF Acting
<1>5. (/\ todo'[t] = Done /\ NothingUnderWay' /\ up' = "running" /\ Same'
       /\ restartModules' \/ Harmless(held)') => Resting'
  BY <1>3 DEF Resting
<1>6. CASE \E k \in Seq(Items) : InSave(t, k)
  <2>1. PICK k \in Seq(Items) : InSave(t, k)
    BY <1>6
  <2>2. /\ Kept' /\ restartModules' = restartModules
        /\ \/ InSave(t, k)'
           \/ /\ todo'[t] = k /\ AfterSave(k)' /\ NothingUnderWay'
              /\ up' = "running" /\ Harmless(held)'
    BY <2>1, SaveStep
  <2>3. CASE InSave(t, k)'
    BY <1>4, <2>2, <2>3 DEF Placed
  <2>4. CASE /\ todo'[t] = k /\ AfterSave(k)' /\ NothingUnderWay'
             /\ up' = "running" /\ Harmless(held)'
    <3>1. Placed(t)' \/ (k = Done /\ Same')
      BY <2>4, SaveLeadsNext
    <3> QED BY <1>4, <1>5, <2>2, <2>4, <3>1
  <2> QED BY <2>2, <2>3, <2>4
<1>7. CASE \E k \in Seq(Items) : InPrivate(t, k)
  <2>1. PICK k \in Seq(Items) : InPrivate(t, k)
    BY <1>7
  <2>2. /\ Kept' /\ restartModules' = restartModules
        /\ \/ InPrivate(t, k)'
           \/ todo'[t] = k /\ AfterPrivate(k)' /\ NothingUnderWay' /\ Recorded'
    BY <2>1, PrivateStep
  <2>3. CASE InPrivate(t, k)'
    BY <1>4, <2>2, <2>3 DEF Placed
  <2>4. CASE todo'[t] = k /\ AfterPrivate(k)' /\ NothingUnderWay' /\ Recorded'
    <3>1. Placed(t)' \/ (k = Done /\ Same' /\ up' = "running" /\ Harmless(held)')
      BY <2>4, PrivateLeadsNext
    <3> QED BY <1>4, <1>5, <2>2, <2>4, <3>1
  <2> QED BY <2>2, <2>3, <2>4
<1>8. CASE InUsing(t)
  BY <1>4, <1>5, <1>8, UsingStep
<1>9. CASE InRestart(t)
  BY <1>4, <1>9, RestartStep
<1>10. CASE InStart(t)
  BY <1>4, <1>5, <1>10, StartStep
<1> QED BY <1>2, <1>6, <1>7, <1>8, <1>9, <1>10 DEF Acting, Placed

\* The programs of the starts and of the restart, step by step.
LEMMA StartPrograms ==
    /\ <<Step("add_settings"), Step("save_private"), Step("load_settings"), Step("reload"), Step("ready")>>
         = FirstStart
    /\ <<Step("load_private"), Step("load_settings"), Step("recreate_at_start"), Step("add_settings"),
         Step("save_private"), Step("reload"), Step("ready")>> = LaterStart
    /\ <<Step("load_settings"), Step("reset"), Step("reload"), Step("save")>> = RestartAll
<1> DEFINE lp == Step("load_private")
           as == Step("add_settings")
           sp == Step("save_private")
           ls == Step("load_settings")
           re == Step("reload")
           ry == Step("ready")
           rs == Step("recreate_at_start")
           ze == Step("reset")
           sa == Step("save")
<1>1. /\ lp \in Items /\ as \in Items /\ sp \in Items /\ ls \in Items /\ re \in Items
      /\ ry \in Items /\ rs \in Items /\ ze \in Items /\ sa \in Items
  BY StepItems DEF StepNames
<1> HIDE DEF lp, as, sp, ls, re, ry, rs, ze, sa
<1>2. Done \in Seq(Items) /\ Then(ry, Done) \in Seq(Items) /\ Then(sp, Then(re, Then(ry, Done))) \in Seq(Items)
  BY <1>1, NothingDone, ThenFacts
<1>3. Then(ry, Done) = <<ry>> /\ Four(ls, ze, re, sa) \o Done = Four(ls, ze, re, sa)
  <2>1. <<ry>> \in Seq(Items) /\ Four(ls, ze, re, sa) \in Seq(Items)
    BY <1>1 DEF Four
  <2> HIDE DEF Four
  <2> QED BY <2>1, ConcatEmptySeq DEF Then, Done
<1>4. Unrolls(ls, ze, re, sa, Done) /\ Unrolls(as, sp, ls, re, Then(ry, Done))
      /\ Unrolls(lp, ls, rs, as, Then(sp, Then(re, Then(ry, Done))))
  BY <1>1, <1>2, WrittenFour
<1>5. <<ls, ze, re, sa>> = RestartAll
  BY <1>3, <1>4 DEF Unrolls, Four, RestartAll, ResetAll, ReloadSave, Save, ls, ze, re, sa
<1>6. <<as, sp, ls, re, ry>> = Four(as, sp, ls, re) \o <<ry>>
  BY CutFive
<1>7. <<as, sp, ls, re, ry>> = FirstStart
  BY <1>3, <1>4, <1>6 DEF Unrolls, FirstStart, Private, ToLoadSettings, ToReload, ToReady, as, sp, ls, re, ry
<1>8. <<lp, ls, rs, as, sp, re, ry>> = Four(lp, ls, rs, as) \o <<sp, re, ry>>
  <2>1. Splits(lp, ls, rs, as, sp, re, ry)
    BY CutSeven
  <2> QED BY <2>1 DEF Splits
<1>9. <<sp, re, ry>> = Then(sp, Then(re, Then(ry, Done)))
  <2>1. <<sp, re, ry>> = <<sp>> \o <<re, ry>> /\ <<re, ry>> = <<re>> \o <<ry>>
    BY Cut
  <2> QED BY <1>3, <2>1 DEF Then
<1>10. <<lp, ls, rs, as, sp, re, ry>> = LaterStart
  BY <1>4, <1>8, <1>9 DEF Unrolls, LaterStart, ToLoadAll, ToRecreate, ToAdd, Private, ToReload, ToReady,
     lp, ls, rs, as, sp, re, ry
<1> QED BY <1>5, <1>7, <1>10 DEF lp, as, sp, ls, re, ry, rs, ze, sa

\* A thread that is at one of the places has something to do.
LEMMA PlacedBusy ==
    ASSUME NEW t \in Threads, Placed(t)
    PROVE  todo[t] # Done /\ up # "down"
<1>1. \A x \in Items, k \in Seq(Items) : Then(x, k) # Done
  BY ThenFacts DEF Done
<1>2. \A n \in {"save", "collect", "open", "write", "rename", "discard", "save_private", "truncate",
                "serialise", "append", "load_private", "load_settings", "reset", "reload", "ready", "add_settings",
                "recreate_at_start", "request_restart"} :
        Step(n) \in Items
  BY StepItems DEF StepNames
<1>3. \A c \in Configs : <<"select", c>> \in Items /\ <<"remove", c>> \in Items
  BY StepItems
<1>4. Default \in Configs
  BY DefaultAssumption DEF DefaultAssumption
<1>5. CASE \E k \in Seq(Items) : InSave(t, k)
  <2>1. PICK k \in Seq(Items) : InSave(t, k)
    BY <1>5
  <2> QED BY <1>1, <1>2, <2>1 DEF InSave, Save, Collecting, Opening, Writing, Renaming, Discarding
<1>6. CASE \E k \in Seq(Items) : InPrivate(t, k)
  <2>1. PICK k \in Seq(Items) : InPrivate(t, k)
    BY <1>6
  <2> QED BY <1>1, <1>2, <2>1 DEF InPrivate, AfterPrivate, Private, Truncating, Serialising, Appending
<1>7. CASE InUsing(t)
  <2>1. /\ Done \in Seq(Items) /\ ToRestart \in Seq(Items) /\ Save(Private(ToLoad)) \in Seq(Items)
        /\ \A c \in Configs : /\ Private(ToLeave(c)) \in Seq(Items) /\ ToRemove(c) \in Seq(Items)
    BY PlacesTyped
  <2> QED BY <1>1, <1>2, <1>3, <1>4, <1>7, <2>1
         DEF InUsing, ToRestart, ToLoad, ToCreate, ToSwitch, ToLeave, ToRemove
<1>8. CASE InRestart(t)
  BY <1>1, <1>2, <1>8, PlacesTyped DEF InRestart, RestartAll, ResetAll, ReloadSave
<1>9. CASE InStart(t)
  BY <1>1, <1>2, <1>9, PlacesTyped DEF InStart, FirstStart, LaterStart, ToLoadAll, ToLoadSettings,
     ToRecreate, ToAdd, ToReload, ToReady
<1> QED BY <1>5, <1>6, <1>7, <1>8, <1>9 DEF Placed

LEMMA InitOne == Init => OneInv
<1> SUFFICES ASSUME Init PROVE OneInv
  OBVIOUS
<1>1. Kept
  BY DefaultAssumption, NamesAssumption DEF Init, Kept, DefaultAssumption, NamesAssumption
<1>2. Resting
  BY DEF Init, Resting, NothingUnderWay, NothingSaving, Done
<1> QED BY <1>1, <1>2, InitTyped DEF OneInv

LEMMA StartOne ==
    ASSUME OneInv, Start
    PROVE  Kept' /\ Acting("init")'
<1>1. TodoTyped /\ DiskTyped /\ Kept /\ up = "down" /\ "init" \in Threads
  BY TypedParts DEF OneInv, Start, Threads
<1>2. Resting
  BY <1>1, PlacedBusy DEF OneInv, Acting
<1>3. NothingUnderWay /\ current = NoConfig /\ path = Default /\ ~restartModules
      /\ \A t \in Threads : todo[t] = Done
  BY <1>1, <1>2 DEF Resting
<1>4. {"missing", "empty", "torn"} \cap Configs = {} /\ Default \in Configs /\ NoConfig \notin Configs
  BY NamesAssumption, DefaultAssumption DEF NamesAssumption, DefaultAssumption
<1>5. UNCHANGED <<memory, saves, bounds>> /\ up' = "starting"
  BY DEF Start
<1>6. Kept'
  <2>1. file'[Default] # "missing" /\ \A c \in Configs : file[c] # "missing" => file'[c] = file[c]
    BY <1>1, <1>4 DEF Start, DiskTyped
  <2>2. \A c \in Configs : file'[c] \in {file[c], "empty"}
    BY <1>1 DEF Start, DiskTyped
  <2>3. private' = IF private = "missing" THEN "empty" ELSE private
    BY DEF Start
  <2>4. faults' = faults /\ current' = NoConfig
    BY <1>3, <1>5 DEF bounds, memory
  <2> QED BY <1>1, <1>4, <1>5, <2>1, <2>2, <2>3, <2>4 DEF Kept
<1>7. InStart("init")'
  <2>1. NothingUnderWay' /\ current' = NoConfig /\ path' = Default
    BY <1>3, <1>5 DEF NothingUnderWay, memory, saves
  <2>2. CASE private = "missing"
    <3>1. todo' = [todo EXCEPT !["init"] = FirstStart] /\ private' = "empty"
      BY <2>2, StartPrograms DEF Start
    <3>2. todo'["init"] = FirstStart
      BY <1>1, <3>1 DEF TodoTyped
    <3> QED BY <1>5, <2>1, <3>1, <3>2 DEF InStart
  <2>3. CASE private # "missing"
    <3>1. todo' = [todo EXCEPT !["init"] = LaterStart] /\ private' = private
      BY <2>3, StartPrograms DEF Start
    <3>2. todo'["init"] = LaterStart
      BY <1>1, <3>1 DEF TodoTyped
    <3>3. private' \in Configs \/ (private' = "empty" /\ GDK)
      BY <1>1, <2>3, <3>1 DEF Kept
    <3> QED BY <1>5, <2>1, <3>2, <3>3 DEF InStart, Lost
  <2> QED BY <2>2, <2>3
<1>8. \A u \in Threads \ {"init"} : todo'[u] = Done
  BY <1>1, <1>3 DEF Start, TodoTyped
<1> QED BY <1>3, <1>5, <1>6, <1>7, <1>8 DEF Acting, Placed, memory

LEMMA CrashOne ==
    ASSUME OneInv, Crash, OneAtATime
    PROVE  Kept' /\ Resting'
<1>1. Kept'
  <2>1. private = "empty" => GDK
    BY DEF Crash, OneAtATime
  <2>2. UNCHANGED <<file, private, faults>> /\ current' = NoConfig /\ up' = "down"
    BY DEF Crash, disk
  <2> QED BY <2>1, <2>2, DefaultAssumption DEF OneInv, Kept, DefaultAssumption
<1>2. Resting'
  BY DEF Crash, Resting, NothingUnderWay, NothingSaving, Done
<1> QED BY <1>1, <1>2

LEMMA RestartOne ==
    ASSUME OneInv, BeginRestart
    PROVE  Kept' /\ Acting("init")'
<1>1. TodoTyped /\ Kept /\ restartModules /\ up = "running" /\ "init" \in Threads
  BY TypedParts DEF OneInv, BeginRestart, Threads
<1>2. NothingUnderWay /\ Same /\ \A t \in Threads : todo[t] = Done
  BY <1>1 DEF OneInv, Acting, Resting
<1>3. UNCHANGED <<disk, up, current, path, saves, bounds>> /\ restartModules' = FALSE
      /\ todo' = [todo EXCEPT !["init"] = RestartAll]
  BY StartPrograms DEF BeginRestart
<1>4. todo'["init"] = RestartAll /\ \A u \in Threads \ {"init"} : todo'[u] = Done
  BY <1>1, <1>2, <1>3 DEF TodoTyped
<1>5. InRestart("init")'
  BY <1>1, <1>2, <1>3, <1>4 DEF InRestart, NothingUnderWay, Same, Named, Agreed, disk, saves, bounds
<1>6. Kept'
  BY <1>1, <1>3 DEF Kept, disk, bounds
<1> QED BY <1>3, <1>4, <1>5, <1>6 DEF Acting, Placed

LEMMA BeginOne ==
    ASSUME OneInv, OneAtATime, NEW op \in Operations, NEW c \in Configs, Begin(op, c)
    PROVE  Kept' /\ \E t \in Threads : Acting(t)'
<1> DEFINE t == ThreadOf(op)
<1>1. /\ TodoTyped /\ Kept /\ up = "running" /\ t \in Threads /\ ~restartModules
      /\ \A u \in Threads : todo[u] = Done
  BY TypedParts DEF OneInv, Begin, Threads, ThreadOf, OneAtATime, Idle, Done
<1>2. NothingUnderWay /\ Same /\ Harmless(held)
  BY <1>1, PlacedBusy DEF OneInv, Acting, Resting
<1>3. UNCHANGED <<disk, up, memory, saves, faults>> /\ todo' = [todo EXCEPT ![t] = Steps(op, c)]
  BY DEF Begin
<1> HIDE DEF t
<1>4. todo'[t] = Steps(op, c) /\ (\A u \in Threads \ {t} : todo'[u] = Done) /\ ~restartModules'
  BY <1>1, <1>3 DEF TodoTyped, memory
<1>5. /\ NothingUnderWay' /\ Same' /\ Named' /\ Harmless(held)' /\ up' = "running" /\ Kept'
      /\ ~saving'.private
  BY <1>1, <1>2, <1>3
     DEF NothingUnderWay, Same, Named, Agreed, Harmless, Kept, disk, memory, saves
<1>6. op \in {"save", "reload", "switch", "create", "delete"}
  BY DEF OneAtATime
<1>7. CASE op = "save"
  <2>1. Steps(op, c) = Save(Private(Done))
    BY <1>7, Programs DEF Steps, Save, Private
  <2>2. InSave(t, Private(Done))'
    BY <1>4, <1>5, <2>1 DEF InSave, AfterSave
  <2>3. Private(Done) \in Seq(Items)
    BY PlacesTyped
  <2> QED BY <1>1, <1>4, <1>5, <2>2, <2>3 DEF Acting, Placed
<1>8. CASE op = "reload"
  <2>1. Steps(op, c) = ToRestart
    BY <1>8, Programs DEF Steps, ToRestart
  <2> QED BY <1>1, <1>4, <1>5, <2>1 DEF Acting, Placed, InUsing
<1>9. CASE op \in {"switch", "create"}
  <2>1. Steps(op, c) = ToCreate(c)
    BY <1>9, Programs DEF Steps, ToCreate, Save, Private, ToLoad, ToRestart
  <2> QED BY <1>1, <1>4, <1>5, <2>1 DEF Acting, Placed, InUsing
<1>10. CASE op = "delete"
  <2>1. Steps(op, c) = ToSwitch(c)
    BY <1>10, Programs DEF Steps, ToSwitch, Private, ToLeave, ToRemove, ToRestart
  <2>2. c # Default
    BY <1>10 DEF Begin, Allowed
  <2> QED BY <1>1, <1>4, <1>5, <2>1, <2>2 DEF Acting, Placed, InUsing
<1> QED BY <1>6, <1>7, <1>8, <1>9, <1>10

LEMMA NextOne ==
    ASSUME OneAtATime
    PROVE  OneInv /\ [Next]_vars => OneInv'
<1> SUFFICES ASSUME OneInv, [Next]_vars PROVE OneInv'
  OBVIOUS
<1>1. TypedInv'
  BY NextTyped DEF OneInv
<1>2. Kept' /\ (Resting' \/ \E t \in Threads : Acting(t)')
  <2>1. "init" \in Threads
    BY DEF Threads
  <2>2. CASE Start
    BY <2>1, <2>2, StartOne
  <2>3. CASE Crash
    BY <2>3, CrashOne
  <2>4. CASE BeginRestart
    BY <2>1, <2>4, RestartOne
  <2>5. CASE \E t \in Threads : Advance(t)
    BY <2>5, AdvanceOne
  <2>6. CASE \E op \in Operations, c \in Configs : Begin(op, c)
    BY <2>6, BeginOne
  <2>7. CASE UNCHANGED vars
    <3>1. UNCHANGED <<file, tmp, private, up, current, path, global, held, restartModules, saving, job, writing,
                      text, todo, faults>>
      BY <2>7 DEF vars, disk, memory, saves, bounds
    <3>2. Kept' /\ (Resting => Resting')
      BY <3>1 DEF OneInv, Kept, Resting, NothingUnderWay, Same, Named, Agreed, Harmless
    <3>3. \A t, k : (InSave(t, k) => InSave(t, k)') /\ (InPrivate(t, k) => InPrivate(t, k)')
      BY <3>1 DEF InSave, AfterSave, InPrivate, AfterPrivate, Named, Same, Agreed, Harmless, NothingUnderWay
    <3>4. \A t : /\ InUsing(t) => InUsing(t)'
                 /\ InRestart(t) => InRestart(t)'
                 /\ InStart(t) => InStart(t)'
      BY <3>1 DEF InUsing, InRestart, InStart, NothingUnderWay, Same, Named, Agreed, Harmless, Recorded, Lost
    <3>5. \A t : Acting(t) => Acting(t)'
      BY <3>1, <3>3, <3>4 DEF Acting, Placed
    <3> QED BY <3>2, <3>5 DEF OneInv
  <2> QED BY <2>2, <2>3, <2>4, <2>5, <2>6, <2>7 DEF Next
<1> QED BY <1>1, <1>2 DEF OneInv

LEMMA AlwaysOne ==
    ASSUME OneAtATime
    PROVE  Spec => []OneInv
BY InitOne, NextOne, PTL DEF Spec

\* A configuration's file holds its own settings or none, as long as every access to a file
\* succeeds: the modules never hold those of another when saveSettings collects them, through
\* any number of switches, creations, deletions from the GUI, restarts and deaths of the process.
THEOREM ConfigsAlwaysKept ==
    ASSUME OneAtATime
    PROVE  Spec => []ConfigsKept
<1>1. OneInv => ConfigsKept
  BY DEF OneInv, Kept, ConfigsKept
<1> QED BY <1>1, AlwaysOne, PTL

\* When nobody has anything left to do and nothing has failed, PRIVATE, the memory, the path of
\* the next save and the modules are all of one configuration.
THEOREM AlwaysSettled ==
    ASSUME OneAtATime
    PROVE  Spec => []Settled
<1>1. OneInv => Settled
  <2> SUFFICES ASSUME OneInv, up = "running", ~restartModules, \A t \in Threads : Idle(t), faults = 0
               PROVE  private = current /\ path = current /\ held = current
    BY DEF Settled
  <2>1. \A t \in Threads : todo[t] = Done
    BY DEF Idle, Done
  <2>2. Resting
    BY <2>1, PlacedBusy DEF OneInv, Acting
  <2> QED BY <2>2 DEF Resting, Same, Agreed, Harmless
<1> QED BY <1>1, AlwaysOne, PTL

\* Places at which nothing is renamed.
LEMMA UnrenamedPlace ==
    ASSUME NEW t \in Threads, NEW n \in StepNames \ {"select", "remove", "rename"}, NEW k \in Seq(Items),
           todo[t] = Then(Step(n), k)
    PROVE  ~At(t, "rename")
<1>1. Step(n) \in Items /\ Step(n)[1] = n
  BY StepItems
<1> QED BY <1>1, FrontOf

LEMMA UnrenamedChoice ==
    ASSUME NEW t \in Threads, NEW n \in {"select", "remove"}, NEW c \in Configs, NEW k \in Seq(Items),
           todo[t] = Then(<<n, c>>, k)
    PROVE  ~At(t, "rename")
<1> DEFINE x == <<n, c>>
<1>1. x \in Items /\ x[1] = n /\ todo[t] = Then(x, k)
  BY StepItems DEF Items, StepNames
<1> HIDE DEF x
<1> QED BY <1>1, FrontOf

\* What is renamed is a temporary file with settings that are harmless there.
LEMMA RenamesOwn ==
    ASSUME OneInv, NEW t \in Threads, Advance(t), At(t, "rename")
    PROVE  tmp[job[t].path] = held /\ job[t].path = path /\ Harmless(held)
<1>1. todo[t] # Done
  BY DEF At, Done
<1>2. Placed(t)
  BY <1>1 DEF OneInv, Resting, Acting
<1>3. \A n \in {"save", "collect", "open", "write", "discard", "save_private", "truncate", "serialise",
                "append", "load_private", "load_settings", "reset", "reload", "ready", "add_settings",
                "recreate_at_start", "request_restart"} :
        n \in StepNames \ {"select", "remove", "rename"}
  BY DEF StepNames
<1>4. Default \in Configs
  BY DefaultAssumption DEF DefaultAssumption
<1>5. CASE \E k \in Seq(Items) : InSave(t, k)
  <2>1. PICK k \in Seq(Items) : InSave(t, k)
    BY <1>5
  <2>2. todo[t] \notin {Save(k), Collecting(k), Opening(k), Writing(k), Discarding(k)}
    BY <1>3, UnrenamedPlace DEF Save, Collecting, Opening, Writing, Discarding
  <2> QED BY <2>1, <2>2 DEF InSave
<1>6. ~\E k \in Seq(Items) : InPrivate(t, k)
  <2> SUFFICES ASSUME NEW k \in Seq(Items), InPrivate(t, k) PROVE FALSE
    OBVIOUS
  <2>1. todo[t] \notin {Private(k), Truncating(k), Serialising(k), Appending(k)}
    BY <1>3, UnrenamedPlace DEF Private, Truncating, Serialising, Appending
  <2> QED BY <2>1 DEF InPrivate
<1>7. ~InUsing(t)
  <2>1. /\ Done \in Seq(Items) /\ ToRestart \in Seq(Items) /\ Save(Private(ToLoad)) \in Seq(Items)
        /\ \A c \in Configs : /\ Private(ToLeave(c)) \in Seq(Items) /\ ToRemove(c) \in Seq(Items)
    BY PlacesTyped
  <2>2. todo[t] # ToRestart /\ todo[t] # ToLoad /\ \A c \in Configs : todo[t] # ToLeave(c)
    BY <1>3, <2>1, UnrenamedPlace DEF ToRestart, ToLoad, ToLeave
  <2>3. \A c \in Configs : todo[t] # ToCreate(c) /\ todo[t] # ToSwitch(c) /\ todo[t] # ToRemove(c)
    <3> SUFFICES ASSUME NEW c \in Configs
                 PROVE  todo[t] # ToCreate(c) /\ todo[t] # ToSwitch(c) /\ todo[t] # ToRemove(c)
      OBVIOUS
    <3>1. todo[t] # ToCreate(c)
      BY <2>1, UnrenamedChoice DEF ToCreate
    <3>2. todo[t] # ToSwitch(c)
      BY <1>4, <2>1, UnrenamedChoice DEF ToSwitch
    <3>3. todo[t] # ToRemove(c)
      BY <2>1, UnrenamedChoice DEF ToRemove
    <3> QED BY <3>1, <3>2, <3>3
  <2> QED BY <2>2, <2>3 DEF InUsing
<1>8. ~InRestart(t)
  <2>1. todo[t] \notin {RestartAll, ResetAll, ReloadSave}
    BY <1>3, PlacesTyped, UnrenamedPlace DEF RestartAll, ResetAll, ReloadSave
  <2> QED BY <2>1 DEF InRestart
<1>9. ~InStart(t)
  <2>1. todo[t] \notin {FirstStart, LaterStart, ToLoadAll, ToLoadSettings}
    BY <1>3, PlacesTyped, UnrenamedPlace DEF FirstStart, LaterStart, ToLoadAll, ToLoadSettings
  <2>2. todo[t] \notin {ToRecreate, ToAdd, ToReload, ToReady}
    BY <1>3, PlacesTyped, UnrenamedPlace DEF ToRecreate, ToAdd, ToReload, ToReady
  <2> QED BY <2>1, <2>2 DEF InStart
<1> QED BY <1>2, <1>5, <1>6, <1>7, <1>8, <1>9 DEF Placed

\* What was saved is lost to a deletion only: a save that is cut off by the death of the
\* process, or that fails, leaves the file as it was, and no later one writes other settings
\* over it, whichever accesses to files fail.
THEOREM SavedAlwaysStays ==
    ASSUME OneAtATime
    PROVE  Spec => SavedStaysSaved
<1> DEFINE Stays == \A c \in Configs :
                      file[c] = c /\ file'[c] # c => \E t \in Threads : At(t, "remove") /\ Arg(t) = c
<1>1. OneInv /\ [Next]_vars => [Stays]_vars
  <2> SUFFICES ASSUME OneInv, [Next]_vars, NEW c \in Configs, file[c] = c, file'[c] # c
               PROVE  \E t \in Threads : At(t, "remove") /\ Arg(t) = c
    OBVIOUS
  <2>1. DiskTyped /\ SavesTyped /\ path \in Configs /\ c \notin {"missing", "empty"}
    BY TypedParts, NamesAssumption DEF OneInv, NamesTyped, NamesAssumption
  <2>2. CASE \E t \in Threads : Advance(t)
    <3>1. PICK t \in Threads : Advance(t)
      BY <2>2
    <3>2. At(t, "select") \/ At(t, "remove") => Arg(t) \in Configs
      BY <3>1, AdvanceNames DEF OneInv
    <3>3. CASE Rename(t)
      <4>1. At(t, "rename")
        BY <3>3 DEF Rename
      <4>2. tmp[job[t].path] = held /\ job[t].path = path /\ Harmless(held)
        BY <3>1, <4>1, RenamesOwn
      <4>3. file' = file \/ file' = [file EXCEPT ![path] = held]
        BY <3>3, <4>2 DEF Rename
      <4> QED BY <2>1, <4>2, <4>3 DEF DiskTyped, Harmless
    <3>4. CASE Select(t)
      <4> HIDE DEF Arg
      <4>1. file'[c] = file[c]
        BY <2>1, <3>2, <3>4 DEF Select, DiskTyped
      <4> QED BY <4>1
    <3>5. CASE RemoveFile(t)
      <4> HIDE DEF Arg
      <4>1. At(t, "remove") /\ Arg(t) = c
        BY <2>1, <3>2, <3>5 DEF RemoveFile, DiskTyped
      <4> QED BY <4>1
    <3> QED BY <3>1, <3>3, <3>4, <3>5 DEF Advance, disk, SaveSettings, Collect, OpenTemporary, OpenFails,
       WriteTemporary, DumpFails, RenameFails, Discard, SavePrivate, TruncatePrivate, PrivateRefused, Serialise,
       AppendPrivate, AppendFails, LoadPrivate, LoadSettings, RequestRestart, Reset, Reload,
       RecreateAtStart, AddSettings, Ready
  <2>3. CASE Start
    BY <2>1, <2>3 DEF Start, DiskTyped
  <2>4. CASE UNCHANGED file
    BY <2>4
  <2> QED BY <2>2, <2>3, <2>4 DEF Next, Crash, BeginRestart, Begin, vars, disk
<1>2. OneInv /\ [Next]_vars => [\A c \in Configs : file[c] = c /\ file'[c] # c
                                  => \E t \in Threads : At(t, "remove") /\ Arg(t) = c]_vars
  BY <1>1
<1> QED BY <1>2, AlwaysOne, PTL DEF Spec, SavedStaysSaved
================================================================================
