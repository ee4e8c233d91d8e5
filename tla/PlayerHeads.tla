------------------------------ MODULE PlayerHeads ------------------------------
(***************************************************************************)
(* The DX12 cache of player heads of the tab list                          *)
(* (src/src/Client/Module/Modules/TabList/TabList.cpp): the descriptor     *)
(* allocator, the texture cache on top of it, the loader threads between   *)
(* them, and the two ways the cache is torn down: TabList::onDisable, which*)
(* restart() and terminate() call from the init thread, and a resize of    *)
(* the swapchain, which happens on the render thread between two frames.   *)
(*                                                                         *)
(* A step is a stretch of code under one lock.  pcRender = "trim" and      *)
(* pcClean = "clear" are loops that hold g_playerHeadMutex.  A time stamp  *)
(* is only ever compared, so the model keeps the order of the stamps:      *)
(* byAge and texByAge list the entries from the oldest to the newest.      *)
(* Descriptor ids are counted from PLAYERHEAD_DESCRIPTOR_START.            *)
(***************************************************************************)
EXTENDS Naturals, FiniteSets, SequencesExt

CONSTANTS
    Players,         \* the texture keys of the tab list's players
    Workers,         \* the loader threads (NUM_LOADER_THREADS = 3)
    NoPlayer,        \* what an idle loader works on, and what an unwritten heap slot shows
    Outcomes,        \* how an upload may end: "ok", "failed", "left" or "unavailable"
    MaxDescriptors,  \* MAX_PLAYERHEAD_DESCRIPTORS (2000)
    MaxCached,       \* the limit of CleanupOldPlayerHeads (500)
    MaxTextures,     \* MAX_TEXTURE_CACHE_SIZE (200)
    MaxQueue         \* MAX_QUEUE_SIZE (200)

ASSUME NoPlayerAssumption == NoPlayer \notin Players
ASSUME OutcomesAssumption == Outcomes \subseteq {"ok", "failed", "left", "unavailable"}
ASSUME LimitsAssumption ==
    MaxDescriptors \in Nat /\ MaxCached \in Nat /\ MaxTextures \in Nat /\ MaxQueue \in Nat

VARIABLES
    owner,      \* playerHeadDescriptors: the player each registered id is for
    byAge,      \* the registered ids by lastUsed
    freeIds,    \* freePlayerHeadDescriptors
    nextId,     \* nextPlayerHeadDescriptorId
    slot,       \* the descriptor heap: whose head the view in each slot shows
    texture,    \* g_playerHeadTextures
    texByAge,   \* the valid textures by lastUsed
    loadQueue,  \* g_loadQueue
    readyQueue, \* g_readyQueue
    working,    \* the task each loader thread holds
    loading,    \* the loader threads exist
    enabled,    \* the tab list is subscribed to the RenderEvent
    pcRender,   \* where the render thread is in TabList::onRender
    victims,    \* what is left of the trim loop
    pcClean     \* where a teardown is

allocator == <<owner, byAge, freeIds, nextId>>
cache     == <<slot, texture, texByAge>>
loaders   == <<loadQueue, readyQueue, working, loading>>
control   == <<enabled, pcRender, victims, pcClean>>
vars      == <<allocator, cache, loaders, control>>

Ids == 0..(MaxDescriptors - 1)
NoId == MaxDescriptors               \* UINT_MAX
Texture == [state : {"Loading", "Loaded", "Failed"}, valid : BOOLEAN, id : Ids \cup {NoId}]

TypeOK ==
    /\ DOMAIN owner \subseteq Ids /\ owner \in [DOMAIN owner -> Players]
    /\ byAge \in Seq(Ids) /\ freeIds \in Seq(Ids)
    /\ nextId \in 0..MaxDescriptors
    /\ slot \in [Ids -> Players \cup {NoPlayer}]
    /\ DOMAIN texture \subseteq Players /\ texture \in [DOMAIN texture -> Texture]
    /\ texByAge \in Seq(Players)
    /\ loadQueue \in Seq(Players) /\ readyQueue \in Seq(Players)
    /\ working \in [Workers -> Players \cup {NoPlayer}]
    /\ loading \in BOOLEAN /\ enabled \in BOOLEAN
    /\ pcRender \in {"idle", "ready", "trim", "draw"}
    /\ victims \in Seq(Players)
    /\ pcClean \in {"idle", "disable", "resize", "clear_disable", "clear_resize", "reset"}

\* An entry whose time stamp is renewed becomes the newest.
Touch(s, e) == Append(RemoveFirst(s, e), e)
Put(f, k, v) == [x \in DOMAIN f \cup {k} |-> IF x = k THEN v ELSE f[x]]
Drop(f, keys) == Restrict(f, DOMAIN f \ keys)

Valid(p) == p \in DOMAIN texture /\ texture[p].valid
LoadState(p) == IF p \in DOMAIN texture THEN texture[p].state ELSE "NotLoaded"
IdOf(p) == IF p \in DOMAIN texture THEN texture[p].id ELSE NoId

-----------------------------------------------------------------------------
(* The descriptor allocator: AllocatePlayerHeadDescriptor and              *)
(* FreePlayerHeadDescriptor, each under playerHeadDescriptorMutex.         *)

\* The ids already registered for player p.
Held(p) == {d \in DOMAIN owner : owner[d] = p}

\* Mutant of Candidates: the limit is tested with <= .
CandidatesBeyondEnd(p) ==
    IF Held(p) # {} THEN Held(p)
    ELSE IF freeIds # <<>> THEN {Head(freeIds)}
    ELSE IF nextId <= MaxDescriptors THEN {nextId} ELSE {}

\* The id that an allocation for p returns: p's own, a freed one, a new one, or none.
Candidates(p) ==
    IF Held(p) # {} THEN Held(p)
    ELSE IF freeIds # <<>> THEN {Head(freeIds)}
    ELSE IF nextId < MaxDescriptors THEN {nextId} ELSE {}

Register(p, d) ==
    /\ owner' = Put(owner, d, p)
    /\ byAge' = Touch(byAge, d)
    /\ freeIds' = IF Held(p) = {} /\ freeIds # <<>> THEN Tail(freeIds) ELSE freeIds
    /\ nextId' = IF Held(p) = {} /\ freeIds = <<>> THEN nextId + 1 ELSE nextId

\* An id that is not registered is ignored: it is free already.
FreePlayerHeadDescriptor(d) ==
    IF d \in DOMAIN owner
    THEN /\ owner' = Drop(owner, {d})
         /\ byAge' = RemoveFirst(byAge, d)
         /\ freeIds' = Append(freeIds, d)
         /\ UNCHANGED nextId
    ELSE UNCHANGED allocator

-----------------------------------------------------------------------------
(* TabList::onRender, one frame: the ready textures, now and then the      *)
(* cleanup, then a request for every player that is drawn.                 *)

\* The render thread runs neither inside a resize nor while a teardown holds the lock.
RenderMayRun == pcClean \notin {"resize", "clear_resize", "reset", "clear_disable"}

Frame ==
    /\ pcRender = "idle" /\ enabled /\ RenderMayRun
    /\ pcRender' = "ready"
    /\ UNCHANGED <<allocator, cache, loaders, enabled, victims, pcClean>>

\* CreateTextureFromBytesDX12Sync for the first ready head.  "unavailable" returns
\* before the cache is looked at; "left" returns from the middle of the upload, where
\* loadState stays Loading.
ProcessReady(outcome) ==
    /\ pcRender = "ready" /\ readyQueue # <<>> /\ RenderMayRun
    /\ readyQueue' = Tail(readyQueue)
    /\ LET p == Head(readyQueue)
       IN  \/ /\ outcome = "unavailable"
              /\ UNCHANGED <<allocator, cache>>
           \/ /\ outcome # "unavailable" /\ Valid(p)
              /\ texByAge' = Touch(texByAge, p)
              /\ UNCHANGED <<allocator, slot, texture>>
           \/ /\ outcome # "unavailable" /\ ~Valid(p) /\ Candidates(p) = {}
              /\ texture' = Put(texture, p, [state |-> "Failed", valid |-> FALSE, id |-> IdOf(p)])
              /\ UNCHANGED <<allocator, slot, texByAge>>
           \/ /\ outcome # "unavailable" /\ ~Valid(p)
              /\ \E d \in Candidates(p) :
                    /\ Register(p, d)
                    /\ texture' = Put(texture, p,
                          [state |-> CASE outcome = "ok" -> "Loaded" [] outcome = "failed" -> "Failed"
                                       [] OTHER -> "Loading",
                           valid |-> outcome = "ok", id |-> d])
                    /\ slot' = IF outcome = "ok" THEN [slot EXCEPT ![d] = p] ELSE slot
                    /\ texByAge' = IF outcome = "ok" THEN Touch(texByAge, p) ELSE texByAge
    /\ UNCHANGED <<loadQueue, working, loading, control>>

\* The frame's share of ready textures is done (or the frame was slow), no cleanup is due.
ReadyDone ==
    /\ pcRender = "ready"
    /\ pcRender' = "draw"
    /\ UNCHANGED <<allocator, cache, loaders, enabled, victims, pcClean>>

\* Mutant of CleanupOldPlayerHeads: an evicted id is freed and stays registered.
CleanupKeepsOwner ==
    /\ pcRender = "ready" /\ RenderMayRun
    /\ freeIds' = freeIds \o SubSeq(byAge, 1, Len(byAge) - MaxCached)
    /\ pcRender' = "trim"
    /\ UNCHANGED <<owner, byAge, nextId, cache, loaders, enabled, victims, pcClean>>

\* CleanupOldPlayerHeads(MaxCached): the oldest registered ids are freed ...
CleanupOldPlayerHeads ==
    /\ pcRender = "ready" /\ RenderMayRun
    /\ LET excess == IF Len(byAge) > MaxCached THEN Len(byAge) - MaxCached ELSE 0
           oldest == SubSeq(byAge, 1, excess)
       IN  /\ owner' = Drop(owner, ToSet(oldest))
           /\ byAge' = SubSeq(byAge, excess + 1, Len(byAge))
           /\ freeIds' = freeIds \o oldest
    /\ pcRender' = "trim"
    /\ victims' = LET size == Cardinality(DOMAIN texture)
                  IN  IF size > MaxTextures
                      THEN SubSeq(texByAge, 1, Min({size - MaxTextures, Len(texByAge)})) ELSE <<>>
    /\ UNCHANGED <<nextId, cache, loaders, enabled, pcClean>>

\* Mutant of TrimOne: the id is freed and the texture is kept.
TrimKeepsTexture ==
    /\ pcRender = "trim" /\ victims # <<>>
    /\ FreePlayerHeadDescriptor(texture[Head(victims)].id)
    /\ victims' = Tail(victims)
    /\ UNCHANGED <<cache, loaders, enabled, pcRender, pcClean>>

\* ... then the oldest valid textures, and their ids.
TrimOne ==
    /\ pcRender = "trim" /\ victims # <<>>
    /\ LET p == Head(victims)
       IN  /\ FreePlayerHeadDescriptor(texture[p].id)
           /\ texture' = Drop(texture, {p})
           /\ texByAge' = RemoveFirst(texByAge, p)
    /\ victims' = Tail(victims)
    /\ UNCHANGED <<slot, loaders, enabled, pcRender, pcClean>>

TrimDone ==
    /\ pcRender = "trim" /\ victims = <<>>
    /\ pcRender' = "draw"
    /\ UNCHANGED <<allocator, cache, loaders, enabled, victims, pcClean>>

\* CreateTextureFromBytesDX12 for a player that is drawn, and the draw.
Request(p) ==
    /\ pcRender = "draw" /\ RenderMayRun
    /\ \/ /\ Valid(p)
          /\ texByAge' = Touch(texByAge, p)
          /\ UNCHANGED <<texture, loadQueue>>
       \/ /\ LoadState(p) \in {"NotLoaded", "Failed"}
          /\ texture' = Put(texture, p, [state |-> "Loading", valid |-> FALSE, id |-> IdOf(p)])
          /\ loadQueue' = IF Len(loadQueue) < MaxQueue THEN Append(loadQueue, p) ELSE loadQueue
          /\ UNCHANGED texByAge
    /\ UNCHANGED <<allocator, slot, readyQueue, working, loading, control>>

FrameEnd ==
    /\ pcRender = "draw"
    /\ pcRender' = "idle"
    /\ UNCHANGED <<allocator, cache, loaders, enabled, victims, pcClean>>

RenderThread ==
    \/ Frame \/ ReadyDone \/ CleanupOldPlayerHeads \/ TrimOne \/ TrimDone \/ FrameEnd
    \/ \E o \in Outcomes : ProcessReady(o)
    \/ \E p \in Players : Request(p)

-----------------------------------------------------------------------------
(* PlayerHeadLoaderWorker                                                  *)

TakeTask(w) ==
    /\ loading /\ working[w] = NoPlayer /\ loadQueue # <<>>
    /\ working' = [working EXCEPT ![w] = Head(loadQueue)]
    /\ loadQueue' = Tail(loadQueue)
    /\ UNCHANGED <<allocator, cache, readyQueue, loading, control>>

\* Mutant of FinishTask: the worker drops its task.
FinishTaskDrops(w) ==
    /\ working[w] # NoPlayer
    /\ working' = [working EXCEPT ![w] = NoPlayer]
    /\ UNCHANGED <<allocator, cache, loadQueue, readyQueue, loading, control>>

FinishTask(w) ==
    /\ working[w] # NoPlayer
    /\ readyQueue' = Append(readyQueue, working[w])
    /\ working' = [working EXCEPT ![w] = NoPlayer]
    /\ UNCHANGED <<allocator, cache, loadQueue, loading, control>>

-----------------------------------------------------------------------------
(* The teardown: StopAsyncLoading, CleanupPlayerHeadTextures and, after a  *)
(* resize, ResetDescriptorState and ReinitializeAfterResize.               *)

\* StopAsyncLoading, once the loader threads have been joined: both queues are emptied.
StopAsyncLoading(reason) ==
    /\ pcClean = "idle"
    /\ \/ reason = "disable" /\ enabled /\ enabled' = FALSE
       \/ reason = "resize" /\ pcRender = "idle" /\ UNCHANGED enabled
    /\ loadQueue' = <<>> /\ readyQueue' = <<>>
    /\ working' = [w \in Workers |-> NoPlayer]
    /\ loading' = FALSE
    /\ pcClean' = reason
    /\ UNCHANGED <<allocator, cache, pcRender, victims>>

\* The loop over g_playerHeadTextures waits for its lock ...
ClearBegin ==
    /\ pcRender # "trim"
    /\ \/ pcClean = "disable" /\ pcClean' = "clear_disable"
       \/ pcClean = "resize" /\ pcClean' = "clear_resize"
    /\ UNCHANGED <<allocator, cache, loaders, enabled, pcRender, victims>>

\* ... frees the id of a valid texture ...
ClearOne(p) ==
    /\ pcClean \in {"clear_disable", "clear_resize"} /\ Valid(p)
    /\ FreePlayerHeadDescriptor(texture[p].id)
    /\ texture' = Drop(texture, {p})
    /\ texByAge' = RemoveFirst(texByAge, p)
    /\ UNCHANGED <<slot, loaders, control>>

\* ... and ends with g_playerHeadTextures.clear().
ClearEnd ==
    /\ pcClean \in {"clear_disable", "clear_resize"} /\ \A p \in Players : ~Valid(p)
    /\ texture' = [p \in {} |-> NoPlayer]
    /\ pcClean' = IF pcClean = "clear_resize" THEN "reset" ELSE "idle"
    /\ UNCHANGED <<allocator, slot, texByAge, loaders, enabled, pcRender, victims>>

\* Mutant of ResetDescriptorState: the loader threads are not started again.
ResetWithoutReinitialize ==
    /\ pcClean = "reset"
    /\ owner' = [d \in {} |-> NoPlayer]
    /\ byAge' = <<>> /\ freeIds' = <<>> /\ nextId' = 0
    /\ texture' = [p \in {} |-> NoPlayer] /\ texByAge' = <<>>
    /\ pcClean' = "idle"
    /\ UNCHANGED <<slot, loaders, enabled, pcRender, victims>>

ResetDescriptorState ==
    /\ pcClean = "reset"
    /\ owner' = [d \in {} |-> NoPlayer]
    /\ byAge' = <<>> /\ freeIds' = <<>> /\ nextId' = 0
    /\ texture' = [p \in {} |-> NoPlayer] /\ texByAge' = <<>>
    /\ loading' = enabled
    /\ pcClean' = "idle"
    /\ UNCHANGED <<slot, loadQueue, readyQueue, working, enabled, pcRender, victims>>

\* TabList::onEnable
Enable ==
    /\ ~enabled /\ pcClean = "idle"
    /\ enabled' = TRUE /\ loading' = TRUE
    /\ UNCHANGED <<allocator, cache, loadQueue, readyQueue, working, pcRender, victims, pcClean>>

Teardown ==
    \/ StopAsyncLoading("disable") \/ StopAsyncLoading("resize")
    \/ ClearBegin \/ ClearEnd \/ ResetDescriptorState \/ Enable
    \/ \E p \in Players : ClearOne(p)

-----------------------------------------------------------------------------

Init ==
    /\ owner = [d \in {} |-> NoPlayer] /\ byAge = <<>> /\ freeIds = <<>> /\ nextId = 0
    /\ slot = [d \in Ids |-> NoPlayer]
    /\ texture = [p \in {} |-> NoPlayer] /\ texByAge = <<>>
    /\ loadQueue = <<>> /\ readyQueue = <<>>
    /\ working = [w \in Workers |-> NoPlayer]
    /\ loading = TRUE /\ enabled = TRUE
    /\ pcRender = "idle" /\ victims = <<>> /\ pcClean = "idle"

Next ==
    \/ RenderThread
    \/ \E w \in Workers : TakeTask(w) \/ FinishTask(w)
    \/ Teardown

\* The game draws frames, not every frame is a slow one, loader threads are scheduled,
\* and a teardown runs to its end.
Fairness ==
    /\ WF_vars(Frame \/ ReadyDone \/ TrimOne \/ TrimDone \/ FrameEnd)
    /\ SF_vars(\E o \in Outcomes : ProcessReady(o))
    /\ \A w \in Workers : WF_vars(TakeTask(w) \/ FinishTask(w))
    /\ WF_vars(ClearBegin \/ ClearEnd \/ ResetDescriptorState \/ \E p \in Players : ClearOne(p))

Spec == Init /\ [][Next]_vars
FairSpec == Spec /\ Fairness

-----------------------------------------------------------------------------
(* Properties                                                              *)

\* No descriptor is lost or handed out twice: the ids below nextId are the registered
\* ones and the free ones, and no id is free twice or both (AllocatePlayerHeadDescriptor,
\* FreePlayerHeadDescriptor and CleanupOldPlayerHeads keep a map and a queue in step).
DescriptorsConserved ==
    /\ DOMAIN owner \cup ToSet(freeIds) = 0..(nextId - 1)
    /\ DOMAIN owner \cap ToSet(freeIds) = {}
    /\ Cardinality(ToSet(freeIds)) = Len(freeIds)
    /\ ToSet(byAge) = DOMAIN owner /\ Cardinality(DOMAIN owner) = Len(byAge)

\* A player is drawn with the player's own head: the slot of a valid texture shows it
\* and is registered for that player, whatever was evicted, freed and reused.
OwnHead ==
    \A p \in Players : Valid(p) =>
        /\ slot[texture[p].id] = p
        /\ texture[p].id \in DOMAIN owner /\ owner[texture[p].id] = p

\* A descriptor that the cleanup frees is unused (TabList.cpp:661, "Periodic cleanup to
\* free unused descriptors and textures"): no valid texture still draws from it.
OnlyUnusedFreed ==
    \A p \in Players : Valid(p) => texture[p].id \notin ToSet(freeIds)

\* A head that is shown as loading is being loaded (TabList.cpp:1280, "Already
\* loading"): its task is in a queue or with a loader thread, unless a teardown is
\* between dropping the tasks and dropping the textures.
LoadingIsUnderway ==
    \A p \in Players : LoadState(p) = "Loading" /\ pcClean = "idle" =>
        \/ p \in ToSet(loadQueue) \cup ToSet(readyQueue)
        \/ \E w \in Workers : working[w] = p

\* A head that is requested is eventually loaded, failed or dropped, while the tab
\* list stays enabled.
HeadsSettle ==
    \A p \in Players : LoadState(p) = "Loading" ~> (~enabled \/ LoadState(p) # "Loading")
================================================================================
