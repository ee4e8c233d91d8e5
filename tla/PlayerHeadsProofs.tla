--------------------------- MODULE PlayerHeadsProofs ---------------------------
(***************************************************************************)
(* For any set of players, any number of loader threads and any limits: no *)
(* descriptor is lost or handed out twice.  As long as there are no more   *)
(* players than the cleanup keeps descriptors for, every player is drawn   *)
(* with the player's own head; with one player more the cleanup frees ids  *)
(* that valid textures still draw from.                                    *)
(***************************************************************************)
EXTENDS PlayerHeads, UniqueSequences

\* The map of the registered ids, their order of age and the queue of the free ids.
AllocInv ==
    /\ DOMAIN owner \subseteq Ids /\ owner \in [DOMAIN owner -> Players]
    /\ byAge \in Seq(Ids) /\ IsInjective(byAge) /\ ToSet(byAge) = DOMAIN owner
    /\ freeIds \in Seq(Ids) /\ IsInjective(freeIds)
    /\ nextId \in 0..MaxDescriptors
    /\ DOMAIN owner \cup ToSet(freeIds) = 0..(nextId - 1)
    /\ DOMAIN owner \cap ToSet(freeIds) = {}

\* The textures, their order of age and the queues.
CacheTyped ==
    /\ slot \in [Ids -> Players \cup {NoPlayer}]
    /\ DOMAIN texture \subseteq Players /\ texture \in [DOMAIN texture -> Texture]
    /\ IsFiniteSet(DOMAIN texture)
    /\ texByAge \in Seq(Players) /\ IsInjective(texByAge)
    /\ loadQueue \in Seq(Players) /\ readyQueue \in Seq(Players)
    /\ working \in [Workers -> Players \cup {NoPlayer}]
    /\ loading \in BOOLEAN /\ enabled \in BOOLEAN
    /\ pcRender \in {"idle", "ready", "trim", "draw"}
    /\ victims \in Seq(Players)
    /\ pcClean \in {"idle", "disable", "resize", "clear_disable", "clear_resize", "reset"}

-----------------------------------------------------------------------------
(* The helpers.                                                            *)

LEMMA Touched ==
    ASSUME NEW S, NEW s \in Seq(S), NEW e \in S, IsInjective(s)
    PROVE  /\ Touch(s, e) \in Seq(S) /\ IsInjective(Touch(s, e))
           /\ ToSet(Touch(s, e)) = ToSet(s) \cup {e}
<1> DEFINE r == RemoveFirst(s, e)
<1>1. r \in Seq(S) /\ IsInjective(r) /\ ToSet(r) = ToSet(s) \ {e}
  BY RemoveUnique
<1> HIDE DEF r
<1>2. /\ Append(r, e) \in Seq(S) /\ IsInjective(Append(r, e))
      /\ ToSet(Append(r, e)) = ToSet(s) \cup {e}
  BY <1>1, AppendNew
<1> QED BY <1>2 DEF Touch, r

LEMMA PutThere ==
    ASSUME NEW f, NEW k, NEW v
    PROVE  /\ DOMAIN Put(f, k, v) = DOMAIN f \cup {k}
           /\ Put(f, k, v)[k] = v
           /\ \A x \in DOMAIN f \ {k} : Put(f, k, v)[x] = f[x]
           /\ \A S : f \in [DOMAIN f -> S] /\ v \in S => Put(f, k, v) \in [DOMAIN f \cup {k} -> S]
BY DEF Put

LEMMA Dropped ==
    ASSUME NEW f, NEW keys
    PROVE  /\ DOMAIN Drop(f, keys) = DOMAIN f \ keys
           /\ \A x \in DOMAIN f \ keys : Drop(f, keys)[x] = f[x]
           /\ \A S : f \in [DOMAIN f -> S] => Drop(f, keys) \in [DOMAIN f \ keys -> S]
BY DEF Drop, Restrict

-----------------------------------------------------------------------------
(* The allocator.                                                          *)

LEMMA AllocatorInit == Init => AllocInv
<1> SUFFICES ASSUME Init PROVE AllocInv
  OBVIOUS
<1>1. DOMAIN owner = {} /\ owner \in [{} -> Players]
  BY DEF Init
<1>2. 0..(nextId - 1) = {} /\ nextId \in 0..MaxDescriptors
  BY LimitsAssumption DEF Init, LimitsAssumption
<1>3. \A s : s = <<>> => s \in Seq(Ids) /\ ToSet(s) = {} /\ IsInjective(s)
  BY NothingThere
<1>4. byAge = <<>> /\ freeIds = <<>>
  BY DEF Init
<1> QED BY <1>1, <1>2, <1>3, <1>4 DEF AllocInv

LEMMA AllocatorRegister ==
    ASSUME AllocInv, NEW p \in Players, NEW d \in Candidates(p), Register(p, d)
    PROVE  /\ AllocInv' /\ d \in Ids
           /\ \/ d \in DOMAIN owner /\ owner[d] = p
              \/ Held(p) = {} /\ d \notin DOMAIN owner
           /\ DOMAIN owner' = DOMAIN owner \cup {d}
           /\ owner'[d] = p /\ \A x \in DOMAIN owner \ {d} : owner'[x] = owner[x]
<1>0. /\ owner' = Put(owner, d, p) /\ byAge' = Touch(byAge, d)
      /\ owner \in [DOMAIN owner -> Players] /\ byAge \in Seq(Ids) /\ IsInjective(byAge)
  BY DEF Register, AllocInv
<1>1. /\ DOMAIN owner' = DOMAIN owner \cup {d}
      /\ owner'[d] = p /\ \A x \in DOMAIN owner \ {d} : owner'[x] = owner[x]
  BY <1>0 DEF Put
<1>2. owner' \in [DOMAIN owner' -> Players]
  BY <1>0, <1>1, PutThere
<1>3. MaxDescriptors \in Nat /\ nextId \in Nat /\ nextId <= MaxDescriptors
  BY LimitsAssumption DEF LimitsAssumption, AllocInv
<1>4. CASE Held(p) # {}
  <2>1. d \in DOMAIN owner /\ owner[d] = p /\ freeIds' = freeIds /\ nextId' = nextId
    BY <1>4 DEF Candidates, Held, Register
  <2>2. d \in Ids /\ ToSet(byAge) \cup {d} = DOMAIN owner
    BY <2>1 DEF AllocInv
  <2>3. byAge' \in Seq(Ids) /\ IsInjective(byAge') /\ ToSet(byAge') = ToSet(byAge) \cup {d}
    BY <1>0, <2>2, Touched
  <2>4. DOMAIN owner' = DOMAIN owner
    BY <1>1, <2>1
  <2>5. ToSet(byAge') = DOMAIN owner'
    BY <2>2, <2>3, <2>4
  <2>6. /\ DOMAIN owner' \cup ToSet(freeIds') = 0..(nextId' - 1)
        /\ DOMAIN owner' \cap ToSet(freeIds') = {}
        /\ DOMAIN owner' \subseteq Ids /\ nextId' \in 0..MaxDescriptors
        /\ freeIds' \in Seq(Ids) /\ IsInjective(freeIds')
    BY <2>1, <2>4 DEF AllocInv
  <2>7. AllocInv'
    BY <1>2, <2>3, <2>5, <2>6 DEF AllocInv
  <2> QED BY <1>1, <2>1, <2>2, <2>7
<1>5. CASE Held(p) = {} /\ freeIds # <<>>
  <2>1. d = Head(freeIds) /\ freeIds' = Tail(freeIds) /\ nextId' = nextId
    BY <1>5 DEF Candidates, Register
  <2>2. /\ d \in ToSet(freeIds) /\ d \in Ids /\ freeIds' \in Seq(Ids) /\ IsInjective(freeIds')
        /\ ToSet(freeIds') = ToSet(freeIds) \ {d}
    BY <1>5, <2>1, TailUnique, HeadTailElements DEF AllocInv
  <2>3. byAge' \in Seq(Ids) /\ IsInjective(byAge') /\ ToSet(byAge') = DOMAIN owner \cup {d}
    <3>1. ToSet(byAge) = DOMAIN owner
      BY DEF AllocInv
    <3> QED BY <1>0, <2>2, <3>1, Touched
  <2>4. DOMAIN owner' = DOMAIN owner \cup {d}
    BY <1>1
  <2>5. DOMAIN owner' \cup ToSet(freeIds') = 0..(nextId' - 1)
    BY <2>1, <2>2, <2>4 DEF AllocInv
  <2>6. DOMAIN owner' \cap ToSet(freeIds') = {} /\ DOMAIN owner' \subseteq Ids
    BY <2>2, <2>4 DEF AllocInv
  <2>7. nextId' \in 0..MaxDescriptors
    BY <2>1 DEF AllocInv
  <2>8. AllocInv'
    BY <1>2, <2>2, <2>3, <2>4, <2>5, <2>6, <2>7 DEF AllocInv
  <2>9. Held(p) = {} /\ d \notin DOMAIN owner
    BY <1>5, <2>2 DEF AllocInv
  <2> QED BY <1>1, <2>2, <2>8, <2>9
<1>6. CASE Held(p) = {} /\ freeIds = <<>>
  <2>1. d = nextId /\ nextId < MaxDescriptors /\ freeIds' = freeIds /\ nextId' = nextId + 1
    BY <1>6 DEF Candidates, Register
  <2>2. d \in Ids /\ nextId' \in 0..MaxDescriptors
    BY <1>3, <2>1 DEF Ids
  <2>3. byAge' \in Seq(Ids) /\ IsInjective(byAge') /\ ToSet(byAge') = DOMAIN owner \cup {d}
    <3>1. ToSet(byAge) = DOMAIN owner
      BY DEF AllocInv
    <3> QED BY <1>0, <2>2, <3>1, Touched
  <2>4. 0..(nextId' - 1) = 0..(nextId - 1) \cup {d} /\ d \notin 0..(nextId - 1)
    BY <1>3, <2>1
  <2>5. ToSet(freeIds) = {}
    BY <1>6, NothingThere
  <2>6. DOMAIN owner' \cup ToSet(freeIds') = 0..(nextId' - 1)
    BY <1>1, <2>1, <2>4, <2>5 DEF AllocInv
  <2>7. d \notin DOMAIN owner
    BY <2>4 DEF AllocInv
  <2> QED BY <1>1, <1>2, <1>6, <2>1, <2>2, <2>3, <2>5, <2>6, <2>7 DEF AllocInv
<1> QED BY <1>1, <1>4, <1>5, <1>6

LEMMA AllocatorFree ==
    ASSUME AllocInv, NEW d, FreePlayerHeadDescriptor(d)
    PROVE  /\ AllocInv'
           /\ DOMAIN owner' = DOMAIN owner \ {d}
           /\ \A x \in DOMAIN owner \ {d} : owner'[x] = owner[x]
<1>1. CASE d \in DOMAIN owner
  <2>1. /\ owner' = Drop(owner, {d}) /\ byAge' = RemoveFirst(byAge, d)
        /\ freeIds' = Append(freeIds, d) /\ nextId' = nextId
    BY <1>1 DEF FreePlayerHeadDescriptor
  <2>2. /\ DOMAIN owner' = DOMAIN owner \ {d}
        /\ \A x \in DOMAIN owner \ {d} : owner'[x] = owner[x]
        /\ owner' \in [DOMAIN owner' -> Players]
    BY <2>1, Dropped DEF AllocInv
  <2>3. byAge' \in Seq(Ids) /\ IsInjective(byAge') /\ ToSet(byAge') = DOMAIN owner \ {d}
    BY <2>1, RemoveUnique DEF AllocInv
  <2>4. d \in Ids /\ d \notin ToSet(freeIds)
    BY <1>1 DEF AllocInv
  <2>5. /\ freeIds' \in Seq(Ids) /\ IsInjective(freeIds')
        /\ ToSet(freeIds') = ToSet(freeIds) \cup {d}
    BY <2>1, <2>4, AppendNew DEF AllocInv
  <2> QED BY <1>1, <2>1, <2>2, <2>3, <2>5 DEF AllocInv
<1>2. CASE d \notin DOMAIN owner
  BY <1>2 DEF FreePlayerHeadDescriptor, allocator, AllocInv
<1> QED BY <1>1, <1>2

LEMMA AllocatorCleanup ==
    ASSUME AllocInv, CleanupOldPlayerHeads
    PROVE  AllocInv' /\ (Len(byAge) <= MaxCached => owner' = owner)
<1> DEFINE excess == IF Len(byAge) > MaxCached THEN Len(byAge) - MaxCached ELSE 0
           oldest == SubSeq(byAge, 1, excess)
           rest == SubSeq(byAge, excess + 1, Len(byAge))
<1>1. /\ owner' = Drop(owner, ToSet(oldest)) /\ byAge' = rest
      /\ freeIds' = freeIds \o oldest /\ nextId' = nextId
  BY DEF CleanupOldPlayerHeads
<1>2. Len(byAge) \in Nat /\ MaxCached \in Nat
  BY Elements, LimitsAssumption DEF AllocInv, LimitsAssumption
<1>3. excess \in 0..Len(byAge)
  BY <1>2
<1>4. Len(byAge) <= MaxCached => excess = 0
  BY <1>2
<1> HIDE DEF excess
<1>5. /\ oldest \in Seq(Ids) /\ IsInjective(oldest) /\ rest \in Seq(Ids) /\ IsInjective(rest)
      /\ ToSet(oldest) \cup ToSet(rest) = DOMAIN owner /\ ToSet(oldest) \cap ToSet(rest) = {}
  BY <1>3, CutInTwo DEF AllocInv
<1>6. /\ freeIds' \in Seq(Ids) /\ IsInjective(freeIds')
      /\ ToSet(freeIds') = ToSet(freeIds) \cup ToSet(oldest)
  <2>1. ToSet(freeIds) \cap ToSet(oldest) = {}
    BY <1>5 DEF AllocInv
  <2> HIDE DEF oldest
  <2> QED BY <1>1, <1>5, <2>1, ConcatUnique DEF AllocInv
<1>7. Len(byAge) <= MaxCached => ToSet(oldest) = {}
  <2> SUFFICES ASSUME Len(byAge) <= MaxCached PROVE ToSet(oldest) = {}
    OBVIOUS
  <2>1. oldest = <<>>
    BY <1>4, SubSeqEmpty
  <2> QED BY <2>1, NothingThere
<1> HIDE DEF oldest, rest
<1>8. /\ DOMAIN owner' = DOMAIN owner \ ToSet(oldest)
      /\ owner' \in [DOMAIN owner' -> Players]
  BY <1>1, Dropped DEF AllocInv
<1>9. Len(byAge) <= MaxCached => owner' = owner
  BY <1>1, <1>7 DEF AllocInv, Drop, Restrict
<1>10. ToSet(byAge') = DOMAIN owner'
  BY <1>1, <1>5, <1>8
<1> QED BY <1>1, <1>5, <1>6, <1>8, <1>9, <1>10 DEF AllocInv

LEMMA AllocatorNext == AllocInv /\ CacheTyped /\ [Next]_vars => AllocInv'
<1> SUFFICES ASSUME AllocInv, CacheTyped, [Next]_vars PROVE AllocInv'
  OBVIOUS
<1>1. CASE UNCHANGED allocator
  BY <1>1 DEF allocator, AllocInv
<1>2. ASSUME NEW o \in Outcomes, ProcessReady(o) PROVE AllocInv'
  <2>1. CASE \E d \in Candidates(Head(readyQueue)) : Register(Head(readyQueue), d)
    <3>1. PICK d \in Candidates(Head(readyQueue)) : Register(Head(readyQueue), d)
      BY <2>1
    <3>2. Head(readyQueue) \in Players
      BY <1>2, HeadTailElements DEF ProcessReady, CacheTyped
    <3> QED BY <3>1, <3>2, AllocatorRegister
  <2> QED BY <1>1, <1>2, <2>1 DEF ProcessReady
<1>3. CASE CleanupOldPlayerHeads
  BY <1>3, AllocatorCleanup
<1>4. CASE TrimOne
  BY <1>4, AllocatorFree DEF TrimOne
<1>5. ASSUME NEW p \in Players, ClearOne(p) PROVE AllocInv'
  BY <1>5, AllocatorFree DEF ClearOne
<1>6. CASE ResetDescriptorState
  <2>1. /\ DOMAIN owner' = {} /\ owner' \in [{} -> Players]
        /\ byAge' = <<>> /\ freeIds' = <<>> /\ nextId' = 0
    BY <1>6 DEF ResetDescriptorState
  <2>2. 0..(nextId' - 1) = {} /\ nextId' \in 0..MaxDescriptors
    BY <2>1, LimitsAssumption DEF LimitsAssumption
  <2>3. \A s : s = <<>> => s \in Seq(Ids) /\ ToSet(s) = {} /\ IsInjective(s)
    BY NothingThere
  <2> QED BY <2>1, <2>2, <2>3 DEF AllocInv
<1>7. CASE Frame \/ ReadyDone \/ TrimDone \/ FrameEnd \/ ClearBegin \/ ClearEnd \/ Enable
  BY <1>1, <1>7 DEF Frame, ReadyDone, TrimDone, FrameEnd, ClearBegin, ClearEnd, Enable
<1>8. CASE StopAsyncLoading("disable") \/ StopAsyncLoading("resize")
  BY <1>1, <1>8 DEF StopAsyncLoading
<1>9. ASSUME NEW p \in Players, Request(p) PROVE AllocInv'
  BY <1>1, <1>9 DEF Request
<1>10. ASSUME NEW w \in Workers, TakeTask(w) \/ FinishTask(w) PROVE AllocInv'
  BY <1>1, <1>10 DEF TakeTask, FinishTask
<1>11. CASE UNCHANGED vars
  BY <1>1, <1>11 DEF vars
<1> QED
  BY <1>2, <1>3, <1>4, <1>5, <1>6, <1>7, <1>8, <1>9, <1>10, <1>11
  DEF Next, RenderThread, Teardown

-----------------------------------------------------------------------------
(* The cache and the threads.                                              *)

LEMMA CacheInit == Init => CacheTyped
<1> SUFFICES ASSUME Init PROVE CacheTyped
  OBVIOUS
<1>1. DOMAIN texture = {} /\ texture \in [{} -> Texture] /\ IsFiniteSet({})
  BY FS_EmptySet DEF Init
<1>2. \A s : s = <<>> => s \in Seq(Players) /\ IsInjective(s)
  BY NothingThere
<1> QED BY <1>1, <1>2 DEF Init, CacheTyped

\* A texture that is put into the cache.
LEMMA TexturePut ==
    ASSUME CacheTyped, NEW p \in Players, NEW t \in Texture, texture' = Put(texture, p, t)
    PROVE  /\ DOMAIN texture' \subseteq Players /\ texture' \in [DOMAIN texture' -> Texture]
           /\ IsFiniteSet(DOMAIN texture')
<1>1. DOMAIN texture' = DOMAIN texture \cup {p}
  BY DEF Put
<1>2. texture' \in [DOMAIN texture' -> Texture]
  BY <1>1, PutThere DEF CacheTyped
<1>3. IsFiniteSet(DOMAIN texture')
  <2>1. IsFiniteSet(DOMAIN texture \cup {p})
    BY FS_AddElement DEF CacheTyped
  <2> QED BY <1>1, <2>1
<1> QED BY <1>1, <1>2, <1>3 DEF CacheTyped

\* A texture that is dropped, with its place in the order of age.
LEMMA TextureDropped ==
    ASSUME CacheTyped, NEW p \in Players,
           texture' = Drop(texture, {p}), texByAge' = RemoveFirst(texByAge, p)
    PROVE  /\ DOMAIN texture' \subseteq Players /\ texture' \in [DOMAIN texture' -> Texture]
           /\ IsFiniteSet(DOMAIN texture')
           /\ texByAge' \in Seq(Players) /\ IsInjective(texByAge')
           /\ ToSet(texByAge') = ToSet(texByAge) \ {p}
<1>1. /\ DOMAIN texture' = DOMAIN texture \ {p}
      /\ texture' \in [DOMAIN texture' -> Texture]
  BY Dropped DEF CacheTyped
<1>2. IsFiniteSet(DOMAIN texture')
  <2>1. IsFiniteSet(DOMAIN texture \ {p})
    BY FS_RemoveElement DEF CacheTyped
  <2> QED BY <1>1, <2>1
<1>3. /\ texByAge' \in Seq(Players) /\ IsInjective(texByAge')
      /\ ToSet(texByAge') = ToSet(texByAge) \ {p}
  BY RemoveUnique DEF CacheTyped
<1> QED BY <1>1, <1>2, <1>3 DEF CacheTyped

LEMMA IdOfTyped ==
    ASSUME CacheTyped, NEW p \in Players
    PROVE  IdOf(p) \in Ids \cup {NoId}
BY DEF CacheTyped, IdOf, Texture

LEMMA CacheProcessReady ==
    ASSUME AllocInv, CacheTyped, NEW o \in Outcomes, ProcessReady(o)
    PROVE  CacheTyped'
<1> DEFINE p == Head(readyQueue)
<1>1. p \in Players /\ readyQueue' \in Seq(Players)
  BY HeadTailElements DEF ProcessReady, CacheTyped
<1>2. UNCHANGED <<loadQueue, working, loading, control>>
  BY DEF ProcessReady
<1> SUFFICES /\ DOMAIN texture' \subseteq Players /\ texture' \in [DOMAIN texture' -> Texture]
             /\ IsFiniteSet(DOMAIN texture') /\ slot' \in [Ids -> Players \cup {NoPlayer}]
             /\ texByAge' \in Seq(Players) /\ IsInjective(texByAge')
  BY <1>1, <1>2 DEF CacheTyped, control
<1>3. Touch(texByAge, p) \in Seq(Players) /\ IsInjective(Touch(texByAge, p))
  BY <1>1, Touched DEF CacheTyped
<1>4. CASE UNCHANGED <<slot, texture>> /\ texByAge' \in {texByAge, Touch(texByAge, p)}
  BY <1>3, <1>4 DEF CacheTyped
<1>5. CASE /\ texture' = Put(texture, p, [state |-> "Failed", valid |-> FALSE, id |-> IdOf(p)])
           /\ UNCHANGED <<slot, texByAge>>
  <2>1. [state |-> "Failed", valid |-> FALSE, id |-> IdOf(p)] \in Texture
    BY <1>1, IdOfTyped DEF Texture
  <2> QED BY <1>1, <1>5, <2>1, TexturePut DEF CacheTyped
<1>6. ASSUME NEW d \in Candidates(p), Register(p, d),
             texture' = Put(texture, p,
                 [state |-> CASE o = "ok" -> "Loaded" [] o = "failed" -> "Failed"
                              [] OTHER -> "Loading",
                  valid |-> o = "ok", id |-> d]),
             slot' = IF o = "ok" THEN [slot EXCEPT ![d] = p] ELSE slot,
             texByAge' = IF o = "ok" THEN Touch(texByAge, p) ELSE texByAge
      PROVE  /\ DOMAIN texture' \subseteq Players /\ texture' \in [DOMAIN texture' -> Texture]
             /\ IsFiniteSet(DOMAIN texture') /\ slot' \in [Ids -> Players \cup {NoPlayer}]
             /\ texByAge' \in Seq(Players) /\ IsInjective(texByAge')
  <2>1. d \in Ids
    BY <1>1, <1>6, AllocatorRegister
  <2>2. [state |-> CASE o = "ok" -> "Loaded" [] o = "failed" -> "Failed" [] OTHER -> "Loading",
         valid |-> o = "ok", id |-> d] \in Texture
    BY <2>1 DEF Texture
  <2>3. slot' \in [Ids -> Players \cup {NoPlayer}]
    BY <1>1, <1>6, <2>1 DEF CacheTyped
  <2>4. texByAge' \in Seq(Players) /\ IsInjective(texByAge')
    BY <1>3, <1>6 DEF CacheTyped
  <2> QED BY <1>1, <1>6, <2>2, <2>3, <2>4, TexturePut
<1> QED BY <1>4, <1>5, <1>6 DEF ProcessReady, cache

LEMMA CacheCleanup ==
    ASSUME CacheTyped, CleanupOldPlayerHeads
    PROVE  /\ CacheTyped'
           /\ \E n \in 0..Len(texByAge) : victims' = SubSeq(texByAge, 1, n)
<1> DEFINE size == Cardinality(DOMAIN texture)
           n == Min({size - MaxTextures, Len(texByAge)})
<1>1. size \in Nat /\ MaxTextures \in Nat /\ Len(texByAge) \in Nat
  BY FS_CardinalityType, LimitsAssumption, Elements DEF CacheTyped, LimitsAssumption
<1>2. ASSUME size > MaxTextures
      PROVE  \E k \in 0..Len(texByAge) : victims' = SubSeq(texByAge, 1, k)
  <2>1. \E x \in {size - MaxTextures, Len(texByAge)} :
           \A y \in {size - MaxTextures, Len(texByAge)} : x =< y
    BY <1>1
  <2>2. n \in {size - MaxTextures, Len(texByAge)} /\ n <= Len(texByAge)
    BY <2>1 DEF Min
  <2>3. n \in 0..Len(texByAge)
    BY <1>1, <1>2, <2>2
  <2>4. victims' = SubSeq(texByAge, 1, n)
    BY <1>2 DEF CleanupOldPlayerHeads
  <2> QED BY <2>3, <2>4
<1>3. ASSUME ~(size > MaxTextures)
      PROVE  \E k \in 0..Len(texByAge) : victims' = SubSeq(texByAge, 1, k)
  <2>1. victims' = <<>> /\ SubSeq(texByAge, 1, 0) = <<>>
    BY <1>3, SubSeqEmpty DEF CleanupOldPlayerHeads
  <2> QED BY <1>1, <2>1
<1>4. PICK k \in 0..Len(texByAge) : victims' = SubSeq(texByAge, 1, k)
  BY <1>2, <1>3
<1>5. victims' \in Seq(Players)
  BY <1>4, CutInTwo DEF CacheTyped
<1> QED
  BY <1>4, <1>5 DEF CleanupOldPlayerHeads, CacheTyped, cache, loaders

LEMMA CacheNext == AllocInv /\ CacheTyped /\ [Next]_vars => CacheTyped'
<1> SUFFICES ASSUME AllocInv, CacheTyped, [Next]_vars PROVE CacheTyped'
  OBVIOUS
<1>1. \A s : s = <<>> => s \in Seq(Players) /\ IsInjective(s)
  BY NothingThere
<1>2. ASSUME NEW o \in Outcomes, ProcessReady(o) PROVE CacheTyped'
  BY <1>2, CacheProcessReady
<1>3. CASE CleanupOldPlayerHeads
  BY <1>3, CacheCleanup
<1>4. CASE TrimOne
  <2>1. Head(victims) \in Players /\ victims' \in Seq(Players)
    BY <1>4, HeadTailElements DEF TrimOne, CacheTyped
  <2>2. texture' = Drop(texture, {Head(victims)}) /\ texByAge' = RemoveFirst(texByAge, Head(victims))
    BY <1>4 DEF TrimOne
  <2> QED BY <1>4, <2>1, <2>2, TextureDropped DEF TrimOne, CacheTyped, loaders
<1>5. ASSUME NEW p \in Players, ClearOne(p) PROVE CacheTyped'
  <2>1. texture' = Drop(texture, {p}) /\ texByAge' = RemoveFirst(texByAge, p)
    BY <1>5 DEF ClearOne
  <2> QED BY <1>5, <2>1, TextureDropped DEF ClearOne, CacheTyped, loaders, control
<1>6. CASE ResetDescriptorState
  <2>1. DOMAIN texture' = {} /\ texture' \in [{} -> Texture] /\ IsFiniteSet({})
    BY <1>6, FS_EmptySet DEF ResetDescriptorState
  <2>2. texByAge' \in Seq(Players) /\ IsInjective(texByAge')
    BY <1>1, <1>6 DEF ResetDescriptorState
  <2> QED BY <1>6, <2>1, <2>2 DEF ResetDescriptorState, CacheTyped
<1>7. CASE ClearEnd
  <2>1. DOMAIN texture' = {} /\ texture' \in [{} -> Texture] /\ IsFiniteSet({})
    BY <1>7, FS_EmptySet DEF ClearEnd
  <2> QED BY <1>7, <2>1 DEF ClearEnd, CacheTyped, loaders
<1>8. CASE Frame \/ ReadyDone \/ TrimDone \/ FrameEnd \/ ClearBegin \/ Enable
  BY <1>8
  DEF Frame, ReadyDone, TrimDone, FrameEnd, ClearBegin, Enable, CacheTyped, cache, loaders
<1>9. CASE StopAsyncLoading("disable") \/ StopAsyncLoading("resize")
  BY <1>1, <1>9 DEF StopAsyncLoading, CacheTyped, cache
<1>10. ASSUME NEW p \in Players, Request(p) PROVE CacheTyped'
  <2>1. CASE Valid(p) /\ texByAge' = Touch(texByAge, p) /\ UNCHANGED <<texture, loadQueue>>
    <3>1. texByAge' \in Seq(Players) /\ IsInjective(texByAge')
      BY <2>1, Touched DEF CacheTyped
    <3> QED BY <1>10, <2>1, <3>1 DEF Request, CacheTyped, control
  <2>2. CASE /\ texture' = Put(texture, p, [state |-> "Loading", valid |-> FALSE, id |-> IdOf(p)])
             /\ loadQueue' = IF Len(loadQueue) < MaxQueue THEN Append(loadQueue, p) ELSE loadQueue
             /\ UNCHANGED texByAge
    <3>1. [state |-> "Loading", valid |-> FALSE, id |-> IdOf(p)] \in Texture
      BY IdOfTyped DEF Texture
    <3>2. /\ DOMAIN texture' \subseteq Players /\ texture' \in [DOMAIN texture' -> Texture]
          /\ IsFiniteSet(DOMAIN texture')
      BY <2>2, <3>1, TexturePut
    <3>3. loadQueue' \in Seq(Players)
      BY <2>2, AppendElements DEF CacheTyped
    <3> QED BY <1>10, <2>2, <3>2, <3>3 DEF Request, CacheTyped, control
  <2> QED BY <1>10, <2>1, <2>2 DEF Request
<1>11. ASSUME NEW w \in Workers, TakeTask(w) PROVE CacheTyped'
  <2>1. Head(loadQueue) \in Players /\ loadQueue' \in Seq(Players)
    BY <1>11, HeadTailElements DEF TakeTask, CacheTyped
  <2> QED BY <1>11, <2>1 DEF TakeTask, CacheTyped, cache, control
<1>12. ASSUME NEW w \in Workers, FinishTask(w) PROVE CacheTyped'
  <2>1. working[w] \in Players
    BY <1>12 DEF FinishTask, CacheTyped
  <2>2. readyQueue' \in Seq(Players)
    BY <1>12, <2>1, AppendElements DEF FinishTask, CacheTyped
  <2> QED BY <1>12, <2>2 DEF FinishTask, CacheTyped, cache, control
<1>13. CASE UNCHANGED vars
  BY <1>13 DEF vars, cache, loaders, control, CacheTyped
<1> QED
  BY <1>2, <1>3, <1>4, <1>5, <1>6, <1>7, <1>8, <1>9, <1>10, <1>11, <1>12, <1>13
  DEF Next, RenderThread, Teardown

HeadsTyped == AllocInv /\ CacheTyped

LEMMA AlwaysHeadsTyped == Spec => []HeadsTyped
<1>1. Init => HeadsTyped
  BY AllocatorInit, CacheInit DEF HeadsTyped
<1>2. HeadsTyped /\ [Next]_vars => HeadsTyped'
  BY AllocatorNext, CacheNext DEF HeadsTyped
<1> QED BY <1>1, <1>2, PTL DEF Spec

\* The type invariant, for any players, loader threads and limits: no id beyond the end
\* of the heap is handed out (AllocatePlayerHeadDescriptor), and no queue, cache or thread
\* holds anything but players.
THEOREM HeadsTypeCorrect == Spec => []TypeOK
<1>1. HeadsTyped => TypeOK
  BY DEF HeadsTyped, AllocInv, CacheTyped, TypeOK
<1> QED BY <1>1, AlwaysHeadsTyped, PTL

\* No descriptor is lost or handed out twice, whatever is requested, evicted, freed and
\* torn down, and in whatever order (AllocatePlayerHeadDescriptor,
\* FreePlayerHeadDescriptor, CleanupOldPlayerHeads and ResetDescriptorState).
THEOREM DescriptorsNeverLost == Spec => []DescriptorsConserved
<1>1. ASSUME HeadsTyped PROVE DescriptorsConserved
  <2>1. Cardinality(ToSet(freeIds)) = Len(freeIds) /\ Cardinality(ToSet(byAge)) = Len(byAge)
    BY <1>1, LengthOfUnique DEF HeadsTyped, AllocInv
  <2> QED BY <1>1, <2>1 DEF HeadsTyped, AllocInv, DescriptorsConserved
<1> QED BY <1>1, AlwaysHeadsTyped, PTL

-----------------------------------------------------------------------------
(* The order of age lists the valid textures, and the trim loop works on   *)
(* textures that are still there.                                          *)

ValidPlayers == {p \in Players : Valid(p)}

OrderInv ==
    /\ ToSet(texByAge) = ValidPlayers
    /\ \A p \in ValidPlayers : texture[p].state = "Loaded" /\ texture[p].id \in Ids
    /\ pcRender = "trim" =>
         /\ IsInjective(victims) /\ ToSet(victims) \subseteq ValidPlayers
         /\ pcClean \in {"idle", "disable"}

LEMMA ValidAfterPut ==
    ASSUME CacheTyped, NEW p \in Players, NEW t \in Texture, texture' = Put(texture, p, t)
    PROVE  /\ \A q \in DOMAIN texture' : texture'[q] = IF q = p THEN t ELSE texture[q]
           /\ p \in DOMAIN texture' /\ DOMAIN texture' = DOMAIN texture \cup {p}
           /\ ValidPlayers' = IF t.valid THEN ValidPlayers \cup {p} ELSE ValidPlayers \ {p}
<1>1. /\ \A q \in DOMAIN texture' : texture'[q] = IF q = p THEN t ELSE texture[q]
      /\ DOMAIN texture' = DOMAIN texture \cup {p} /\ t.valid \in BOOLEAN
  BY DEF Put, Texture
<1> QED BY <1>1 DEF ValidPlayers, Valid

LEMMA ValidAfterDrop ==
    ASSUME CacheTyped, NEW p \in Players, texture' = Drop(texture, {p})
    PROVE  /\ DOMAIN texture' = DOMAIN texture \ {p}
           /\ \A q \in DOMAIN texture' : texture'[q] = texture[q]
           /\ ValidPlayers' = ValidPlayers \ {p}
<1>1. /\ DOMAIN texture' = DOMAIN texture \ {p}
      /\ \A q \in DOMAIN texture \ {p} : texture'[q] = texture[q]
  BY Dropped
<1> QED BY <1>1 DEF ValidPlayers, Valid

LEMMA OrderInit == Init => OrderInv
<1> SUFFICES ASSUME Init PROVE OrderInv
  OBVIOUS
<1>1. ToSet(texByAge) = {} /\ ValidPlayers = {}
  BY NothingThere DEF Init, ValidPlayers, Valid
<1> QED BY <1>1 DEF Init, OrderInv

LEMMA OrderProcessReady ==
    ASSUME HeadsTyped, OrderInv, NEW o \in Outcomes, ProcessReady(o)
    PROVE  OrderInv'
<1> DEFINE p == Head(readyQueue)
<1>1. p \in Players /\ pcRender' = "ready"
  BY HeadTailElements DEF ProcessReady, HeadsTyped, CacheTyped, control
<1>2. ToSet(Touch(texByAge, p)) = ToSet(texByAge) \cup {p}
  <2>1. texByAge \in Seq(Players) /\ IsInjective(texByAge)
    BY DEF HeadsTyped, CacheTyped
  <2> HIDE DEF p
  <2> QED BY <1>1, <2>1, Touched
<1> SUFFICES /\ ToSet(texByAge') = ValidPlayers'
             /\ \A q \in ValidPlayers' : texture'[q].state = "Loaded" /\ texture'[q].id \in Ids
  BY <1>1 DEF OrderInv
<1>3. CASE UNCHANGED <<texture, texByAge>>
  BY <1>3 DEF OrderInv, ValidPlayers, Valid
<1>4. CASE Valid(p) /\ UNCHANGED texture /\ texByAge' = Touch(texByAge, p)
  <2>1. ToSet(texByAge') = ValidPlayers
    BY <1>1, <1>2, <1>4 DEF OrderInv, ValidPlayers
  <2> QED BY <1>4, <2>1 DEF OrderInv, ValidPlayers, Valid
<1>5. CASE /\ ~Valid(p) /\ UNCHANGED texByAge
           /\ texture' = Put(texture, p, [state |-> "Failed", valid |-> FALSE, id |-> IdOf(p)])
  <2> DEFINE t == [state |-> "Failed", valid |-> FALSE, id |-> IdOf(p)]
  <2>1. t \in Texture /\ ~t.valid
    BY <1>1, IdOfTyped DEF Texture, HeadsTyped
  <2> HIDE DEF t
  <2>2. /\ \A q \in DOMAIN texture' : texture'[q] = IF q = p THEN t ELSE texture[q]
        /\ ValidPlayers' = ValidPlayers \ {p}
    <3>1. texture' = Put(texture, p, t)
      BY <1>5 DEF t
    <3> HIDE DEF p
    <3> QED BY <1>1, <2>1, <3>1, ValidAfterPut DEF HeadsTyped
  <2>3. ValidPlayers' \subseteq DOMAIN texture'
    BY DEF ValidPlayers, Valid
  <2> QED BY <1>5, <2>2, <2>3 DEF OrderInv, ValidPlayers
<1>6. ASSUME ~Valid(p), NEW d \in Candidates(p), Register(p, d),
             texture' = Put(texture, p,
                 [state |-> CASE o = "ok" -> "Loaded" [] o = "failed" -> "Failed"
                              [] OTHER -> "Loading",
                  valid |-> o = "ok", id |-> d]),
             texByAge' = IF o = "ok" THEN Touch(texByAge, p) ELSE texByAge
      PROVE  /\ ToSet(texByAge') = ValidPlayers'
             /\ \A q \in ValidPlayers' : texture'[q].state = "Loaded" /\ texture'[q].id \in Ids
  <2> DEFINE t == [state |-> CASE o = "ok" -> "Loaded" [] o = "failed" -> "Failed"
                               [] OTHER -> "Loading",
                   valid |-> o = "ok", id |-> d]
  <2>1. d \in Ids
    BY <1>1, <1>6, AllocatorRegister DEF HeadsTyped
  <2>2. t \in Texture /\ (t.valid <=> o = "ok") /\ (o = "ok" => t.state = "Loaded") /\ t.id \in Ids
    BY <2>1 DEF Texture
  <2> HIDE DEF t
  <2>3. /\ \A q \in DOMAIN texture' : texture'[q] = IF q = p THEN t ELSE texture[q]
        /\ ValidPlayers' = IF t.valid THEN ValidPlayers \cup {p} ELSE ValidPlayers \ {p}
    <3>1. texture' = Put(texture, p, t)
      BY <1>6 DEF t
    <3> HIDE DEF p
    <3> QED BY <1>1, <2>2, <3>1, ValidAfterPut DEF HeadsTyped
  <2>4. ValidPlayers' \subseteq DOMAIN texture'
    BY DEF ValidPlayers, Valid
  <2>5. ToSet(texByAge') = ValidPlayers'
    BY <1>2, <1>6, <2>2, <2>3 DEF OrderInv, ValidPlayers
  <2>6. \A q \in ValidPlayers' : texture'[q].state = "Loaded" /\ texture'[q].id \in Ids
    BY <1>6, <2>2, <2>3, <2>4 DEF OrderInv, ValidPlayers
  <2> QED BY <2>5, <2>6
<1> QED BY <1>3, <1>4, <1>5, <1>6 DEF ProcessReady, cache

LEMMA OrderRequest ==
    ASSUME HeadsTyped, OrderInv, NEW p \in Players, Request(p)
    PROVE  OrderInv'
<1>1. pcRender' = "draw"
  BY DEF Request, control
<1>2. CASE Valid(p) /\ texByAge' = Touch(texByAge, p) /\ UNCHANGED texture
  <2>1. ToSet(texByAge') = ToSet(texByAge) \cup {p}
    BY <1>2, Touched DEF HeadsTyped, CacheTyped
  <2>2. ToSet(texByAge') = ValidPlayers
    BY <1>2, <2>1 DEF OrderInv, ValidPlayers
  <2> QED BY <1>1, <1>2, <2>2 DEF OrderInv, ValidPlayers, Valid
<1>3. CASE /\ LoadState(p) \in {"NotLoaded", "Failed"} /\ UNCHANGED texByAge
           /\ texture' = Put(texture, p, [state |-> "Loading", valid |-> FALSE, id |-> IdOf(p)])
  <2> DEFINE t == [state |-> "Loading", valid |-> FALSE, id |-> IdOf(p)]
  <2>1. t \in Texture /\ ~t.valid
    BY IdOfTyped DEF Texture, HeadsTyped
  <2>2. p \notin ValidPlayers
    BY <1>3 DEF OrderInv, ValidPlayers, Valid, LoadState
  <2> HIDE DEF t
  <2>3. /\ \A q \in DOMAIN texture' : texture'[q] = IF q = p THEN t ELSE texture[q]
        /\ ValidPlayers' = ValidPlayers \ {p}
    <3>1. texture' = Put(texture, p, t)
      BY <1>3 DEF t
    <3> QED BY <2>1, <3>1, ValidAfterPut DEF HeadsTyped
  <2>4. ValidPlayers' \subseteq DOMAIN texture'
    BY DEF ValidPlayers, Valid
  <2> QED BY <1>1, <1>3, <2>2, <2>3, <2>4 DEF OrderInv
<1> QED BY <1>2, <1>3 DEF Request

LEMMA OrderNext == HeadsTyped /\ OrderInv /\ [Next]_vars => OrderInv'
<1> SUFFICES ASSUME HeadsTyped, OrderInv, [Next]_vars PROVE OrderInv'
  OBVIOUS
<1>1. UNCHANGED <<texture, texByAge>>
        => ToSet(texByAge') = ValidPlayers' /\ ValidPlayers' = ValidPlayers
           /\ \A q \in ValidPlayers' : texture'[q].state = "Loaded" /\ texture'[q].id \in Ids
  BY DEF OrderInv, ValidPlayers, Valid
<1>2. ASSUME NEW o \in Outcomes, ProcessReady(o) PROVE OrderInv'
  BY <1>2, OrderProcessReady
<1>3. CASE CleanupOldPlayerHeads
  <2>1. PICK n \in 0..Len(texByAge) : victims' = SubSeq(texByAge, 1, n)
    BY <1>3, CacheCleanup DEF HeadsTyped
  <2>2. IsInjective(victims') /\ ToSet(victims') \subseteq ToSet(texByAge)
    BY <2>1, CutInTwo DEF HeadsTyped, CacheTyped
  <2>3. pcClean' \in {"idle", "disable"} /\ UNCHANGED <<texture, texByAge>>
    BY <1>3 DEF CleanupOldPlayerHeads, RenderMayRun, HeadsTyped, CacheTyped, cache
  <2> QED BY <1>1, <2>2, <2>3 DEF OrderInv
<1>4. CASE TrimOne
  <2> DEFINE p == Head(victims)
  <2>1. /\ p \in Players /\ pcRender = "trim" /\ victims # <<>> /\ victims' = Tail(victims)
        /\ texture' = Drop(texture, {p}) /\ texByAge' = RemoveFirst(texByAge, p)
        /\ UNCHANGED <<pcRender, pcClean>>
    BY <1>4, HeadTailElements DEF TrimOne, HeadsTyped, CacheTyped
  <2>2. IsInjective(victims') /\ ToSet(victims') = ToSet(victims) \ {p}
    BY <2>1, TailUnique DEF OrderInv, HeadsTyped, CacheTyped
  <2>3. ToSet(texByAge') = ToSet(texByAge) \ {p}
    BY <2>1, TextureDropped DEF HeadsTyped
  <2>4. /\ DOMAIN texture' = DOMAIN texture \ {p} /\ ValidPlayers' = ValidPlayers \ {p}
        /\ \A q \in DOMAIN texture' : texture'[q] = texture[q]
    BY <2>1, ValidAfterDrop DEF HeadsTyped
  <2>5. ValidPlayers' \subseteq DOMAIN texture'
    BY DEF ValidPlayers, Valid
  <2> HIDE DEF p
  <2> QED BY <2>1, <2>2, <2>3, <2>4, <2>5 DEF OrderInv
<1>5. ASSUME NEW p \in Players, ClearOne(p) PROVE OrderInv'
  <2>1. /\ texture' = Drop(texture, {p}) /\ texByAge' = RemoveFirst(texByAge, p)
        /\ pcRender' # "trim"
    BY <1>5 DEF ClearOne, control, OrderInv
  <2>2. ToSet(texByAge') = ToSet(texByAge) \ {p}
    BY <2>1, TextureDropped DEF HeadsTyped
  <2>3. /\ DOMAIN texture' = DOMAIN texture \ {p} /\ ValidPlayers' = ValidPlayers \ {p}
        /\ \A q \in DOMAIN texture' : texture'[q] = texture[q]
    BY <2>1, ValidAfterDrop DEF HeadsTyped
  <2>4. ValidPlayers' \subseteq DOMAIN texture'
    BY DEF ValidPlayers, Valid
  <2> QED BY <2>1, <2>2, <2>3, <2>4 DEF OrderInv
<1>6. CASE ResetDescriptorState
  <2>1. ToSet(texByAge') = {} /\ ValidPlayers' = {} /\ pcRender' # "trim"
    BY <1>6, NothingThere DEF ResetDescriptorState, ValidPlayers, Valid, OrderInv
  <2> QED BY <2>1 DEF OrderInv
<1>7. CASE ClearEnd
  <2>1. ValidPlayers = {} /\ ValidPlayers' = {} /\ texByAge' = texByAge /\ pcRender' # "trim"
    BY <1>7 DEF ClearEnd, ValidPlayers, Valid, OrderInv
  <2> QED BY <2>1 DEF OrderInv
<1>8. CASE Frame \/ ReadyDone \/ TrimDone \/ FrameEnd \/ ClearBegin \/ Enable
  BY <1>1, <1>8 DEF Frame, ReadyDone, TrimDone, FrameEnd, ClearBegin, Enable, OrderInv, cache
<1>9. CASE StopAsyncLoading("disable") \/ StopAsyncLoading("resize")
  BY <1>1, <1>9 DEF StopAsyncLoading, OrderInv, cache
<1>10. ASSUME NEW p \in Players, Request(p) PROVE OrderInv'
  BY <1>10, OrderRequest
<1>11. ASSUME NEW w \in Workers, TakeTask(w) \/ FinishTask(w) PROVE OrderInv'
  BY <1>1, <1>11 DEF TakeTask, FinishTask, OrderInv, cache, control
<1>12. CASE UNCHANGED vars
  BY <1>1, <1>12 DEF vars, cache, control, OrderInv
<1> QED
  BY <1>2, <1>3, <1>4, <1>5, <1>6, <1>7, <1>8, <1>9, <1>10, <1>11, <1>12
  DEF Next, RenderThread, Teardown

-----------------------------------------------------------------------------
(* Who draws from which descriptor, when there are no more players than    *)
(* the cleanup keeps descriptors for: then it never evicts one.            *)

FewPlayers == IsFiniteSet(Players) /\ Cardinality(Players) <= MaxCached

OwnersInv ==
    /\ \A d, e \in DOMAIN owner : owner[d] = owner[e] => d = e
    /\ \A p \in DOMAIN texture : texture[p].id \in Ids =>
         texture[p].id \in DOMAIN owner /\ owner[texture[p].id] = p
    /\ \A p \in ValidPlayers : slot[texture[p].id] = p

LEMMA NothingToEvict ==
    ASSUME FewPlayers, AllocInv, OwnersInv
    PROVE  Len(byAge) <= MaxCached
<1>1. owner \in Injection(DOMAIN owner, Players)
  <2>1. owner \in [DOMAIN owner -> Players]
    BY DEF AllocInv
  <2>2. \A d, e \in DOMAIN owner : owner[d] = owner[e] => d = e
    BY DEF OwnersInv
  <2> QED BY <2>1, <2>2 DEF Injection, IsInjective
<1>2. Cardinality(DOMAIN owner) <= Cardinality(Players)
  BY <1>1, FS_Injection DEF FewPlayers
<1>3. Cardinality(ToSet(byAge)) = Len(byAge) /\ IsFiniteSet(ToSet(byAge))
  BY LengthOfUnique DEF AllocInv
<1>4. ToSet(byAge) = DOMAIN owner /\ Len(byAge) \in Nat
  BY Elements DEF AllocInv
<1>5. Cardinality(DOMAIN owner) = Len(byAge)
  BY <1>3, <1>4
<1>6. Cardinality(Players) \in Nat /\ MaxCached \in Nat
  BY FS_CardinalityType, LimitsAssumption DEF FewPlayers, LimitsAssumption
<1> QED BY <1>2, <1>4, <1>5, <1>6 DEF FewPlayers

\* A texture that is kept, or put without a view, keeps the id it has.
LEMMA OwnersKeepId ==
    ASSUME HeadsTyped, OrderInv, OwnersInv, NEW p \in Players, p \notin ValidPlayers,
           NEW t \in Texture, t.id = IdOf(p), ~t.valid,
           texture' = Put(texture, p, t), UNCHANGED <<owner, slot>>
    PROVE  OwnersInv'
<1>1. /\ \A q \in DOMAIN texture' : texture'[q] = IF q = p THEN t ELSE texture[q]
      /\ DOMAIN texture' = DOMAIN texture \cup {p}
      /\ ValidPlayers' = ValidPlayers
  <2>1. CacheTyped
    BY DEF HeadsTyped
  <2>2. /\ \A q \in DOMAIN texture' : texture'[q] = IF q = p THEN t ELSE texture[q]
        /\ DOMAIN texture' = DOMAIN texture \cup {p}
        /\ ValidPlayers' = IF t.valid THEN ValidPlayers \cup {p} ELSE ValidPlayers \ {p}
    BY <2>1, ValidAfterPut
  <2> QED BY <2>2
<1>2. ValidPlayers' \subseteq DOMAIN texture'
  BY DEF ValidPlayers, Valid
<1>3. t.id \in Ids => p \in DOMAIN texture /\ t.id = texture[p].id
  BY LimitsAssumption DEF IdOf, NoId, Ids, LimitsAssumption
<1>4. ASSUME NEW q \in DOMAIN texture', texture'[q].id \in Ids
      PROVE  texture'[q].id \in DOMAIN owner /\ owner[texture'[q].id] = q
  BY <1>1, <1>3, <1>4 DEF OwnersInv
<1>5. ASSUME NEW q \in ValidPlayers' PROVE slot[texture'[q].id] = q
  BY <1>1, <1>2, <1>5 DEF OwnersInv
<1> QED BY <1>4, <1>5 DEF OwnersInv

\* A descriptor is registered for p, and shows p if the upload succeeds.
LEMMA OwnersRegister ==
    ASSUME HeadsTyped, OwnersInv, OrderInv, OrderInv', NEW p \in Players, p \notin ValidPlayers,
           NEW d \in Candidates(p), Register(p, d),
           NEW t \in Texture, t.id = d, texture' = Put(texture, p, t),
           slot' = IF t.valid THEN [slot EXCEPT ![d] = p] ELSE slot
    PROVE  OwnersInv'
<1>1. /\ \A q \in DOMAIN texture' : texture'[q] = IF q = p THEN t ELSE texture[q]
      /\ DOMAIN texture' = DOMAIN texture \cup {p}
      /\ ValidPlayers' = IF t.valid THEN ValidPlayers \cup {p} ELSE ValidPlayers \ {p}
  <2>1. CacheTyped
    BY DEF HeadsTyped
  <2> QED BY <2>1, ValidAfterPut
<1>2. ValidPlayers' \subseteq DOMAIN texture'
  BY DEF ValidPlayers, Valid
<1>3. /\ d \in Ids
      /\ \/ d \in DOMAIN owner /\ owner[d] = p
         \/ Held(p) = {} /\ d \notin DOMAIN owner
      /\ DOMAIN owner' = DOMAIN owner \cup {d}
      /\ owner'[d] = p /\ \A x \in DOMAIN owner \ {d} : owner'[x] = owner[x]
  BY AllocatorRegister DEF HeadsTyped
<1>4. \A x \in DOMAIN owner : x # d => owner[x] # p
  BY <1>3 DEF OwnersInv, Held
<1>5. ASSUME NEW q \in DOMAIN texture, q # p, texture[q].id \in Ids
      PROVE  texture[q].id \in DOMAIN owner /\ texture[q].id # d /\ owner[texture[q].id] = q
  BY <1>3, <1>5 DEF OwnersInv
<1>6. \A x, y \in DOMAIN owner' : owner'[x] = owner'[y] => x = y
  BY <1>3, <1>4 DEF OwnersInv
<1>7. ASSUME NEW q \in DOMAIN texture', texture'[q].id \in Ids
      PROVE  texture'[q].id \in DOMAIN owner' /\ owner'[texture'[q].id] = q
  <2>1. CASE q = p
    BY <1>1, <1>3, <2>1
  <2>2. CASE q # p
    BY <1>1, <1>3, <1>5, <1>7, <2>2
  <2> QED BY <2>1, <2>2
<1>8. ASSUME NEW q \in ValidPlayers' PROVE slot'[texture'[q].id] = q
  <2>1. CASE q = p
    <3>1. t.valid /\ texture'[q].id = d
      BY <1>1, <1>2, <2>1
    <3> QED BY <1>3, <2>1, <3>1 DEF HeadsTyped, CacheTyped
  <2>2. CASE q # p
    <3>1. q \in ValidPlayers /\ texture'[q] = texture[q] /\ q \in DOMAIN texture
      BY <1>1, <1>2, <2>2
    <3>2. texture[q].id \in Ids
      BY <3>1 DEF OrderInv
    <3>3. texture[q].id # d /\ slot[texture[q].id] = q
      BY <1>5, <2>2, <3>1, <3>2 DEF OwnersInv
    <3> QED BY <1>3, <3>1, <3>2, <3>3 DEF HeadsTyped, CacheTyped
  <2> QED BY <2>1, <2>2
<1> QED BY <1>6, <1>7, <1>8 DEF OwnersInv

\* The descriptor of a valid texture is freed together with the texture.
LEMMA OwnersDrop ==
    ASSUME HeadsTyped, OrderInv, OwnersInv, NEW p \in ValidPlayers,
           FreePlayerHeadDescriptor(texture[p].id), texture' = Drop(texture, {p}), UNCHANGED slot
    PROVE  OwnersInv'
<1> DEFINE d == texture[p].id
<1>1. /\ DOMAIN owner' = DOMAIN owner \ {d}
      /\ \A x \in DOMAIN owner \ {d} : owner'[x] = owner[x]
  BY AllocatorFree DEF HeadsTyped
<1>2. /\ DOMAIN texture' = DOMAIN texture \ {p}
      /\ \A q \in DOMAIN texture' : texture'[q] = texture[q]
      /\ ValidPlayers' = ValidPlayers \ {p}
  <2>1. CacheTyped /\ p \in Players
    BY DEF HeadsTyped, ValidPlayers
  <2> QED BY <2>1, ValidAfterDrop
<1>3. p \in DOMAIN texture /\ ValidPlayers' \subseteq DOMAIN texture'
  BY DEF ValidPlayers, Valid
<1>4. d \in DOMAIN owner /\ owner[d] = p
  BY <1>3 DEF OwnersInv, OrderInv
<1> HIDE DEF d
<1>5. ASSUME NEW q \in DOMAIN texture', texture'[q].id \in Ids
      PROVE  texture'[q].id \in DOMAIN owner' /\ owner'[texture'[q].id] = q
  <2>1. q \in DOMAIN texture /\ q # p /\ texture'[q] = texture[q]
    BY <1>2
  <2>2. texture[q].id \in DOMAIN owner /\ owner[texture[q].id] = q
    BY <1>5, <2>1 DEF OwnersInv
  <2> QED BY <1>1, <1>4, <2>1, <2>2
<1>6. \A q \in ValidPlayers' : slot'[texture'[q].id] = q
  BY <1>2, <1>3 DEF OwnersInv
<1>7. \A x, y \in DOMAIN owner' : owner'[x] = owner'[y] => x = y
  BY <1>1 DEF OwnersInv
<1> QED BY <1>5, <1>6, <1>7 DEF OwnersInv

LEMMA OwnersInit == Init => OwnersInv
BY DEF Init, OwnersInv, ValidPlayers, Valid

LEMMA OwnersNext ==
    FewPlayers /\ HeadsTyped /\ OrderInv /\ OwnersInv /\ OrderInv' /\ [Next]_vars => OwnersInv'
<1> SUFFICES ASSUME FewPlayers, HeadsTyped, OrderInv, OwnersInv, OrderInv', [Next]_vars
             PROVE  OwnersInv'
  OBVIOUS
<1>1. CASE UNCHANGED <<owner, slot, texture>>
  BY <1>1 DEF OwnersInv, ValidPlayers, Valid
<1>2. ASSUME NEW o \in Outcomes, ProcessReady(o) PROVE OwnersInv'
  <2> DEFINE p == Head(readyQueue)
  <2>1. p \in Players
    BY <1>2, HeadTailElements DEF ProcessReady, HeadsTyped, CacheTyped
  <2>2. CASE ~Valid(p) /\ UNCHANGED <<owner, slot>>
             /\ texture' = Put(texture, p, [state |-> "Failed", valid |-> FALSE, id |-> IdOf(p)])
    <3> DEFINE t == [state |-> "Failed", valid |-> FALSE, id |-> IdOf(p)]
    <3>1. t \in Texture /\ ~t.valid /\ t.id = IdOf(p)
      BY <2>1, IdOfTyped DEF Texture, HeadsTyped
    <3>2. p \notin ValidPlayers /\ texture' = Put(texture, p, t)
      BY <2>2 DEF ValidPlayers
    <3> HIDE DEF p, t
    <3> QED BY <2>1, <2>2, <3>1, <3>2, OwnersKeepId
  <2>3. ASSUME ~Valid(p), NEW d \in Candidates(p), Register(p, d),
               texture' = Put(texture, p,
                   [state |-> CASE o = "ok" -> "Loaded" [] o = "failed" -> "Failed"
                                [] OTHER -> "Loading",
                    valid |-> o = "ok", id |-> d]),
               slot' = IF o = "ok" THEN [slot EXCEPT ![d] = p] ELSE slot
        PROVE  OwnersInv'
    <3> DEFINE t == [state |-> CASE o = "ok" -> "Loaded" [] o = "failed" -> "Failed"
                                 [] OTHER -> "Loading",
                     valid |-> o = "ok", id |-> d]
    <3>1. d \in Ids
      BY <2>1, <2>3, AllocatorRegister DEF HeadsTyped
    <3>2. t \in Texture /\ (t.valid <=> o = "ok") /\ t.id = d
      BY <3>1 DEF Texture
    <3>3. p \notin ValidPlayers /\ texture' = Put(texture, p, t)
      BY <2>3 DEF ValidPlayers
    <3>4. slot' = IF t.valid THEN [slot EXCEPT ![d] = p] ELSE slot
      BY <2>3, <3>2
    <3> HIDE DEF p, t
    <3> QED BY <2>1, <2>3, <3>2, <3>3, <3>4, OwnersRegister
  <2> QED BY <1>1, <1>2, <2>2, <2>3 DEF ProcessReady, allocator, cache
<1>3. CASE CleanupOldPlayerHeads
  <2>1. owner' = owner
    BY <1>3, NothingToEvict, AllocatorCleanup DEF HeadsTyped
  <2> QED BY <1>1, <1>3, <2>1 DEF CleanupOldPlayerHeads, cache
<1>4. CASE TrimOne
  <2> DEFINE p == Head(victims)
  <2>1. /\ FreePlayerHeadDescriptor(texture[p].id) /\ texture' = Drop(texture, {p})
        /\ UNCHANGED slot /\ victims # <<>>
    BY <1>4 DEF TrimOne
  <2>2. p \in ToSet(victims) /\ ToSet(victims) \subseteq ValidPlayers
    BY <1>4, <2>1, TailUnique DEF TrimOne, OrderInv, HeadsTyped, CacheTyped
  <2> HIDE DEF p
  <2> QED BY <2>1, <2>2, OwnersDrop
<1>5. ASSUME NEW p \in Players, ClearOne(p) PROVE OwnersInv'
  <2>1. /\ FreePlayerHeadDescriptor(texture[p].id) /\ texture' = Drop(texture, {p})
        /\ UNCHANGED slot /\ p \in ValidPlayers
    BY <1>5 DEF ClearOne, ValidPlayers
  <2> QED BY <2>1, OwnersDrop
<1>6. CASE ResetDescriptorState
  BY <1>6 DEF ResetDescriptorState, OwnersInv, ValidPlayers, Valid
<1>7. CASE ClearEnd
  BY <1>7 DEF ClearEnd, OwnersInv, ValidPlayers, Valid, allocator
<1>8. CASE Frame \/ ReadyDone \/ TrimDone \/ FrameEnd \/ ClearBegin \/ Enable
  BY <1>1, <1>8
  DEF Frame, ReadyDone, TrimDone, FrameEnd, ClearBegin, Enable, cache, allocator
<1>9. CASE StopAsyncLoading("disable") \/ StopAsyncLoading("resize")
  BY <1>1, <1>9 DEF StopAsyncLoading, cache, allocator
<1>10. ASSUME NEW p \in Players, Request(p) PROVE OwnersInv'
  <2>1. CASE UNCHANGED texture
    BY <1>1, <1>10, <2>1 DEF Request, allocator
  <2>2. CASE /\ LoadState(p) \in {"NotLoaded", "Failed"}
             /\ texture' = Put(texture, p, [state |-> "Loading", valid |-> FALSE, id |-> IdOf(p)])
    <3> DEFINE t == [state |-> "Loading", valid |-> FALSE, id |-> IdOf(p)]
    <3>1. t \in Texture /\ ~t.valid /\ t.id = IdOf(p)
      BY IdOfTyped DEF Texture, HeadsTyped
    <3>2. p \notin ValidPlayers /\ texture' = Put(texture, p, t)
      BY <2>2 DEF OrderInv, ValidPlayers, Valid, LoadState
    <3>3. UNCHANGED <<owner, slot>>
      BY <1>10 DEF Request, allocator
    <3> HIDE DEF t
    <3> QED BY <3>1, <3>2, <3>3, OwnersKeepId
  <2> QED BY <1>10, <2>1, <2>2 DEF Request
<1>11. ASSUME NEW w \in Workers, TakeTask(w) \/ FinishTask(w) PROVE OwnersInv'
  BY <1>1, <1>11 DEF TakeTask, FinishTask, cache, allocator
<1>12. CASE UNCHANGED vars
  BY <1>1, <1>12 DEF vars, cache, allocator
<1> QED
  BY <1>2, <1>3, <1>4, <1>5, <1>6, <1>7, <1>8, <1>9, <1>10, <1>11, <1>12
  DEF Next, RenderThread, Teardown

LEMMA AlwaysInOrder == Spec => [](HeadsTyped /\ OrderInv)
<1>1. Init => OrderInv
  BY OrderInit
<1>2. HeadsTyped /\ OrderInv /\ [Next]_vars => OrderInv'
  BY OrderNext
<1> QED BY <1>1, <1>2, AlwaysHeadsTyped, PTL DEF Spec

LEMMA AlwaysOwned == ASSUME FewPlayers PROVE Spec => []OwnersInv
<1>1. Init => OwnersInv
  BY OwnersInit
<1>2. HeadsTyped /\ OrderInv /\ (HeadsTyped /\ OrderInv)' /\ OwnersInv /\ [Next]_vars => OwnersInv'
  BY OwnersNext
<1> QED BY <1>1, <1>2, AlwaysInOrder, PTL DEF Spec

\* As long as there are no more players than the cleanup keeps descriptors for, every
\* player is drawn with the player's own head (CreateTextureFromBytesDX12Sync registers
\* one descriptor for a player, and both loops that free descriptors drop the textures).
THEOREM EveryoneHasOwnHead == ASSUME FewPlayers PROVE Spec => []OwnHead
<1>1. HeadsTyped /\ OrderInv /\ OwnersInv => OwnHead
  <2> SUFFICES ASSUME OrderInv, OwnersInv, NEW p \in Players, Valid(p)
               PROVE  /\ slot[texture[p].id] = p
                      /\ texture[p].id \in DOMAIN owner /\ owner[texture[p].id] = p
    BY DEF OwnHead
  <2>1. p \in ValidPlayers /\ p \in DOMAIN texture
    BY DEF ValidPlayers, Valid
  <2> QED BY <2>1 DEF OrderInv, OwnersInv
<1> QED BY <1>1, AlwaysInOrder, AlwaysOwned, PTL

\* And then what TabList.cpp:661 says of the cleanup is so: no valid texture still draws
\* from a descriptor that is free.
THEOREM FreedAreUnused == ASSUME FewPlayers PROVE Spec => []OnlyUnusedFreed
<1>1. HeadsTyped /\ OwnHead => OnlyUnusedFreed
  BY DEF HeadsTyped, AllocInv, OwnHead, OnlyUnusedFreed
<1> QED BY <1>1, AlwaysHeadsTyped, EveryoneHasOwnHead, PTL

-----------------------------------------------------------------------------
(* A head that is shown as loading has a task, when the upload does not    *)
(* give up in the middle and the queue has room for what is requested.     *)

Underway(p) ==
    \/ p \in ToSet(loadQueue) \cup ToSet(readyQueue)
    \/ \E w \in Workers : working[w] = p

RoomForRequests == \A p \in Players : Request(p) => Len(loadQueue) < MaxQueue

LEMMA UnderwayProcessReady ==
    ASSUME HeadsTyped, OrderInv, LoadingIsUnderway,
           NEW o \in {"ok", "failed"}, ProcessReady(o)
    PROVE  LoadingIsUnderway'
<1>0. Head(readyQueue) \in Players
  BY HeadTailElements DEF ProcessReady, HeadsTyped, CacheTyped
<1> PICK p \in Players : p = Head(readyQueue)
  BY <1>0
<1>1. /\ p \in Players /\ UNCHANGED <<loadQueue, working, pcClean>>
      /\ ToSet(readyQueue) = {p} \cup ToSet(readyQueue')
  BY HeadTailElements DEF ProcessReady, HeadsTyped, CacheTyped, control
<1>2. LoadState(p)' # "Loading" /\ \A q \in Players : q # p => LoadState(q)' = LoadState(q)
  <2>1. CASE Valid(p) /\ UNCHANGED texture
    BY <1>1, <2>1 DEF OrderInv, ValidPlayers, Valid, LoadState
  <2>2. CASE texture' = Put(texture, p, [state |-> "Failed", valid |-> FALSE, id |-> IdOf(p)])
    BY <2>2 DEF LoadState, Put
  <2>3. ASSUME NEW d, texture' = Put(texture, p,
                 [state |-> CASE o = "ok" -> "Loaded" [] o = "failed" -> "Failed"
                              [] OTHER -> "Loading",
                  valid |-> o = "ok", id |-> d])
        PROVE  LoadState(p)' # "Loading" /\ \A q \in Players : q # p => LoadState(q)' = LoadState(q)
    <3>1. \A q \in Players : q # p => LoadState(q)' = LoadState(q)
      BY <2>3 DEF LoadState, Put
    <3>2. p \in DOMAIN texture' /\ texture'[p].state \in {"Loaded", "Failed"}
      BY <2>3 DEF Put
    <3> QED BY <3>1, <3>2 DEF LoadState
  <2> QED BY <2>1, <2>2, <2>3 DEF ProcessReady, cache
<1>3. ASSUME NEW q \in Players, LoadState(q)' = "Loading", pcClean' = "idle"
      PROVE  Underway(q)'
  <2>1. q # p /\ Underway(q)
    BY <1>1, <1>2, <1>3 DEF LoadingIsUnderway, Underway
  <2> QED BY <1>1, <2>1 DEF Underway
<1> QED BY <1>3 DEF LoadingIsUnderway, Underway

LEMMA UnderwayNext ==
    ASSUME Outcomes \subseteq {"ok", "failed"}, HeadsTyped, OrderInv, LoadingIsUnderway,
           [Next]_vars, [RoomForRequests]_vars
    PROVE  LoadingIsUnderway'
<1> SUFFICES ASSUME NEW p \in Players, LoadState(p)' = "Loading", pcClean' = "idle"
             PROVE  Underway(p)'
  BY DEF LoadingIsUnderway, Underway
<1>1. pcClean = "idle" /\ LoadState(p) = "Loading" => Underway(p)
  BY DEF LoadingIsUnderway, Underway
<1>2. CASE pcClean = pcClean' /\ UNCHANGED <<texture, loadQueue, readyQueue, working>>
  BY <1>1, <1>2 DEF LoadState, Underway
<1>3. ASSUME NEW o \in Outcomes, ProcessReady(o) PROVE Underway(p)'
  <2>1. LoadingIsUnderway'
    BY <1>3, UnderwayProcessReady
  <2> QED BY <2>1 DEF LoadingIsUnderway, Underway
<1>4. CASE CleanupOldPlayerHeads
  BY <1>2, <1>4 DEF CleanupOldPlayerHeads, cache, loaders
<1>5. CASE TrimOne
  <2>1. /\ texture' = Drop(texture, {Head(victims)})
        /\ UNCHANGED <<loadQueue, readyQueue, working, pcClean>>
    BY <1>5 DEF TrimOne, loaders
  <2>2. LoadState(p)' = "Loading" => LoadState(p) = "Loading"
    BY <2>1 DEF LoadState, Drop, Restrict
  <2> QED BY <1>1, <2>1, <2>2 DEF Underway
<1>6. ASSUME NEW q \in Players, ClearOne(q) PROVE FALSE
  BY <1>6 DEF ClearOne, control
<1>7. CASE ResetDescriptorState
  BY <1>7 DEF ResetDescriptorState, LoadState
<1>8. CASE ClearEnd
  BY <1>8 DEF ClearEnd, LoadState
<1>9. CASE Frame \/ ReadyDone \/ TrimDone \/ FrameEnd \/ Enable
  BY <1>2, <1>9 DEF Frame, ReadyDone, TrimDone, FrameEnd, Enable, cache, loaders
<1>10. CASE ClearBegin \/ StopAsyncLoading("disable") \/ StopAsyncLoading("resize")
  BY <1>10 DEF ClearBegin, StopAsyncLoading
<1>11. ASSUME NEW q \in Players, Request(q) PROVE Underway(p)'
  <2>1. UNCHANGED <<readyQueue, working, pcClean>>
    BY <1>11 DEF Request, control
  <2>2. CASE UNCHANGED <<texture, loadQueue>>
    BY <1>2, <2>1, <2>2
  <2>3. CASE /\ texture' = Put(texture, q, [state |-> "Loading", valid |-> FALSE, id |-> IdOf(q)])
             /\ loadQueue' = IF Len(loadQueue) < MaxQueue THEN Append(loadQueue, q) ELSE loadQueue
    <3>1. q \in DOMAIN texture' /\ (q \notin DOMAIN texture \/ texture' # texture \/ LoadState(q) = "Loading")
      BY <2>3 DEF Put, LoadState
    <3>2. CASE UNCHANGED vars
      BY <1>2, <3>2 DEF vars, cache, loaders, control
    <3>3. CASE RoomForRequests
      <4>1. loadQueue' = Append(loadQueue, q)
        BY <1>11, <2>3, <3>3 DEF RoomForRequests
      <4>2. ToSet(loadQueue') = ToSet(loadQueue) \cup {q}
        BY <4>1, AppendElements DEF HeadsTyped, CacheTyped
      <4>3. p # q => LoadState(p)' = LoadState(p)
        BY <2>3 DEF LoadState, Put
      <4> QED BY <1>1, <2>1, <4>2, <4>3 DEF Underway
    <3> QED BY <3>2, <3>3
  <2> QED BY <1>11, <2>2, <2>3 DEF Request
<1>12. ASSUME NEW w \in Workers, TakeTask(w) PROVE Underway(p)'
  <2>1. ToSet(loadQueue) = {Head(loadQueue)} \cup ToSet(loadQueue')
    BY <1>12, HeadTailElements DEF TakeTask, HeadsTyped, CacheTyped
  <2>2. /\ working[w] = NoPlayer /\ working' = [working EXCEPT ![w] = Head(loadQueue)]
        /\ UNCHANGED <<texture, readyQueue, pcClean>>
    BY <1>12 DEF TakeTask, cache, control
  <2>3. working'[w] = Head(loadQueue) /\ \A v \in Workers : v # w => working'[v] = working[v]
    BY <2>2 DEF HeadsTyped, CacheTyped
  <2>4. Underway(p)
    BY <1>1, <2>2 DEF LoadState
  <2> QED BY <2>1, <2>2, <2>3, <2>4, NoPlayerAssumption DEF Underway, NoPlayerAssumption
<1>13. ASSUME NEW w \in Workers, FinishTask(w) PROVE Underway(p)'
  <2>1. /\ working[w] \in Players /\ readyQueue' = Append(readyQueue, working[w])
        /\ UNCHANGED <<texture, loadQueue, pcClean>>
    BY <1>13 DEF FinishTask, HeadsTyped, CacheTyped, cache, control
  <2>2. ToSet(readyQueue') = ToSet(readyQueue) \cup {working[w]}
    BY <2>1, AppendElements DEF HeadsTyped, CacheTyped
  <2>3. \A v \in Workers : v # w => working'[v] = working[v]
    BY <1>13 DEF FinishTask, HeadsTyped, CacheTyped
  <2>4. Underway(p)
    BY <1>1, <2>1 DEF LoadState
  <2> QED BY <2>1, <2>2, <2>3, <2>4 DEF Underway
<1>14. CASE UNCHANGED vars
  BY <1>2, <1>14 DEF vars, cache, loaders, control
<1> QED
  BY <1>3, <1>4, <1>5, <1>6, <1>7, <1>8, <1>9, <1>10, <1>11, <1>12, <1>13, <1>14
  DEF Next, RenderThread, Teardown

\* A head that is shown as loading has a task in a queue or with a loader thread
\* (TabList.cpp:1280, "Already loading"), if the game takes the resources away neither
\* before nor in the middle of an upload and no request finds g_loadQueue full: those
\* are the ways out of the code that leave loadState Loading and no task behind.
THEOREM LoadingHasTask ==
    ASSUME Outcomes \subseteq {"ok", "failed"}
    PROVE  Spec /\ [][RoomForRequests]_vars => []LoadingIsUnderway
<1>1. Init => LoadingIsUnderway
  BY DEF Init, LoadingIsUnderway, LoadState
<1>2. /\ HeadsTyped /\ OrderInv /\ LoadingIsUnderway /\ [Next]_vars /\ [RoomForRequests]_vars
      => LoadingIsUnderway'
  BY UnderwayNext
<1> QED BY <1>1, <1>2, AlwaysInOrder, PTL DEF Spec
================================================================================
