--------------------------- MODULE SwapchainProofs ---------------------------
(***************************************************************************)
(* The hooks keep the lease on the back buffers, for any number of swap    *)
(* chains, resizes and failures: Spec implements BackBufferLease.          *)
(*                                                                         *)
(* The steps that change the buffers come second: the hook has run before. *)
(* So what has to be invariant is that nothing is held while a call is in  *)
(* progress (CallsFindNothing), and, for the creation whose hook releases  *)
(* nothing, why it then finds nothing (HwndHasNothing).  A client that is   *)
(* not set up may hold buffers all the same, since DX12Init may give up     *)
(* after it has taken them; but not on GDK while it has no pointer to the   *)
(* swap chain, or while Better Frames is taking DX12 away.                  *)
(*                                                                         *)
(* The second part is about what is drawn with.  A creation is in two      *)
(* steps, and the CoreWindow hook takes the queue of the device that is to *)
(* come before there is one; the invariant therefore says what the client  *)
(* has let go of while it lasts (VacantWhenCreating), and of each thing    *)
(* that survives a resize that it is the current one.                      *)
(***************************************************************************)
EXTENDS Swapchain, TLAPS

\* The part of the type invariant that the proof needs.
ChainTyped ==
    /\ chain \in Chains \cup {NoChain}
    /\ call \in [kind : {"resize", "create"}, api : Apis] \cup {Idle}
    /\ refs \in [Holders -> Nat]
    /\ swapchain \in Nat
    /\ platform \in {"CoreWindow", "Hwnd"}

\* Whoever holds a reference holds the buffers there are now.
RefsCurrent == \A h \in Holders : refs[h] \in {None, chain.buf}

CallsFindNothing == call # Idle => refs = NoRefs

ResizesAChain == call.kind = "resize" => chain # NoChain

\* The client is not set up while the game changes its swap chain or has none.
NotInitDuringCalls == Hooked /\ (call # Idle \/ chain = NoChain) => ~init

\* Better Frames has removed the device and waits for the game, or is about to remove it.
Removed == removed /\ ~fallback
GivesUpDX12 == killdx /\ ~removed /\ chain.api = "DX12"

\* Where the hook on the creation releases nothing.
HwndHasNothing ==
    Hooked /\ platform = "Hwnd" /\ (swapchain = None \/ Removed \/ GivesUpDX12)
        => ~init /\ refs = NoRefs

InitHasPointer == init => swapchain # None

RemovedNotInit == removed /\ ~fallback => ~init

\* After the cleanup of the init thread nothing is drawn any more.
CleanIsClean == phase \in {"cleaned", "gone"} => refs = NoRefs /\ d3d11Device = None

\* There are generations left for the call in progress and the re-creation to come.
RoomLeft ==
    /\ gen \in Nat
    /\ call # Idle => gen < MaxGen
    /\ recreate => gen < MaxGen
    /\ call # Idle /\ recreate => gen + 1 < MaxGen

LeaseInv ==
    /\ ChainTyped /\ RefsCurrent /\ CallsFindNothing /\ ResizesAChain
    /\ NotInitDuringCalls /\ HwndHasNothing
    /\ InitHasPointer /\ RemovedNotInit /\ CleanIsClean /\ RoomLeft

-----------------------------------------------------------------------------

LEMMA ChainFacts ==
    ASSUME ChainTyped
    PROVE  /\ chain.buf \in Nat /\ chain.dev \in Nat
           /\ chain.buf \in (1..MaxGen) \cup {None}
           /\ chain # NoChain => chain.dev # None /\ chain.buf # None
           /\ chain = NoChain => chain.buf = None
           /\ (chain.api \in Apis <=> chain # NoChain)
BY BoundsAssumption DEF BoundsAssumption, ChainTyped, Chains, NoChain, None, Apis

LEMMA InitLease == Init => LeaseInv
<1> SUFFICES ASSUME Init PROVE LeaseInv
  OBVIOUS
<1> USE DEF Init
<1>1. ChainTyped
  <2>1. chain \in Chains \cup {NoChain}
    <3>1. CASE chain = NoChain
      BY <3>1
    <3>2. ASSUME NEW a \in Apis, chain = [api |-> a, dev |-> 1, buf |-> 1, tearing |-> FALSE]
          PROVE  chain \in Chains
      <4>1. 1 \in 1..MaxGen
        BY BoundsAssumption DEF BoundsAssumption
      <4> QED BY <3>2, <4>1 DEF Chains
    <3> QED BY <3>1, <3>2
  <2>2. refs \in [Holders -> Nat] /\ swapchain \in Nat
    BY DEF NoRefs, None
  <2>3. platform \in {"CoreWindow", "Hwnd"}
    BY PlatformsAssumption DEF PlatformsAssumption
  <2> QED BY <2>1, <2>2, <2>3 DEF ChainTyped
<1>2. RefsCurrent
  BY DEF RefsCurrent, NoRefs
<1>3. /\ CallsFindNothing /\ ResizesAChain /\ NotInitDuringCalls /\ HwndHasNothing
      /\ InitHasPointer /\ RemovedNotInit
  BY DEF CallsFindNothing, ResizesAChain, Idle, NotInitDuringCalls, HwndHasNothing,
      InitHasPointer, RemovedNotInit
<1>4. CleanIsClean
  BY DEF CleanIsClean
<1>5. RoomLeft
  BY BoundsAssumption DEF BoundsAssumption, RoomLeft
<1> QED BY <1>1, <1>2, <1>3, <1>4, <1>5 DEF LeaseInv

-----------------------------------------------------------------------------
(* The game's calls                                                        *)

LEMMA ChainRecords ==
    ASSUME NEW b \in 1..MaxGen
    PROVE  /\ \A c \in Chains : [c EXCEPT !.buf = b] \in Chains /\ [c EXCEPT !.buf = b].buf = b
           /\ \A a \in Apis, t \in BOOLEAN :
                [api |-> a, dev |-> b, buf |-> b, tearing |-> t] \in Chains
BY DEF Chains

\* After a step that leaves nothing held, most of the invariant is immediate.
LEMMA NothingHeld ==
    ASSUME refs' = NoRefs
    PROVE  RefsCurrent' /\ CallsFindNothing' /\ refs' \in [Holders -> Nat]
BY DEF RefsCurrent, CallsFindNothing, NoRefs, None

LEMMA StepCalls ==
    ASSUME LeaseInv, ResizeBuffers \/ Resized \/ Created \/ CreateFailed
    PROVE  LeaseInv'
<1> USE DEF LeaseInv, control, state, devices, settings
<1>1. CASE ResizeBuffers
  <2>1. chain \in Chains /\ chain # NoChain /\ chain' = chain
    BY <1>1 DEF ResizeBuffers, ChainTyped
  <2>2. /\ call' = [kind |-> "resize", api |-> chain.api] /\ call'.kind = "resize"
        /\ call' \in [kind : {"resize", "create"}, api : Apis]
    BY <1>1, <2>1 DEF ResizeBuffers, Chains
  <2>3. refs' = NoRefs
    BY <1>1 DEF ResizeBuffers, ReleaseBuffers, Hooked, CleanIsClean
  <2>4. ChainTyped'
    BY <1>1, <2>1, <2>2, <2>3, NothingHeld DEF ResizeBuffers, ChainTyped
  <2>5. ResizesAChain'
    BY <2>1 DEF ResizesAChain
  <2>6. /\ NotInitDuringCalls' /\ HwndHasNothing'
        /\ InitHasPointer' /\ RemovedNotInit' /\ CleanIsClean'
    BY <1>1, <2>3 DEF ResizeBuffers, ReleaseBuffers, Hooked, NotInitDuringCalls,
        HwndHasNothing, InitHasPointer, RemovedNotInit, CleanIsClean
  <2>7. RoomLeft'
    BY <1>1, BoundsAssumption DEF ResizeBuffers, RoomLeft, BoundsAssumption
  <2> QED BY <2>3, <2>4, <2>5, <2>6, <2>7, NothingHeld
<1>2. ASSUME Resized \/ Created \/ CreateFailed PROVE LeaseInv'
  <2>1. call # Idle /\ call' = Idle /\ Idle.kind = "idle"
    BY <1>2 DEF Resized, Created, CreateFailed, Idle
  <2>2. refs' = refs /\ refs' = NoRefs
    BY <1>2, <2>1 DEF Resized, Created, CreateFailed, CallsFindNothing
  <2>3. gen + 1 \in 1..MaxGen
    BY <2>1, BoundsAssumption DEF RoomLeft, BoundsAssumption
  <2>4. chain' \in Chains \cup {NoChain}
    <3>1. CASE Resized
      BY <3>1, <2>3, ChainRecords DEF Resized, ChainTyped, ResizesAChain
    <3>2. CASE Created
      <4>1. call.api \in Apis
        BY <2>1 DEF ChainTyped
      <4>2. (Hooked /\ currentVsyncState) \in BOOLEAN
        OBVIOUS
      <4> QED BY <3>2, <4>1, <4>2, <2>3, ChainRecords DEF Created
    <3>3. CASE CreateFailed
      BY <3>3 DEF CreateFailed
    <3> QED BY <1>2, <3>1, <3>2, <3>3
  <2>5. ChainTyped'
    BY <1>2, <2>1, <2>2, <2>4, NothingHeld DEF Resized, Created, CreateFailed, ChainTyped
  <2>6. ResizesAChain'
    BY <2>1 DEF ResizesAChain
  <2>7. InitHasPointer' /\ RemovedNotInit' /\ CleanIsClean'
    BY <1>2 DEF Resized, Created, CreateFailed, InitHasPointer, RemovedNotInit, CleanIsClean
  <2>9. NotInitDuringCalls' /\ HwndHasNothing'
    <3>1. UNCHANGED <<phase, init>>
      BY <1>2 DEF Resized, Created, CreateFailed
    <3> QED BY <2>1, <2>2, <3>1 DEF NotInitDuringCalls, HwndHasNothing, Hooked
  <2>8. RoomLeft'
    BY <1>2, <2>1, BoundsAssumption
    DEF Resized, Created, CreateFailed, Fails, RoomLeft, BoundsAssumption
  <2> QED BY <2>2, <2>5, <2>6, <2>7, <2>8, <2>9, NothingHeld
<1> QED BY <1>1, <1>2

\* The creation of a swap chain: the CoreWindow hook releases everything, and the
\* other one is called when there is nothing to release.
LEMMA StepCreate ==
    ASSUME LeaseInv, NEW a \in Apis, CreateSwapChain(a)
    PROVE  LeaseInv'
<1> USE DEF LeaseInv, settings, CreateSwapChain
<1>1. refs' = NoRefs
  <2>1. CASE Hooked /\ platform = "CoreWindow"
    BY <2>1 DEF FullReset, ReleaseBuffers
  <2>2. CASE ~Hooked
    BY <2>2 DEF Hooked, CleanIsClean
  <2>3. CASE Hooked /\ platform # "CoreWindow"
    <3>1. platform = "Hwnd"
      BY <2>3 DEF ChainTyped
    <3>2. CASE chain = NoChain
      BY <3>2, <2>3 DEF RefsCurrent, ChainTyped, NoChain, NoRefs, None
    <3>3. CASE swapchain = None \/ (removed /\ ~fallback)
      BY <3>1, <3>3, <2>3 DEF HwndHasNothing, Removed
    <3> QED BY <3>1, <3>2, <3>3 DEF MayCreate
  <2> QED BY <2>1, <2>2, <2>3
<1>2. /\ call' = [kind |-> "create", api |-> a] /\ call'.kind # "resize"
      /\ call' \in [kind : {"resize", "create"}, api : Apis]
  OBVIOUS
<1>3. ChainTyped'
  <2>1. swapchain' \in Nat /\ UNCHANGED <<chain, platform>>
    BY DEF ChainTyped, None
  <2> QED BY <1>1, <1>2, <2>1, NothingHeld DEF ChainTyped
<1>4. ResizesAChain'
  BY <1>2 DEF ResizesAChain
<1>5. InitHasPointer' /\ RemovedNotInit' /\ CleanIsClean'
  BY <1>1 DEF InitHasPointer, RemovedNotInit, CleanIsClean, FullReset, ReleaseBuffers
<1>6. RoomLeft'
  BY BoundsAssumption DEF RoomLeft, BoundsAssumption
<1>7. Hooked' => Hooked /\ ~init'
  <2>1. CASE Hooked /\ platform = "CoreWindow"
    BY <2>1
  <2>2. CASE Hooked /\ platform = "Hwnd"
    BY <2>2 DEF MayCreate, NotInitDuringCalls, HwndHasNothing, Removed
  <2>3. Hooked' = Hooked
    BY DEF Hooked
  <2> QED BY <2>1, <2>2, <2>3 DEF ChainTyped
<1>8. NotInitDuringCalls' /\ HwndHasNothing'
  BY <1>1, <1>7 DEF NotInitDuringCalls, HwndHasNothing
<1> QED BY <1>1, <1>3, <1>4, <1>5, <1>6, <1>8, NothingHeld

-----------------------------------------------------------------------------
(* The hook on Present                                                     *)

\* What the steps that set the client up have in common.
SettingUp ==
    \/ RemovesDevice \/ DX12InitFails \/ DX12Init \/ DX11Init
    \/ \E api \in Apis \cup {"Unknown"} : DX11InitFails(api)

LEMMA SetsUpFacts ==
    ASSUME LeaseInv, NEW api, SetsUp(api)
    PROVE  /\ swapchain' = Pointer(api) /\ Pointer(api) \in Nat \ {None}
           /\ UNCHANGED <<chain, platform, phase, gen, call, recreate, killdx>>
           /\ call = Idle /\ phase = "running" /\ chain # NoChain /\ chain \in Chains
           /\ ~recreate /\ Detects(api)
           /\ fallback' = (fallback \/ FellBack(api)) /\ ~StillDX12(api)
           /\ Removed => FellBack(api) /\ fallback'
           /\ ~init \/ FellBack(api)
<1> USE DEF LeaseInv, SetsUp, Adopted, Presenting
<1>1. Pointer(api) \in Nat \ {None}
  BY ChainFacts DEF Pointer, ChainTyped
<1>2. Removed => FellBack(api) /\ fallback'
  BY DEF Removed, FellBack, StillDX12
<1>3. ~init \/ FellBack(api)
  BY DEF Ready
<1> QED BY <1>1, <1>2, <1>3 DEF settings, ChainTyped

LEMMA SettingUpIsSetsUp ==
    ASSUME SettingUp
    PROVE  \E api \in Apis \cup {"Unknown"} :
              /\ SetsUp(api)
              /\ RemovesDevice \/ DX12InitFails \/ DX12Init => api = "DX12" /\ ~fallback
              /\ DX11Init => api = "DX11"
              /\ \/ RemovesDevice \/ DX12InitFails \/ DX12Init \/ DX11Init
                 \/ DX11InitFails(api)
<1>1. CASE RemovesDevice \/ DX12InitFails \/ DX12Init
  <2>1. SetsUp("DX12") /\ ~fallback /\ "DX12" \in Apis
    BY <1>1 DEF RemovesDevice, DX12InitFails, DX12Init, DetectedDX12, Apis
  <2>2. ~DX11Init
    BY <2>1 DEF DX11Init, SetsUp, Adopted, Detects
  <2> QED BY <1>1, <2>1, <2>2
<1>2. CASE DX11Init
  <2>1. SetsUp("DX11") /\ "DX11" \in Apis
    BY <1>2 DEF DX11Init, Apis
  <2>2. ~(RemovesDevice \/ DX12InitFails \/ DX12Init)
    BY <2>1 DEF RemovesDevice, DX12InitFails, DX12Init, SetsUp, Adopted, Detects
  <2> QED BY <1>2, <2>1, <2>2
<1>3. ASSUME NEW api \in Apis \cup {"Unknown"}, DX11InitFails(api),
             ~(RemovesDevice \/ DX12InitFails \/ DX12Init \/ DX11Init)
      PROVE  SetsUp(api)
  BY <1>3 DEF DX11InitFails
<1> QED BY <1>1, <1>2, <1>3 DEF SettingUp

\* A client that is set up has taken its buffers from the swap chain there is.
LEMMA Taken ==
    ASSUME ChainTyped, RefsCurrent, NEW S, TakesBuffers(S)
    PROVE  /\ refs' \in [Holders -> Nat]
           /\ \A h \in Holders : refs'[h] \in {None, chain.buf}
           /\ \A h \in Holders \cap S : refs'[h] = chain.buf
BY ChainFacts DEF ChainTyped, RefsCurrent, TakesBuffers

LEMMA StepSetsUp ==
    ASSUME LeaseInv, SettingUp
    PROVE  LeaseInv'
<1> USE DEF LeaseInv
<1>1. PICK api \in Apis \cup {"Unknown"} :
        /\ SetsUp(api)
        /\ RemovesDevice \/ DX12InitFails \/ DX12Init => api = "DX12" /\ ~fallback
        /\ DX11Init => api = "DX11"
        /\ \/ RemovesDevice \/ DX12InitFails \/ DX12Init \/ DX11Init
           \/ DX11InitFails(api)
  BY SettingUpIsSetsUp
<1>2. /\ swapchain' # None /\ swapchain' \in Nat
      /\ UNCHANGED <<chain, platform, phase, gen, call, recreate, killdx>>
      /\ call = Idle /\ phase = "running" /\ chain # NoChain /\ chain \in Chains /\ ~recreate
      /\ Removed => fallback'
      /\ fallback' = (fallback \/ FellBack(api)) /\ ~StillDX12(api)
      /\ Detects(api)
  BY <1>1, SetsUpFacts
<1>3. /\ \A h \in Holders : refs'[h] \in {None, chain.buf}
      /\ refs' \in [Holders -> Nat]
  <2>1. refs' = refs \/ \E S : TakesBuffers(S)
    BY <1>1 DEF RemovesDevice, DX12InitFails, DX11InitFails, DX12Init, DX11Init
  <2> QED BY <2>1, Taken DEF ChainTyped, RefsCurrent
<1>4. ChainTyped' /\ RefsCurrent'
  BY <1>2, <1>3 DEF ChainTyped, RefsCurrent
<1>5. /\ CallsFindNothing' /\ ResizesAChain' /\ InitHasPointer' /\ CleanIsClean' /\ RoomLeft'
      /\ NotInitDuringCalls'
  BY <1>2
  DEF CallsFindNothing, ResizesAChain, InitHasPointer, CleanIsClean, RoomLeft,
      NotInitDuringCalls
<1>6. CASE RemovesDevice
  <2>1. removed' /\ ~init' /\ refs' = refs
    BY <1>6 DEF RemovesDevice
  <2>2. platform = "Hwnd" => refs = NoRefs
    <3>1. GivesUpDX12 /\ Hooked
      BY <1>1, <1>2, <1>6 DEF RemovesDevice, Detects, GivesUpDX12, Hooked
    <3> QED BY <3>1 DEF HwndHasNothing
  <2>3. RemovedNotInit' /\ HwndHasNothing'
    BY <1>2, <2>1, <2>2 DEF RemovedNotInit, HwndHasNothing
  <2> QED BY <1>4, <1>5, <2>3
<1>7. ASSUME ~RemovesDevice PROVE LeaseInv'
  <2>1. removed' = removed
    BY <1>1, <1>7 DEF DX12InitFails, DX12Init, DX11InitFails, DX11Init
  <2>2. ~Removed' /\ RemovedNotInit'
    BY <1>2, <2>1 DEF Removed, RemovedNotInit
  <2>3. GivesUpDX12' => GivesUpDX12
    BY <1>2, <2>1 DEF GivesUpDX12
  <2>4. ASSUME GivesUpDX12 PROVE ~init' /\ refs' = refs
    <3>1. chain.api = "DX12" /\ killdx /\ ~removed
      BY <2>4 DEF GivesUpDX12
    <3>2. ~DX12Init /\ ~DX11Init
      BY <1>1, <1>2, <3>1 DEF DX12Init, Detects
    <3>3. CASE DX12InitFails
      BY <3>1, <3>3 DEF DX12InitFails
    <3>4. CASE DX11InitFails(api)
      BY <3>4 DEF DX11InitFails
    <3> QED BY <1>1, <1>7, <3>2, <3>3, <3>4
  <2>5. Hooked /\ Hooked'
    BY <1>2 DEF Hooked
  <2>6. HwndHasNothing'
    BY <1>2, <2>2, <2>3, <2>4, <2>5 DEF HwndHasNothing
  <2> QED BY <1>4, <1>5, <2>2, <2>6
<1> QED BY <1>6, <1>7

DrawingOf(api) == IF DetectedDX12(api) THEN refs["D3D11Resources"]
                  ELSE IF api = "Unknown" THEN None ELSE chain.buf

LEMMA StepDraws ==
    ASSUME LeaseInv, DrawsUnderUI \/ \E api : Draws(api)
    PROVE  LeaseInv'
<1> USE DEF LeaseInv, game, state, control, devices, settings
<1>1. /\ UNCHANGED <<chain, platform, gen, call, phase, init, recreate, removed, killdx,
                     d3d11Device>>
      /\ call = Idle /\ init /\ Hooked
  BY DEF Draws, DrawsUnderUI, Adopted, Presenting, Ready, Hooked
<1>2. swapchain' \in Nat /\ swapchain' # None
  <2>1. ASSUME NEW api, Draws(api) PROVE swapchain' \in Nat /\ swapchain' # None
    BY <2>1, ChainFacts DEF Draws, Adopted, Presenting, Pointer, ChainTyped
  <2>2. CASE DrawsUnderUI
    BY <1>1, <2>2 DEF DrawsUnderUI, ChainTyped, InitHasPointer
  <2> QED BY <2>1, <2>2
<1>3. refs' \in [Holders -> Nat] /\ \A h \in Holders : refs'[h] \in {None, chain.buf}
  <2>1. ASSUME NEW api, Draws(api)
        PROVE  refs' \in [Holders -> Nat] /\ \A h \in Holders : refs'[h] \in {None, chain.buf}
    <3>1. DrawingOf(api) \in {None, chain.buf} /\ DrawingOf(api) \in Nat
      BY ChainFacts DEF RefsCurrent, Holders, None, DrawingOf
    <3>2. \/ refs' = refs
          \/ refs' = [refs EXCEPT !["SavedD3D11BackBuffer"] = DrawingOf(api),
                                  !["cachedRTV"] = IF @ = None THEN DrawingOf(api) ELSE @]
      BY <2>1 DEF Draws, DrawingOf
    <3> QED BY <3>1, <3>2 DEF ChainTyped, RefsCurrent
  <2>2. CASE DrawsUnderUI
    BY <2>2, ChainFacts DEF DrawsUnderUI, ChainTyped, RefsCurrent
  <2> QED BY <2>1, <2>2
<1>4. CleanIsClean'
  <2>1. phase \notin {"cleaned", "gone"}
    BY DEF Draws, DrawsUnderUI, Adopted, Presenting, CleanIsClean
  <2> QED BY <1>1, <2>1 DEF CleanIsClean
<1>5. ChainTyped' /\ RefsCurrent'
  BY <1>1, <1>2, <1>3 DEF ChainTyped, RefsCurrent
<1>6. CallsFindNothing' /\ ResizesAChain' /\ InitHasPointer' /\ RoomLeft'
  BY <1>1, <1>2 DEF CallsFindNothing, ResizesAChain, InitHasPointer, RoomLeft
<1>7. fallback => fallback'
  BY DEF Draws, DrawsUnderUI, Adopted
<1>8. RemovedNotInit'
  BY <1>1, <1>7 DEF RemovedNotInit
<1>9. chain # NoChain
  BY <1>1 DEF NotInitDuringCalls
<1>10. NotInitDuringCalls' /\ HwndHasNothing'
  <2>1. platform = "Hwnd" => ~GivesUpDX12
    BY <1>1 DEF HwndHasNothing
  <2>2. GivesUpDX12' = GivesUpDX12 /\ ~Removed'
    BY <1>1, <1>7 DEF GivesUpDX12, Removed, RemovedNotInit
  <2> QED BY <1>1, <1>2, <1>9, <2>1, <2>2 DEF NotInitDuringCalls, HwndHasNothing
<1> QED BY <1>4, <1>5, <1>6, <1>8, <1>10

LEMMA StepRecreates ==
    ASSUME LeaseInv, NEW api, PresentRecreates(api)
    PROVE  LeaseInv'
<1> USE DEF LeaseInv, PresentRecreates, ReleaseBuffers
<1>1. chain # NoChain /\ chain' = chain /\ chain \in Chains
  BY DEF Adopted, Presenting, ChainTyped
<1>2. /\ call' = [kind |-> "resize", api |-> chain.api]
      /\ call' \in [kind : {"resize", "create"}, api : Apis]
  BY <1>1 DEF Chains
<1>3. swapchain' \in Nat
  BY <1>1, ChainFacts DEF ChainTyped
<1>4. ChainTyped'
  BY <1>1, <1>2, <1>3, NothingHeld DEF ChainTyped
<1>5. /\ ResizesAChain' /\ InitHasPointer' /\ RemovedNotInit' /\ CleanIsClean'
      /\ NotInitDuringCalls' /\ HwndHasNothing'
  BY <1>1 DEF ResizesAChain, InitHasPointer, RemovedNotInit, CleanIsClean,
      NotInitDuringCalls, HwndHasNothing
<1>6. RoomLeft'
  BY DEF RoomLeft
<1> QED BY <1>4, <1>5, <1>6, NothingHeld

-----------------------------------------------------------------------------
(* Steps that change nothing the invariant is about, or give everything back *)

LEMMA StepClicks ==
    ASSUME LeaseInv, ToggleKilldx \/ ForceReload
    PROVE  LeaseInv'
<1> USE DEF LeaseInv, game, settings, state, control, devices
<1>1. /\ UNCHANGED <<chain, platform, gen, call, swapchain, init, removed, fallback, phase,
                     refs, d3d11Device>>
      /\ init /\ phase = "running" /\ call = Idle /\ chain # NoChain
  BY DEF ToggleKilldx, ForceReload, Clicks, Drawing
<1>2. RoomLeft'
  BY <1>1 DEF ToggleKilldx, ForceReload, RoomLeft
<1>3. HwndHasNothing'
  <2>1. platform = "Hwnd" => ~GivesUpDX12'
    <3>1. CASE ToggleKilldx
      BY <1>1, <3>1 DEF ToggleKilldx, GivesUpDX12
    <3>2. CASE ForceReload
      BY <3>2 DEF ForceReload
    <3> QED BY <3>1, <3>2
  <2>2. swapchain # None /\ ~Removed'
    BY <1>1 DEF InitHasPointer, RemovedNotInit, Removed
  <2> QED BY <1>1, <2>1, <2>2 DEF HwndHasNothing
<1> QED
  BY <1>1, <1>2, <1>3
  DEF ChainTyped, RefsCurrent, CallsFindNothing, ResizesAChain, NotInitDuringCalls,
      InitHasPointer, RemovedNotInit, CleanIsClean, Hooked

LEMMA StepOther ==
    ASSUME LeaseInv,
           \/ ExecuteCommandLists \/ PresentRefused \/ ToggleVsync
           \/ Start \/ Disable \/ Cleanup \/ Unhook \/ UNCHANGED vars
    PROVE  LeaseInv'
<1> USE DEF LeaseInv, game, settings, state, control, devices, vars
<1>1. UNCHANGED <<chain, platform, gen, call, swapchain, init, recreate, removed, fallback, killdx>>
  BY DEF ExecuteCommandLists, PresentRefused, ToggleVsync, Start, Disable, Cleanup, Unhook, Enters
<1>2. Hooked' => Hooked
  BY DEF ExecuteCommandLists, PresentRefused, ToggleVsync, Start, Disable, Cleanup, Unhook, Enters,
      Hooked
<1>3. NotInitDuringCalls'
  BY <1>1, <1>2 DEF NotInitDuringCalls
<1>4. CASE Cleanup
  <2>1. refs' = NoRefs /\ d3d11Device' = None
    BY <1>4 DEF Cleanup, ReleaseBuffers
  <2>2. ChainTyped' /\ ResizesAChain' /\ InitHasPointer' /\ RemovedNotInit' /\ CleanIsClean'
    BY <1>1, <2>1, NothingHeld
    DEF ChainTyped, ResizesAChain, InitHasPointer, RemovedNotInit, CleanIsClean
  <2>3. RoomLeft'
    BY <1>1 DEF RoomLeft
  <2>4. HwndHasNothing'
    BY <1>1, <1>2, <2>1 DEF HwndHasNothing, Removed, GivesUpDX12
  <2> QED BY <1>3, <2>1, <2>2, <2>3, <2>4, NothingHeld
<1>5. ASSUME ~Cleanup PROVE LeaseInv'
  <2>1. UNCHANGED <<refs, d3d11Device>>
    BY <1>5 DEF ExecuteCommandLists, PresentRefused, ToggleVsync, Start, Disable, Unhook, Enters
  <2>2. phase' \in {"cleaned", "gone"} => phase \in {"cleaned", "gone"}
    BY <1>5 DEF ExecuteCommandLists, PresentRefused, ToggleVsync, Start, Disable, Unhook, Enters
  <2>3. CleanIsClean'
    BY <2>1, <2>2 DEF CleanIsClean
  <2>4. HwndHasNothing'
    BY <1>1, <1>2, <2>1 DEF HwndHasNothing, Removed, GivesUpDX12
  <2> QED
    BY <1>1, <1>3, <2>1, <2>3, <2>4
    DEF ChainTyped, RefsCurrent, CallsFindNothing, ResizesAChain,
        InitHasPointer, RemovedNotInit, RoomLeft
<1> QED BY <1>4, <1>5

\* The steps of Next, as the proofs go through them.
LEMMA Steps ==
    ASSUME [Next]_vars
    PROVE  \/ ResizeBuffers \/ Resized \/ Created \/ CreateFailed
           \/ \E a \in Apis : CreateSwapChain(a)
           \/ SettingUp
           \/ DrawsUnderUI \/ \E api : Draws(api)
           \/ \E api : PresentRecreates(api)
           \/ ToggleKilldx \/ ForceReload
           \/ ExecuteCommandLists \/ PresentRefused \/ ToggleVsync
           \/ Start \/ Disable \/ Cleanup \/ Unhook \/ UNCHANGED vars
BY DEF Next, Present, SettingUp

LEMMA StepLease == LeaseInv /\ [Next]_vars => LeaseInv'
BY Steps, StepCalls, StepCreate, StepSetsUp, StepDraws, StepRecreates, StepClicks, StepOther

LEMMA LeaseAlways == Spec => []LeaseInv
BY InitLease, StepLease, PTL DEF Spec

-----------------------------------------------------------------------------
(* The refinement                                                          *)

Held == {refs[h] : h \in Holders} \ {None}

\* As long as the buffers stay, taking and giving references to them is allowed.
LEMMA SameBuffers ==
    ASSUME LeaseInv, LeaseInv', chain' = chain
    PROVE  [Lease!Next]_(Lease!vars)
<1>1. Held' \subseteq {chain.buf} /\ (chain.buf = None => Held' = {})
  BY DEF LeaseInv, RefsCurrent, Held
<1>2. CASE Held' = {}
  BY <1>2 DEF Held, Lease!Next, Lease!Return
<1>3. CASE Held' # {}
  <2>1. Held' = {chain.buf} /\ chain.buf # None
    BY <1>1, <1>3
  <2> QED BY <2>1 DEF Held, Lease!Next, Lease!Borrow, None, Lease!None
<1> QED BY <1>2, <1>3

\* The buffers change only in the steps that end a call, when nothing is held.
LEMMA BuffersChange ==
    ASSUME LeaseInv, LeaseInv', [Next]_vars, chain' # chain
    PROVE  Lease!Change
<1>1. Resized \/ Created \/ CreateFailed
  BY Steps
  DEF SettingUp, SetsUp, vars, game, ResizeBuffers, CreateSwapChain, ExecuteCommandLists,
      PresentRefused, PresentRecreates, Draws, RemovesDevice, DX12InitFails, DX12Init,
      DX11InitFails, DX11Init, DrawsUnderUI, ToggleVsync, ToggleKilldx, ForceReload,
      Start, Disable, Cleanup, Unhook, Enters
<1>2. call # Idle /\ refs' = refs
  BY <1>1 DEF Resized, Created, CreateFailed, Idle
<1>3. Held = {} /\ Held' = {}
  BY <1>2 DEF LeaseInv, CallsFindNothing, Held, NoRefs
<1>4. chain'.buf \in (1..MaxGen) \cup {None}
  <2>1. ChainTyped'
    BY DEF LeaseInv
  <2> QED BY <2>1 DEF ChainTyped, Chains, NoChain, None
<1> QED BY <1>3, <1>4 DEF Held, Lease!Change, None, Lease!None

\* The hooks on ResizeBuffers, CreateSwapChain and Present implement the lease: the
\* buffers of the swap chain change only when the client holds none of them, for every
\* number of swap chains, resizes and failures.
THEOREM LeaseAlwaysKept == Spec => LeaseKept
<1>1. Init => Lease!Init
  <2> SUFFICES ASSUME Init PROVE Lease!Init
    OBVIOUS
  <2>1. Held = {}
    BY DEF Init, NoRefs, Held
  <2>2. chain.buf \in (1..MaxGen) \cup {None}
    BY InitLease, ChainFacts DEF LeaseInv
  <2> QED BY <2>1, <2>2 DEF Held, Lease!Init, None, Lease!None
<1>2. LeaseInv /\ LeaseInv' /\ [Next]_vars => [Lease!Next]_(Lease!vars)
  BY SameBuffers, BuffersChange DEF Lease!Next
<1> QED BY <1>1, <1>2, LeaseAlways, PTL DEF Spec, LeaseKept, Lease!Spec

-----------------------------------------------------------------------------
(* What is drawn with                                                      *)

\* The client's hooks and callbacks matter until it is disabled.
Live == phase \in {"starting", "running"}

Fresh == imgui = NoBackend /\ images = None

\* As the client is when the game creates a swap chain: it has let go of the old one.
Vacant == Fresh /\ (swapchain = None \/ Removed)

VacantWhenCreating == call.kind = "create" \/ chain = NoChain => Vacant

\* The client has started nothing when it is not set up and may be about to change
\* the API.
StartedNothing ==
    /\ swapchain = None => Fresh
    /\ platform = "Hwnd" /\ (Removed \/ GivesUpDX12) => Fresh

NotDuringCalls == init => phase = "running" /\ call = Idle /\ chain # NoChain

PointerCurrent == swapchain # None /\ ~Removed => swapchain = chain.dev

BackendCurrent ==
    /\ imgui # NoBackend => imgui = [api |-> chain.api, dev |-> chain.dev]
    /\ initImgui => imgui # NoBackend
    /\ images \in {None, chain.dev}

\* The queue, unless Better Frames is about to give DX12 up.
UsesQueue == platform = "CoreWindow" \/ (~killdx /\ chain.api = "DX12")
QueueCurrent ==
    ~removed =>
        /\ chain # NoChain /\ call.kind # "create" /\ UsesQueue => queue \in {None, chain.dev}
        /\ platform = "CoreWindow" /\ call.kind = "create" => queue \in {None, gen + 1}
        /\ platform = "Hwnd" /\ ~killdx /\ swapchain = None
              => /\ ~recreate
                 /\ lost => chain = NoChain
                 /\ chain = NoChain \/ call.kind = "create" => queue = None

SetUpComplete ==
    init =>
        /\ d3d11Device = chain.dev /\ initImgui
        /\ \A h \in SetUpHolders(chain.api) : refs[h] = chain.buf
        /\ chain.api = "DX12" => queue = chain.dev /\ d3d12Device5 = chain.dev

ReadyInv ==
    Live => /\ VacantWhenCreating /\ StartedNothing /\ NotDuringCalls /\ PointerCurrent
            /\ BackendCurrent /\ QueueCurrent /\ SetUpComplete

LEMMA InitReady == Init => ReadyInv
<1> SUFFICES ASSUME Init PROVE ReadyInv
  OBVIOUS
<1>1. chain = NoChain \/ (chain # NoChain /\ chain.dev = 1 /\ lost = FALSE)
  BY DEF Init, NoChain, None
<1>2. VacantWhenCreating /\ StartedNothing /\ NotDuringCalls /\ PointerCurrent /\ SetUpComplete
  BY DEF Init, VacantWhenCreating, StartedNothing, NotDuringCalls, PointerCurrent,
      SetUpComplete, Vacant, Fresh, Idle
<1>3. BackendCurrent
  BY DEF Init, BackendCurrent
<1>4. QueueCurrent
  BY <1>1 DEF Init, QueueCurrent, Idle
<1> QED BY <1>2, <1>3, <1>4 DEF ReadyInv

LEMMA ReadyResize ==
    ASSUME LeaseInv, ReadyInv, ResizeBuffers \/ Resized, Live'
    PROVE  ReadyInv'
<1> USE DEF settings, control, state, devices
<1>1. /\ UNCHANGED <<platform, lost, phase, killdx, recreate, removed, fallback,
                     isDX12, initImgui, swapchain, queue, d3d12Device5, imgui, images>>
      /\ Live
  BY DEF ResizeBuffers, Resized, Live
<1>2. ~init' /\ call'.kind # "create" /\ call.kind # "create"
  BY <1>1 DEF ResizeBuffers, Resized, Live, Hooked, ReadyInv, NotDuringCalls, Idle
<1>3. chain' # NoChain /\ chain # NoChain /\ chain'.dev = chain.dev /\ chain'.api = chain.api
  <2>1. chain \in Chains
    BY DEF ResizeBuffers, Resized, LeaseInv, ChainTyped, ResizesAChain
  <2>2. CASE ResizeBuffers
    BY <2>1, <2>2 DEF ResizeBuffers
  <2>3. CASE Resized
    <3>1. chain' = chain \/ (gen + 1 \in Nat \ {0} /\ chain' = [chain EXCEPT !.buf = gen + 1])
      BY <2>3 DEF Resized, LeaseInv, RoomLeft
    <3> QED BY <2>1, <3>1 DEF Chains, NoChain, None
  <2> QED BY <2>2, <2>3
<1>4. VacantWhenCreating' /\ StartedNothing' /\ NotDuringCalls' /\ PointerCurrent'
  BY <1>1, <1>2, <1>3
  DEF ReadyInv, VacantWhenCreating, StartedNothing, NotDuringCalls, PointerCurrent,
      Vacant, Fresh, Removed, GivesUpDX12
<1>5. BackendCurrent' /\ SetUpComplete'
  BY <1>1, <1>2, <1>3 DEF ReadyInv, BackendCurrent, SetUpComplete
<1>6. QueueCurrent'
  BY <1>1, <1>2, <1>3 DEF ReadyInv, QueueCurrent, UsesQueue
<1> QED BY <1>4, <1>5, <1>6 DEF ReadyInv

LEMMA ReadyCreate ==
    ASSUME LeaseInv, ReadyInv, NEW a \in Apis, CreateSwapChain(a), Live'
    PROVE  ReadyInv'
<1> USE DEF CreateSwapChain, settings
<1>1. /\ UNCHANGED <<platform, chain, gen, lost, phase, killdx, removed, fallback, isDX12>>
      /\ Live /\ Hooked /\ call = Idle /\ call'.kind = "create" /\ call.kind # "create"
  BY DEF Live, Hooked, Idle
<1>2. CASE platform = "CoreWindow"
  <2>1. /\ ~init' /\ swapchain' = None /\ imgui' = NoBackend /\ images' = None
        /\ initImgui' = (initImgui /\ imgui = NoBackend)
        /\ queue' \in {None, gen + 1}
    BY <1>1, <1>2 DEF FullReset
  <2>2. VacantWhenCreating' /\ StartedNothing' /\ NotDuringCalls' /\ PointerCurrent' /\ SetUpComplete'
    BY <2>1
    DEF VacantWhenCreating, StartedNothing, NotDuringCalls, PointerCurrent, SetUpComplete,
        Vacant, Fresh
  <2>3. BackendCurrent'
    BY <1>1, <2>1 DEF ReadyInv, BackendCurrent
  <2>4. QueueCurrent'
    BY <1>1, <1>2, <2>1 DEF QueueCurrent
  <2> QED BY <2>2, <2>3, <2>4 DEF ReadyInv
<1>3. CASE platform = "Hwnd"
  <2>1. UNCHANGED <<init, initImgui, swapchain, recreate, queue, imgui, images>>
    BY <1>1, <1>3
  <2>2. chain = NoChain \/ (lost /\ (swapchain = None \/ Removed))
    BY <1>3 DEF MayCreate, Removed
  <2>3. Vacant /\ ~init
    BY <1>1, <1>3, <2>2
    DEF ReadyInv, VacantWhenCreating, StartedNothing, NotDuringCalls, Vacant, Removed,
        LeaseInv, InitHasPointer, RemovedNotInit
  <2>4. VacantWhenCreating' /\ StartedNothing' /\ NotDuringCalls' /\ PointerCurrent' /\ SetUpComplete'
    BY <1>1, <2>1, <2>3
    DEF ReadyInv, VacantWhenCreating, StartedNothing, NotDuringCalls, PointerCurrent,
        SetUpComplete, Vacant, Fresh, Removed, GivesUpDX12
  <2>5. BackendCurrent'
    BY <1>1, <2>1 DEF ReadyInv, BackendCurrent
  <2>6. QueueCurrent'
    BY <1>1, <1>3, <2>1, <2>2, <2>3 DEF ReadyInv, QueueCurrent, Removed
  <2> QED BY <2>4, <2>5, <2>6 DEF ReadyInv
<1> QED BY <1>2, <1>3 DEF LeaseInv, ChainTyped

LEMMA ReadyCreated ==
    ASSUME LeaseInv, ReadyInv, Created \/ CreateFailed, Live'
    PROVE  ReadyInv'
<1> USE DEF settings, control, state, devices
<1>1. /\ UNCHANGED <<platform, phase, recreate, removed, fallback, isDX12, init, initImgui,
                     swapchain, imgui, images>>
      /\ Live /\ Hooked /\ call.kind = "create" /\ call # Idle /\ call'.kind = "idle"
  BY DEF Created, CreateFailed, Live, Hooked, Idle
<1>2. Vacant /\ ~init
  BY <1>1 DEF ReadyInv, VacantWhenCreating, NotDuringCalls
<1>3. killdx' => killdx
  BY DEF Created, CreateFailed
<1>4. VacantWhenCreating' /\ StartedNothing' /\ NotDuringCalls' /\ PointerCurrent' /\ SetUpComplete'
  BY <1>1, <1>2, <1>3
  DEF VacantWhenCreating, StartedNothing, NotDuringCalls, PointerCurrent, SetUpComplete,
      Vacant, Fresh, Removed, GivesUpDX12
<1>5. BackendCurrent'
  BY <1>1, <1>2 DEF ReadyInv, BackendCurrent, Vacant, Fresh
<1>6. QueueCurrent'
  <2>1. CASE Created
    <3>1. chain'.dev = gen + 1 /\ gen' = gen + 1 /\ ~lost' /\ killdx' = killdx /\ chain' # NoChain
      BY <2>1 DEF Created, NoChain, None, LeaseInv, RoomLeft
    <3>2. queue' \in {queue, gen + 1}
      BY <2>1 DEF Created
    <3>3. platform = "CoreWindow" => queue' = queue
      BY <2>1 DEF Created
    <3>4. ~removed => swapchain = None
      BY <1>2 DEF Vacant, Removed
    <3>5. CASE platform = "CoreWindow"
      BY <1>1, <3>1, <3>3, <3>5 DEF ReadyInv, QueueCurrent
    <3>6. CASE platform = "Hwnd"
      BY <1>1, <3>1, <3>2, <3>4, <3>6 DEF ReadyInv, QueueCurrent, UsesQueue
    <3> QED BY <3>5, <3>6 DEF LeaseInv, ChainTyped
  <2>2. CASE CreateFailed
    <3>1. chain' = NoChain /\ UNCHANGED queue
      BY <2>2 DEF CreateFailed
    <3>2. platform = "Hwnd" => UNCHANGED killdx
      BY <2>2 DEF CreateFailed
    <3>3. platform = "Hwnd" /\ ~killdx /\ ~removed /\ swapchain = None => queue = None /\ ~recreate
      BY <1>1 DEF ReadyInv, QueueCurrent
    <3> QED BY <1>1, <3>1, <3>2, <3>3 DEF QueueCurrent
  <2> QED BY <2>1, <2>2
<1> QED BY <1>4, <1>5, <1>6 DEF ReadyInv

\* Setting up: with the pointer that Present adopts everything becomes current.
LEMMA ReadySetsUp ==
    ASSUME LeaseInv, ReadyInv, SettingUp
    PROVE  ReadyInv'
<1>1. PICK api \in Apis \cup {"Unknown"} :
        /\ SetsUp(api)
        /\ RemovesDevice \/ DX12InitFails \/ DX12Init => api = "DX12" /\ ~fallback
        /\ DX11Init => api = "DX11"
        /\ \/ RemovesDevice \/ DX12InitFails \/ DX12Init \/ DX11Init
           \/ DX11InitFails(api)
  BY SettingUpIsSetsUp
<1>2. /\ UNCHANGED <<platform, chain, gen, call, phase, killdx, recreate, queue>>
      /\ Live /\ call = Idle /\ call.kind = "idle" /\ phase = "running" /\ chain # NoChain
      /\ chain.api \in Apis /\ chain.dev # None /\ ~init /\ Detects(api)
      /\ fallback' = (fallback \/ FellBack(api)) /\ ~StillDX12(api)
      /\ Removed => FellBack(api) /\ fallback'
  <2>1. queue' = queue
    BY <1>1 DEF SetsUp
  <2>2. ~init
    BY <1>1, SetsUpFacts DEF FellBack, LeaseInv, RemovedNotInit
  <2>3. chain.api \in Apis /\ chain.dev # None
    BY <1>1, SetsUpFacts, ChainFacts DEF LeaseInv
  <2> QED BY <1>1, <2>1, <2>2, <2>3, SetsUpFacts DEF Live, Idle
<1>3. swapchain' = chain.dev /\ Pointer(api) = chain.dev
  BY <1>1, <1>2, SetsUpFacts DEF Pointer, ReadyInv, PointerCurrent
<1>4. VacantWhenCreating'
  BY <1>2 DEF VacantWhenCreating
<1>5. NotDuringCalls'
  BY <1>2 DEF NotDuringCalls
<1>6. PointerCurrent'
  BY <1>2, <1>3 DEF PointerCurrent
<1>7. CASE RemovesDevice
  <2>1. removed' /\ ~init' /\ UNCHANGED <<initImgui, imgui, images>>
    BY <1>7 DEF RemovesDevice
  <2>2. platform = "Hwnd" => Fresh
    <3>1. GivesUpDX12
      BY <1>1, <1>2, <1>7 DEF RemovesDevice, Detects, GivesUpDX12
    <3> QED BY <1>2, <3>1 DEF ReadyInv, StartedNothing
  <2>3. StartedNothing'
    BY <1>2, <1>3, <2>1, <2>2 DEF StartedNothing, Fresh
  <2>4. QueueCurrent' /\ SetUpComplete'
    BY <2>1 DEF QueueCurrent, SetUpComplete
  <2>5. BackendCurrent'
    BY <1>2, <2>1 DEF ReadyInv, BackendCurrent
  <2> QED BY <1>4, <1>5, <1>6, <2>3, <2>4, <2>5 DEF ReadyInv
<1>8. ASSUME ~RemovesDevice PROVE ReadyInv'
  <2>1. UNCHANGED <<lost, removed>>
    BY <1>1, <1>8 DEF DX12InitFails, DX12Init, DX11InitFails, DX11Init
  <2>2. ~Removed'
    BY <1>2, <2>1 DEF Removed
  <2>3. QueueCurrent'
    BY <1>2, <1>3, <2>1 DEF ReadyInv, QueueCurrent, UsesQueue
  <2>4. CASE DX12InitFails \/ DX11InitFails(api)
    <3>1. ~init' /\ UNCHANGED <<initImgui, imgui, images>>
      BY <2>4 DEF DX12InitFails, DX11InitFails
    <3>2. StartedNothing'
      BY <1>2, <1>3, <2>1, <2>2, <3>1 DEF ReadyInv, StartedNothing, Fresh, GivesUpDX12
    <3>3. BackendCurrent' /\ SetUpComplete'
      BY <1>2, <3>1 DEF ReadyInv, BackendCurrent, SetUpComplete
    <3> QED BY <1>4, <1>5, <1>6, <2>3, <3>2, <3>3 DEF ReadyInv
  <2>5. ASSUME DX12Init \/ DX11Init PROVE ReadyInv'
    <3>1. StartsImGui(api) /\ api = chain.api /\ images' \in {images, None, chain.dev}
      BY <1>1, <1>2, <2>5 DEF DX12Init, DX11Init, Detects, LoadsImages
    <3>2. imgui' = [api |-> chain.api, dev |-> chain.dev] /\ initImgui'
      BY <1>2, <1>3, <3>1 DEF StartsImGui, ReadyInv, BackendCurrent
    <3>3. imgui' # NoBackend
      BY <1>2, <3>2 DEF NoBackend
    <3>4. BackendCurrent'
      BY <1>2, <3>1, <3>2, <3>3 DEF ReadyInv, BackendCurrent
    <3>5. CASE DX12Init
      <4>1. chain.api = "DX12" /\ ~removed /\ ~killdx /\ queue # None
        BY <1>1, <1>2, <3>1, <3>5 DEF DX12Init, StillDX12
      <4>2. queue' = chain.dev
        BY <1>2, <4>1 DEF ReadyInv, QueueCurrent, UsesQueue
      <4>3. StartedNothing'
        BY <1>2, <1>3, <2>1, <2>2, <4>1 DEF StartedNothing, GivesUpDX12
      <4>4. d3d12Device5' = chain.dev /\ d3d11Device' = chain.dev
        BY <1>1, <1>3, <3>5 DEF DX12Init
      <4>5. \A h \in SetUpHolders(chain'.api) : refs'[h] = chain'.buf
        <5>1. SetUpHolders("DX12") \subseteq Holders
          BY DEF SetUpHolders, Holders
        <5> QED BY <1>2, <3>5, <4>1, <5>1, Taken DEF DX12Init, LeaseInv
      <4>6. SetUpComplete'
        BY <1>2, <3>2, <4>1, <4>2, <4>4, <4>5 DEF SetUpComplete
      <4> QED BY <1>4, <1>5, <1>6, <2>3, <3>4, <4>3, <4>6 DEF ReadyInv
    <3>6. CASE DX11Init
      <4>1. chain.api = "DX11" /\ d3d11Device' = chain.dev
        BY <1>1, <1>3, <3>1, <3>6 DEF DX11Init
      <4>2. StartedNothing'
        BY <1>2, <1>3, <2>2, <4>1 DEF StartedNothing, GivesUpDX12
      <4>3. \A h \in SetUpHolders(chain'.api) : refs'[h] = chain'.buf
        <5>1. SetUpHolders("DX11") \subseteq Holders
          BY DEF SetUpHolders, Holders
        <5>2. TakesBuffers(SetUpHolders("DX11") \cup {"SavedD3D11BackBuffer"})
          BY <3>6 DEF DX11Init
        <5>3. \A h \in SetUpHolders("DX11") : refs'[h] = chain.buf
          BY <5>1, <5>2, Taken DEF LeaseInv
        <5> QED BY <1>2, <4>1, <5>3
      <4>4. SetUpComplete'
        BY <1>2, <3>2, <4>1, <4>3 DEF SetUpComplete
      <4> QED BY <1>4, <1>5, <1>6, <2>3, <3>4, <4>2, <4>4 DEF ReadyInv
    <3> QED BY <2>5, <3>5, <3>6
  <2> QED BY <1>1, <1>8, <2>4, <2>5
<1> QED BY <1>7, <1>8

\* Drawing changes nothing but the two references it takes and the images.
LEMMA ReadyDraws ==
    ASSUME LeaseInv, ReadyInv, DrawsUnderUI \/ \E api : Draws(api), Live'
    PROVE  ReadyInv'
<1> USE DEF game, state, devices, control
<1>1. /\ UNCHANGED <<platform, chain, gen, lost, call, phase, killdx, recreate, removed,
                     init, initImgui, queue, d3d12Device5, d3d11Device, imgui>>
      /\ Live /\ init
  BY DEF Draws, DrawsUnderUI, Ready, Live, settings
<1>2. /\ phase = "running" /\ call = Idle /\ chain # NoChain /\ call.kind # "create"
      /\ ~Removed /\ swapchain # None /\ swapchain = chain.dev
      /\ imgui # NoBackend /\ chain.api \in Apis
  BY <1>1, ChainFacts
  DEF ReadyInv, NotDuringCalls, Idle, Removed, LeaseInv, RemovedNotInit, InitHasPointer,
      PointerCurrent, SetUpComplete, BackendCurrent
<1>3. swapchain' = chain.dev /\ ~Removed'
  <2>1. ASSUME NEW api, Draws(api) PROVE swapchain' = chain.dev /\ (fallback => fallback')
    BY <1>2, <2>1 DEF Draws, Adopted, Pointer
  <2>2. CASE DrawsUnderUI
    BY <1>1, <1>2, <2>2 DEF DrawsUnderUI, Removed
  <2> QED BY <1>1, <1>2, <2>1, <2>2 DEF Removed
<1>4. images' \in {images, None, chain.dev}
  BY DEF Draws, DrawsUnderUI, LoadsImages
<1>6. \A h \in SetUpHolders(chain.api) : refs'[h] = refs[h]
  <2>1. {"SavedD3D11BackBuffer", "cachedRTV"} \cap SetUpHolders(chain.api) = {}
    BY DEF SetUpHolders
  <2>2. SetUpHolders(chain.api) \subseteq Holders /\ refs \in [Holders -> Nat]
    BY DEF SetUpHolders, Holders, LeaseInv, ChainTyped
  <2>3. \A v : \A h \in SetUpHolders(chain.api) :
          [refs EXCEPT !["SavedD3D11BackBuffer"] = v][h] = refs[h]
    BY <2>1, <2>2
  <2>4. ASSUME NEW api, Draws(api)
        PROVE  \A h \in SetUpHolders(chain.api) : refs'[h] = refs[h]
    <3>1. \/ refs' = refs
          \/ refs' = [refs EXCEPT !["SavedD3D11BackBuffer"] = DrawingOf(api),
                                  !["cachedRTV"] = IF @ = None THEN DrawingOf(api) ELSE @]
      BY <2>4 DEF Draws, DrawingOf
    <3> QED BY <2>1, <2>2, <3>1
  <2>5. CASE DrawsUnderUI
    BY <2>3, <2>5 DEF DrawsUnderUI
  <2> QED BY <2>4, <2>5
<1>7. VacantWhenCreating' /\ NotDuringCalls' /\ PointerCurrent'
  BY <1>1, <1>2, <1>3 DEF VacantWhenCreating, NotDuringCalls, PointerCurrent
<1>8. StartedNothing'
  <2>1. platform = "Hwnd" => ~GivesUpDX12
    BY <1>1, <1>2 DEF LeaseInv, HwndHasNothing, Hooked
  <2> QED BY <1>1, <1>2, <1>3, <2>1 DEF StartedNothing, GivesUpDX12
<1>9. BackendCurrent' /\ QueueCurrent'
  BY <1>1, <1>2, <1>3, <1>4 DEF ReadyInv, BackendCurrent, QueueCurrent, UsesQueue
<1>10. SetUpComplete'
  BY <1>1, <1>6 DEF ReadyInv, SetUpComplete
<1> QED BY <1>7, <1>8, <1>9, <1>10 DEF ReadyInv

\* The re-creation leaves ImGui's backend with the device it was started with.
LEMMA ReadyRecreates ==
    ASSUME LeaseInv, ReadyInv, NEW api, PresentRecreates(api)
    PROVE  ReadyInv'
<1> USE DEF PresentRecreates
<1>1. /\ UNCHANGED <<platform, chain, gen, phase, killdx, removed, queue, imgui, images>>
      /\ Live /\ phase = "running" /\ chain # NoChain /\ chain.api \in Apis
      /\ ~init' /\ ~initImgui' /\ call'.kind # "create" /\ call.kind # "create" /\ recreate
  BY ChainFacts DEF settings, Adopted, Presenting, Live, Idle, LeaseInv
<1>2. ~Removed' /\ (FellBack(api) \/ ~Removed)
  <2>1. ~StillDX12(api) /\ removed' = removed /\ fallback' = (fallback \/ FellBack(api))
    BY <1>1 DEF Adopted
  <2>2. FellBack(api) \/ ~Removed
    BY <2>1 DEF Removed, FellBack, StillDX12
  <2>3. fallback' <=> fallback \/ FellBack(api)
    BY <2>1
  <2> QED BY <2>1, <2>2, <2>3 DEF Removed
<1>3. /\ swapchain' = None => swapchain = None \/ Removed
      /\ swapchain' # None => swapchain' = chain.dev
  BY <1>1, <1>2 DEF ReadyInv, PointerCurrent, FellBack, Removed
<1>4. VacantWhenCreating' /\ NotDuringCalls' /\ PointerCurrent' /\ SetUpComplete'
  BY <1>1, <1>2, <1>3 DEF VacantWhenCreating, NotDuringCalls, PointerCurrent, SetUpComplete
<1>5. StartedNothing'
  <2>1. swapchain' = None => swapchain = None
    BY <1>1, ChainFacts DEF LeaseInv
  <2> QED BY <1>1, <1>2, <2>1 DEF ReadyInv, StartedNothing, Fresh, GivesUpDX12
<1>6. BackendCurrent'
  BY <1>1 DEF ReadyInv, BackendCurrent
<1>7. QueueCurrent'
  <2>1. swapchain' = None => swapchain = None
    BY <1>1, ChainFacts DEF LeaseInv
  <2> QED BY <1>1, <2>1 DEF ReadyInv, QueueCurrent, UsesQueue
<1> QED BY <1>4, <1>5, <1>6, <1>7 DEF ReadyInv

LEMMA ReadyClicks ==
    ASSUME LeaseInv, ReadyInv, ToggleKilldx \/ ForceReload
    PROVE  ReadyInv'
<1> USE DEF game, settings, state, control, devices
<1>1. /\ UNCHANGED <<platform, chain, gen, lost, call, phase, removed, fallback, init, initImgui,
                     swapchain, queue, d3d12Device5, d3d11Device, refs, imgui, images>>
      /\ Live /\ init /\ chain # NoChain /\ call = Idle /\ call.kind # "create"
  BY DEF ToggleKilldx, ForceReload, Clicks, Drawing, Live, Idle
<1>2. swapchain # None /\ ~Removed'
  BY <1>1 DEF LeaseInv, InitHasPointer, RemovedNotInit, Removed
<1>3. platform = "Hwnd" => chain.api # "DX12" /\ UNCHANGED recreate
  BY DEF ToggleKilldx, ForceReload
<1>4. VacantWhenCreating' /\ StartedNothing' /\ NotDuringCalls' /\ PointerCurrent'
  BY <1>1, <1>2, <1>3
  DEF ReadyInv, VacantWhenCreating, StartedNothing, GivesUpDX12, NotDuringCalls, PointerCurrent,
      Removed
<1>5. BackendCurrent' /\ SetUpComplete'
  BY <1>1 DEF ReadyInv, BackendCurrent, SetUpComplete
<1>6. QueueCurrent'
  <2>1. UsesQueue' => UsesQueue
    BY <1>1, <1>3 DEF UsesQueue, LeaseInv, ChainTyped
  <2>2. UNCHANGED <<removed, chain, call, platform, gen, queue, swapchain>>
    BY <1>1
  <2>3. QueueCurrent
    BY <1>1 DEF ReadyInv
  <2> QED BY <1>1, <1>2, <2>1, <2>2, <2>3 DEF QueueCurrent
<1> QED BY <1>4, <1>5, <1>6 DEF ReadyInv

LEMMA ReadyOther ==
    ASSUME LeaseInv, ReadyInv, Live',
           \/ ExecuteCommandLists \/ PresentRefused \/ ToggleVsync
           \/ Start \/ Disable \/ Cleanup \/ Unhook \/ UNCHANGED vars
    PROVE  ReadyInv'
<1> USE DEF game, settings, state, control, devices, vars
<1>1. /\ ~Disable /\ ~Cleanup /\ ~Unhook
      /\ Live /\ (phase' # "running" => phase # "running")
      /\ UNCHANGED <<platform, chain, gen, call, killdx, recreate, removed, fallback, isDX12,
                     init, initImgui, swapchain, d3d12Device5, d3d11Device, refs, imgui, images>>
  BY DEF ExecuteCommandLists, PresentRefused, ToggleVsync, Start, Disable, Cleanup, Unhook,
      Enters, Live
<1>2. \/ queue' = queue
      \/ queue' = chain.dev /\ call.kind # "create" /\ chain # NoChain
  BY <1>1 DEF ExecuteCommandLists, PresentRefused, ToggleVsync, Start, Enters, Idle, NoChain
<1>3. lost' = lost \/ removed
  BY <1>1 DEF ExecuteCommandLists, PresentRefused, ToggleVsync, Start, Enters, StillDX12
<1>4. VacantWhenCreating' /\ StartedNothing' /\ NotDuringCalls' /\ PointerCurrent'
  BY <1>1
  DEF ReadyInv, VacantWhenCreating, Vacant, Fresh, Removed, GivesUpDX12, StartedNothing,
      NotDuringCalls, PointerCurrent
<1>5. BackendCurrent' /\ SetUpComplete'
  BY <1>1, <1>2 DEF ReadyInv, BackendCurrent, SetUpComplete
<1>6. QueueCurrent'
  BY <1>1, <1>2, <1>3 DEF ReadyInv, QueueCurrent, UsesQueue
<1> QED BY <1>4, <1>5, <1>6 DEF ReadyInv

LEMMA ReadyStep == LeaseInv /\ ReadyInv /\ [Next]_vars => ReadyInv'
<1> SUFFICES ASSUME LeaseInv, ReadyInv, [Next]_vars, Live' PROVE ReadyInv'
  BY DEF ReadyInv
<1> QED
  BY Steps, ReadyResize, ReadyCreate, ReadyCreated, ReadySetsUp, ReadyDraws, ReadyRecreates,
     ReadyClicks, ReadyOther

LEMMA ReadyAlways == Spec => []ReadyInv
BY InitReady, LeaseAlways, ReadyStep, PTL DEF Spec

\* When Present is going to draw, everything it draws with belongs to the swap chain the
\* game has now, whatever was resized, created again, lost or failed before, any number of
\* times and in any order.
THEOREM AlwaysReadyToDraw == Spec => []ReadyToDraw
<1>1. LeaseInv /\ ReadyInv => ReadyToDraw
  <2> SUFFICES ASSUME LeaseInv, ReadyInv, Drawing PROVE ReadyToDraw
    BY DEF ReadyToDraw
  <2>1. Live /\ init /\ call = Idle /\ chain # NoChain
    BY DEF Live, Drawing, ReadyInv, NotDuringCalls
  <2>2. swapchain = chain.dev
    BY <2>1
    DEF ReadyInv, PointerCurrent, LeaseInv, InitHasPointer, RemovedNotInit, Removed
  <2>3. initImgui /\ imgui = [api |-> chain.api, dev |-> chain.dev]
        /\ images \in {None, chain.dev}
    BY <2>1 DEF ReadyInv, SetUpComplete, BackendCurrent
  <2>4. /\ d3d11Device = chain.dev
        /\ \A h \in SetUpHolders(chain.api) : refs[h] = chain.buf
        /\ chain.api = "DX12" => queue = chain.dev /\ d3d12Device5 = chain.dev
    BY <2>1 DEF ReadyInv, SetUpComplete
  <2>5. \A h \in Holders : refs[h] \in {None, chain.buf}
    BY DEF LeaseInv, RefsCurrent
  <2> QED BY <2>1, <2>2, <2>3, <2>4, <2>5 DEF ReadyToDraw
<1> QED BY <1>1, LeaseAlways, ReadyAlways, PTL

-----------------------------------------------------------------------------
(* The type invariant                                                      *)

Phases == {"starting", "running", "disabled", "cleaned", "gone"}

\* Every number is that of a generation, and no buffers are from one to come.
GensTyped ==
    /\ gen \in Gens /\ chain.buf <= gen
    /\ swapchain \in Gens /\ queue \in Gens
    /\ d3d12Device5 \in Gens /\ d3d11Device \in Gens /\ images \in Gens
    /\ imgui \in [api : Apis, dev : 1..MaxGen] \cup {NoBackend}

SwitchesTyped ==
    /\ platform \in Platforms
    /\ faults \in 0..MaxFaults /\ phase \in Phases
    /\ {lost, killdx, vsync, currentVsyncState, recreate, removed, fallback,
        isDX12, init, initImgui} \subseteq BOOLEAN

LEMMA GensFacts ==
    /\ MaxGen \in Nat /\ None \in Gens /\ 1 \in Gens
    /\ \A c \in Chains : c.dev \in Gens \ {None} /\ c.buf \in Gens /\ c.dev \in 1..MaxGen
    /\ NoChain.buf = None /\ NoChain.dev = None
BY BoundsAssumption DEF BoundsAssumption, Gens, None, Chains, NoChain

LEMMA InitTyped == Init => GensTyped /\ SwitchesTyped
<1> SUFFICES ASSUME Init PROVE GensTyped /\ SwitchesTyped
  OBVIOUS
<1>1. gen \in Gens /\ chain.buf <= gen
  BY GensFacts DEF Init, None
<1>2. GensTyped
  BY <1>1, GensFacts DEF Init, GensTyped
<1>3. recreate \in BOOLEAN
  BY DEF Init
<1>4. SwitchesTyped
  <2>1. platform \in Platforms /\ 0 \in 0..MaxFaults
    BY BoundsAssumption DEF Init, BoundsAssumption
  <2>2. faults \in 0..MaxFaults /\ phase \in Phases
    BY <2>1 DEF Init, Phases
  <2>3. {lost, killdx, vsync, recreate} \subseteq BOOLEAN
    BY <1>3 DEF Init
  <2>4. {currentVsyncState, removed, fallback, isDX12, init, initImgui} \subseteq BOOLEAN
    BY DEF Init
  <2> QED BY <2>1, <2>2, <2>3, <2>4 DEF SwitchesTyped
<1> QED BY <1>2, <1>4

LEMMA SwitchesStep == LeaseInv /\ SwitchesTyped /\ [Next]_vars => SwitchesTyped'
<1> SUFFICES ASSUME LeaseInv, SwitchesTyped, [Next]_vars PROVE SwitchesTyped'
  OBVIOUS
<1> USE DEF SettingUp, ResizeBuffers, Resized, CreateSwapChain, Created, CreateFailed,
        ExecuteCommandLists, PresentRefused, PresentRecreates, Draws, SetsUp, RemovesDevice,
        DX12InitFails, DX12Init, DX11InitFails, DX11Init, DrawsUnderUI, ToggleVsync,
        ToggleKilldx, ForceReload, Enters, Start, Disable, Cleanup, Unhook, vars
<1>1. faults' \in 0..MaxFaults
  <2>1. \/ faults' = faults
        \/ MayFail /\ faults' = faults + 1
    <3>1. ASSUME NEW api, Adopted(api), Detected(api)
          PROVE  faults' = faults \/ (MayFail /\ faults' = faults + 1)
      <4>1. chain.api # "Unknown"
        BY ChainFacts, <3>1 DEF LeaseInv, Adopted, Presenting, Apis
      <4> QED BY <3>1, <4>1 DEF Adopted, Detects, Detected
    <3>2. ASSUME NEW api, Draws(api) \/ PresentRecreates(api)
          PROVE  faults' = faults \/ (MayFail /\ faults' = faults + 1)
      BY <3>1, <3>2
    <3>3. CASE SettingUp
      <4>1. CASE \E api : DX11InitFails(api)
        BY <3>1, <4>1 DEF Fails
      <4>2. CASE RemovesDevice \/ DX12InitFails \/ DX12Init \/ DX11Init
        BY <4>2 DEF Fails
      <4> QED BY <3>3, <4>1, <4>2
    <3>4. CASE \/ ResizeBuffers \/ Resized \/ Created \/ CreateFailed
               \/ \E a \in Apis : CreateSwapChain(a)
      BY <3>4 DEF Fails
    <3>5. CASE \/ DrawsUnderUI \/ ToggleKilldx \/ ForceReload
               \/ ExecuteCommandLists \/ PresentRefused \/ ToggleVsync
               \/ Start \/ Disable \/ Cleanup \/ Unhook \/ UNCHANGED vars
      BY <3>5
    <3> QED BY Steps, <3>2, <3>3, <3>4, <3>5
  <2> QED BY <2>1, BoundsAssumption DEF MayFail, SwitchesTyped, BoundsAssumption
<1>2. phase' \in Phases
  BY Steps DEF SwitchesTyped, Phases
<1>3. {lost', killdx', vsync', currentVsyncState', recreate', removed', fallback'}
        \subseteq BOOLEAN
  BY Steps DEF SwitchesTyped, game, settings, control, Adopted, FellBack
<1>4. {isDX12', init', initImgui'} \subseteq BOOLEAN
  BY Steps DEF SwitchesTyped, state, control, DetectedDX12, FullReset, StartsImGui
<1>5. platform' = platform
  BY Steps DEF game
<1> QED BY <1>1, <1>2, <1>3, <1>4, <1>5 DEF SwitchesTyped

\* What the callbacks set the pointers and the devices to.
LEMMA GensStep == LeaseInv /\ LeaseInv' /\ GensTyped /\ [Next]_vars => GensTyped'
<1> SUFFICES ASSUME LeaseInv, LeaseInv', GensTyped, [Next]_vars PROVE GensTyped'
  OBVIOUS
<1>1. CASE Resized \/ Created \/ CreateFailed
  <2>1. gen \in Nat /\ gen + 1 \in Gens
    BY <1>1, GensFacts
    DEF LeaseInv, RoomLeft, Resized, Created, CreateFailed, Idle, Gens
  <2>2. gen' \in Gens /\ chain'.buf <= gen'
    <3>1. CASE Resized
      BY <2>1, <3>1 DEF Resized, GensTyped, LeaseInv, ResizesAChain, ChainTyped, Chains
    <3>2. CASE Created
      BY <2>1, <3>2 DEF Created, GensTyped
    <3>3. CASE CreateFailed
      BY <2>1, <3>3, GensFacts DEF CreateFailed, GensTyped, None
    <3> QED BY <1>1, <3>1, <3>2, <3>3
  <2>3. queue' \in Gens
    BY <1>1, <2>1 DEF Resized, Created, CreateFailed, GensTyped, devices
  <2>4. UNCHANGED <<swapchain, d3d12Device5, d3d11Device, images, imgui>>
    BY <1>1 DEF Resized, Created, CreateFailed, devices
  <2> QED BY <2>2, <2>3, <2>4 DEF GensTyped
<1>2. ASSUME NEW a \in Apis, CreateSwapChain(a) PROVE GensTyped'
  <2>1. gen + 1 \in Gens
    BY <1>2, GensFacts DEF CreateSwapChain, GensTyped, Gens
  <2> QED BY <1>2, <2>1, GensFacts DEF CreateSwapChain, GensTyped, FullReset, ReleaseBuffers
<1>3. CASE SettingUp
  <2>1. PICK api \in Apis \cup {"Unknown"} :
          /\ SetsUp(api)
          /\ RemovesDevice \/ DX12InitFails \/ DX12Init => api = "DX12" /\ ~fallback
          /\ DX11Init => api = "DX11"
          /\ \/ RemovesDevice \/ DX12InitFails \/ DX12Init \/ DX11Init
             \/ DX11InitFails(api)
    BY <1>3, SettingUpIsSetsUp
  <2>2. chain \in Chains
    BY <2>1 DEF SetsUp, Adopted, Presenting, LeaseInv, ChainTyped
  <2>3. Pointer(api) \in Gens /\ Pointer(api) \in 1..MaxGen /\ chain.dev \in Gens
    BY <2>2, GensFacts DEF Pointer, GensTyped, Gens, None
  <2>4. UNCHANGED <<chain, gen, queue>> /\ swapchain' = Pointer(api)
    BY <2>1 DEF SetsUp
  <2>5. /\ d3d12Device5' \in {d3d12Device5, None, Pointer(api)}
        /\ d3d11Device' \in {d3d11Device, None, Pointer(api)}
    BY <2>1 DEF RemovesDevice, DX12InitFails, DX12Init, DX11InitFails, DX11Init
  <2>6. images' \in {images, None, chain.dev}
    BY <2>1 DEF RemovesDevice, DX12InitFails, DX12Init, DX11InitFails, DX11Init, LoadsImages
  <2>7. \/ imgui' = imgui
        \/ \E a \in Apis : imgui' = [api |-> a, dev |-> Pointer(api)]
    BY <2>1 DEF RemovesDevice, DX12InitFails, DX12Init, DX11InitFails, DX11Init, StartsImGui, Apis
  <2>8. imgui' \in [api : Apis, dev : 1..MaxGen] \cup {NoBackend}
    BY <2>3, <2>7 DEF GensTyped
  <2> QED BY <2>3, <2>4, <2>5, <2>6, <2>8, GensFacts DEF GensTyped
<1>4. ASSUME NEW api, Draws(api) \/ PresentRecreates(api) PROVE GensTyped'
  <2>1. chain \in Chains
    BY <1>4 DEF Draws, PresentRecreates, Adopted, Presenting, LeaseInv, ChainTyped
  <2>2. chain.dev \in Gens
    BY <2>1, GensFacts
  <2>3. swapchain' \in {swapchain, chain.dev} /\ images' \in {images, None, chain.dev}
    BY <1>4 DEF Draws, PresentRecreates, Pointer, LoadsImages
  <2>4. d3d11Device' \in {d3d11Device, None} /\ UNCHANGED <<chain, gen, queue, d3d12Device5, imgui>>
    BY <1>4 DEF Draws, PresentRecreates, ReleaseBuffers, game
  <2> QED BY <2>2, <2>3, <2>4, GensFacts DEF GensTyped
<1>5. CASE ExecuteCommandLists
  <2>1. chain.dev \in Gens
    BY <1>5, GensFacts DEF ExecuteCommandLists, LeaseInv, ChainTyped
  <2> QED BY <1>5, <2>1 DEF ExecuteCommandLists, GensTyped, game
<1>6. CASE ResizeBuffers \/ Cleanup
  BY <1>6, GensFacts DEF ResizeBuffers, Cleanup, Enters, ReleaseBuffers, GensTyped, game
<1>7. CASE \/ PresentRefused \/ DrawsUnderUI \/ ToggleVsync \/ ToggleKilldx \/ ForceReload
           \/ Start \/ Disable \/ Unhook \/ UNCHANGED vars
  BY <1>7
  DEF PresentRefused, DrawsUnderUI, ToggleVsync, ToggleKilldx, ForceReload, Start, Disable, Unhook,
      Enters, vars, game, devices, GensTyped
<1> QED BY <1>1, <1>2, <1>3, <1>4, <1>5, <1>6, <1>7, Steps

LEMMA TypedAlways == Spec => [](GensTyped /\ SwitchesTyped)
BY InitTyped, GensStep, SwitchesStep, LeaseAlways, PTL DEF Spec

\* The type invariant, for any number of swap chains, resizes and failures: every object
\* is of a generation within the bound, a re-creation that a client asks for included, and
\* the buffers of the swap chain are of one there has been.
THEOREM SwapchainTypeCorrect == Spec => []TypeOK
<1>1. LeaseInv /\ GensTyped /\ SwitchesTyped => TypeOK
  <2> SUFFICES ASSUME LeaseInv, GensTyped, SwitchesTyped PROVE TypeOK
    OBVIOUS
  <2>1. platform \in Platforms
    BY DEF SwitchesTyped
  <2>2. chain.buf \in Gens
    BY GensFacts DEF LeaseInv, ChainTyped
  <2>3. refs \in [Holders -> Gens]
    BY <2>2, GensFacts DEF LeaseInv, ChainTyped, RefsCurrent
  <2> QED BY <2>1, <2>3 DEF LeaseInv, ChainTyped, GensTyped, SwitchesTyped, Phases, TypeOK
<1> QED BY <1>1, LeaseAlways, TypedAlways, PTL

-----------------------------------------------------------------------------
(* Tearing                                                                 *)

\* The setting is looked at when a swap chain is created, so while one is being created
\* it may not be that of the old one; and once the hooks are gone nobody looks.
TearingInv ==
    Hooked /\ chain # NoChain /\ call.kind # "create" /\ currentVsyncState => chain.tearing

LEMMA ResizedKeeps ==
    ASSUME LeaseInv, Resized
    PROVE  /\ chain # NoChain /\ call.kind # "create"
           /\ chain'.api = chain.api /\ chain'.tearing = chain.tearing
<1>1. chain \in Chains /\ chain # NoChain /\ call.kind # "create"
  BY DEF Resized, LeaseInv, ResizesAChain, ChainTyped
<1>2. \A b : [chain EXCEPT !.buf = b].api = chain.api
             /\ [chain EXCEPT !.buf = b].tearing = chain.tearing
  BY <1>1 DEF Chains
<1>3. chain' = chain \/ \E b : chain' = [chain EXCEPT !.buf = b]
  BY DEF Resized
<1> QED BY <1>1, <1>2, <1>3

LEMMA TearingStep == LeaseInv /\ TearingInv /\ [Next]_vars => TearingInv'
<1> SUFFICES ASSUME LeaseInv, TearingInv, [Next]_vars PROVE TearingInv'
  OBVIOUS
<1>1. CASE Resized
  <2>1. UNCHANGED <<phase, currentVsyncState>>
    BY <1>1 DEF Resized
  <2> QED BY <1>1, <2>1, ResizedKeeps DEF TearingInv, Hooked
<1>2. CASE Created
  <2>1. chain' = [api |-> call.api, dev |-> gen + 1, buf |-> gen + 1,
                  tearing |-> Hooked /\ currentVsyncState]
    BY <1>2 DEF Created
  <2>2. chain'.tearing = (Hooked /\ currentVsyncState)
    BY <2>1
  <2>3. UNCHANGED <<phase, currentVsyncState>>
    BY <1>2 DEF Created
  <2> QED BY <2>2, <2>3 DEF TearingInv, Hooked
<1>3. CASE CreateFailed
  BY <1>3 DEF CreateFailed, TearingInv
<1>4. ASSUME NEW a \in Apis, CreateSwapChain(a) PROVE TearingInv'
  <2>1. call' = [kind |-> "create", api |-> a]
    BY <1>4 DEF CreateSwapChain
  <2>2. call'.kind = "create"
    BY <2>1
  <2> QED BY <2>2 DEF TearingInv
<1>5. CASE ResizeBuffers \/ \E api : PresentRecreates(api)
  <2>1. call = Idle /\ UNCHANGED <<phase, chain, currentVsyncState>>
    BY <1>5 DEF ResizeBuffers, PresentRecreates, Adopted, Presenting
  <2>2. call.kind # "create"
    BY <2>1 DEF Idle
  <2> QED BY <2>1, <2>2 DEF TearingInv, Hooked
<1>6. CASE Start \/ Disable \/ Cleanup \/ Unhook
  BY <1>6 DEF Start, Disable, Cleanup, Unhook, Enters, TearingInv, Hooked, game
<1>7. CASE UNCHANGED <<phase, chain, call, currentVsyncState>>
  BY <1>7 DEF TearingInv, Hooked
<1> QED
  BY <1>1, <1>2, <1>3, <1>4, <1>5, <1>6, <1>7, Steps
  DEF SettingUp, ExecuteCommandLists, PresentRefused, Draws, SetsUp, RemovesDevice,
      DX12InitFails, DX12Init, DX11InitFails, DX11Init, DrawsUnderUI, ToggleVsync, ToggleKilldx,
      ForceReload, vars, game

\* Present asks for tearing only on a swap chain that was created for it, whenever the
\* setting is toggled and whichever creations fail.
THEOREM TearingAlwaysAllowed == Spec => []TearingAllowed
<1>1. Init => TearingInv
  BY DEF Init, TearingInv
<1>2. TearingInv => TearingAllowed
  BY DEF TearingInv, TearingAllowed, Hooked, Idle
<1> QED BY <1>1, <1>2, TearingStep, LeaseAlways, PTL DEF Spec

==============================================================================
