------------------------------ MODULE Swapchain ------------------------------
(***************************************************************************)
(* The hooks on the game's swap chain (src/src/Client/Hook/Hooks/Render/   *)
(* DirectX): Present sets the client's Direct2D, Direct3D and ImGui        *)
(* resources up and draws, ResizeBuffers and CreateSwapChain take them     *)
(* down before the buffers change, and "Better Frames" (killdx) removes    *)
(* the DX12 device so that the game comes back with DX11.                  *)
(*                                                                         *)
(* All these callbacks run on the game's render thread, one after another. *)
(* A hooked resize or creation is two steps, the client's part and the     *)
(* original DXGI call; every other callback is one step.                   *)
(*                                                                         *)
(* A number stands for every object of one generation: a swap chain and    *)
(* its device are numbered by the step that created them, back buffers by  *)
(* the step that created or resized them.  0 is a null pointer.            *)
(***************************************************************************)
EXTENDS Naturals

CONSTANTS
    Platforms, \* of {"CoreWindow", "Hwnd"}: UWP and GDK builds of the game
    MaxGen,    \* bound: swap chains created and resizes, together
    MaxFaults  \* bound: DirectX calls that fail

ASSUME PlatformsAssumption == Platforms \subseteq {"CoreWindow", "Hwnd"}
ASSUME BoundsAssumption == MaxGen \in Nat \ {0, 1} /\ MaxFaults \in Nat

VARIABLES
    platform,  \* which of the two creation functions the game calls
    chain,     \* the game's swap chain, or NoChain
    gen,       \* generations so far
    lost,      \* the game was told that its device is lost
    call,      \* the DXGI call in progress
    faults,    \* calls that have failed
    phase,     \* the client: Client::init, Client::disable, the hooks
    killdx, vsync,      \* the two settings
    currentVsyncState,  \* the setting as it was when the swap chain was created
    recreate,  \* the next Present makes the game create its swap chain again
    removed,   \* dx12DeviceRemoved
    fallback,  \* dx11FallbackComplete
    isDX12, init, initImgui,
    swapchain,    \* the client's pointer to the swap chain
    queue,        \* the command queue the client draws with on DX12
    d3d12Device5,
    d3d11Device,  \* and its context; on DX12 the D3D11On12 device
    refs,         \* what each holder of back buffers refers to
    imgui,        \* ImGui's renderer backend, or NoBackend
    images        \* the images loaded (hasLoadedAll)

game == <<platform, chain, gen, lost, call>>
settings == <<killdx, vsync>>
control == <<recreate, removed, fallback, isDX12>>
state == <<init, initImgui>>
devices == <<swapchain, queue, d3d12Device5, d3d11Device>>
vars == <<game, faults, phase, settings, currentVsyncState, control, state,
          devices, refs, imgui, images>>

-----------------------------------------------------------------------------
None == 0
NoChain == [api |-> "none", dev |-> None, buf |-> None, tearing |-> FALSE]
NoBackend == [api |-> "none", dev |-> None]
Idle == [kind |-> "idle", api |-> "none"]

Apis == {"DX11", "DX12"}
Gens == 0..MaxGen
Chains == [api : Apis, dev : 1..MaxGen, buf : 1..MaxGen, tearing : BOOLEAN]

\* The client's references to back buffers: those taken when it sets up for an
\* API (backBuffer and the Direct2D target made from it; the frame contexts and
\* the wrapped D3D11Resources with their surfaces and bitmaps), and the two
\* that drawing adds.
Holders == {"backBuffer", "D2D1Bitmap", "frameContexts", "D3D11Resources",
            "SavedD3D11BackBuffer", "cachedRTV"}
SetUpHolders(api) == IF api = "DX12" THEN {"frameContexts", "D3D11Resources"}
                                     ELSE {"backBuffer", "D2D1Bitmap"}
NoRefs == [h \in Holders |-> None]

TypeOK ==
    /\ platform \in Platforms
    /\ chain \in Chains \cup {NoChain} /\ chain.buf <= gen
    /\ gen \in Gens /\ faults \in 0..MaxFaults
    /\ call \in [kind : {"resize", "create"}, api : Apis] \cup {Idle}
    /\ phase \in {"starting", "running", "disabled", "cleaned", "gone"}
    /\ {lost, killdx, vsync, currentVsyncState, recreate, removed, fallback,
        isDX12, init, initImgui} \subseteq BOOLEAN
    /\ {swapchain, queue, d3d12Device5, d3d11Device, images} \subseteq Gens
    /\ refs \in [Holders -> Gens]
    /\ imgui \in [api : Apis, dev : 1..MaxGen] \cup {NoBackend}

-----------------------------------------------------------------------------
(* Initial states: the client is injected before or after the game has     *)
(* created its swap chain, and SwapchainHook::enableHook has run.          *)

Init ==
    /\ platform \in Platforms
    /\ \/ chain = NoChain /\ gen = 0 /\ lost = TRUE
       \/ \E a \in Apis : /\ chain = [api |-> a, dev |-> 1, buf |-> 1, tearing |-> FALSE]
                          /\ gen = 1 /\ lost = FALSE
    /\ call = Idle /\ faults = 0 /\ phase = "starting"
    /\ killdx \in BOOLEAN /\ vsync \in BOOLEAN
    /\ currentVsyncState = FALSE
    /\ recreate \in (IF killdx THEN {TRUE} ELSE
                     IF platform = "Hwnd" THEN {FALSE} ELSE BOOLEAN)
    /\ removed = FALSE /\ fallback = FALSE
    /\ isDX12 = FALSE /\ init = FALSE /\ initImgui = FALSE
    /\ swapchain = None /\ queue = None
    /\ d3d12Device5 = None /\ d3d11Device = None
    /\ refs = NoRefs /\ imgui = NoBackend /\ images = None

Hooked == phase # "gone"
MayFail == faults < MaxFaults
Fails == MayFail /\ faults' = faults + 1

-----------------------------------------------------------------------------
(* ResizeHook::cleanupResources                                            *)

\* Mutant of ReleaseBuffers: the cached render target view is forgotten.
ReleaseBuffersButView ==
    /\ refs' = [NoRefs EXCEPT !["cachedRTV"] = refs["cachedRTV"]]
    /\ d3d11Device' = None

\* fullReset = false: everything made from the back buffers, and the device
\* that drew into them; the DX12 device, ImGui and the images stay.
ReleaseBuffers == refs' = NoRefs /\ d3d11Device' = None

\* Mutant of FullReset: the images loaded with the old device are kept.
FullResetKeepsImages ==
    /\ ReleaseBuffers
    /\ UNCHANGED images /\ imgui' = NoBackend
    /\ initImgui' = (initImgui /\ imgui = NoBackend)
    /\ d3d12Device5' = None

\* fullReset = true: also the images, ImGui and the DX12 objects.  (Which shutdown is
\* called for ImGui's backend depends on isDX12; here the one of the backend is.)
FullReset ==
    /\ ReleaseBuffers
    /\ images' = None /\ imgui' = NoBackend
    /\ initImgui' = (initImgui /\ imgui = NoBackend)
    /\ d3d12Device5' = None

-----------------------------------------------------------------------------
(* The game resizes its swap chain or creates another one                  *)

\* resizeCallback and resizeCallback121120, before the original call.  (The last
\* generation is kept for the re-creation that the client may ask for.)
ResizeBuffers ==
    /\ call = Idle /\ chain # NoChain /\ gen < MaxGen - 1
    /\ call' = [kind |-> "resize", api |-> chain.api]
    /\ IF Hooked
         THEN init' = FALSE /\ ReleaseBuffers
         ELSE UNCHANGED <<init, refs, d3d11Device>>
    /\ UNCHANGED <<platform, chain, gen, lost, faults, phase, settings,
                   currentVsyncState, control, initImgui, swapchain, queue,
                   d3d12Device5, imgui, images>>

\* The original ResizeBuffers: new buffers, unless it fails.
Resized ==
    /\ call.kind = "resize"
    /\ call' = Idle
    /\ \/ /\ gen' = gen + 1 /\ chain' = [chain EXCEPT !.buf = gen + 1]
          /\ UNCHANGED faults
       \/ Fails /\ UNCHANGED <<gen, chain>>
    /\ UNCHANGED <<platform, lost, phase, settings, currentVsyncState, control,
                   state, devices, refs, imgui, images>>

\* The creations that are modelled: any with CreateSwapChainForCoreWindow; with
\* CreateSwapChainForHwnd, whose hook takes nothing down, those that find the
\* client without resources: the first one, and the change of the API that
\* killdx asks for.
MayCreate ==
    platform = "Hwnd" =>
        chain = NoChain \/ (lost /\ ~fallback /\ (swapchain = None \/ removed))

\* CreateSwapChainForCoreWindowCallback and hkCreateSwapChainForHwnd up to the
\* original call; the queue of the new device is numbered with its swap chain.
CreateSwapChain(api) ==
    /\ call = Idle /\ gen < (IF recreate THEN MaxGen - 1 ELSE MaxGen) /\ MayCreate
    /\ call' = [kind |-> "create", api |-> api]
    /\ IF Hooked /\ platform = "CoreWindow"
         THEN /\ init' = FALSE /\ swapchain' = None /\ recreate' = FALSE
              /\ FullReset
              /\ queue' = IF api = "DX12" THEN gen + 1 ELSE None
         ELSE UNCHANGED <<init, initImgui, swapchain, recreate, queue, refs,
                          d3d11Device, d3d12Device5, imgui, images>>
    /\ currentVsyncState' = IF Hooked THEN vsync ELSE currentVsyncState
    /\ UNCHANGED <<platform, chain, gen, lost, faults, phase, settings,
                   removed, fallback, isDX12>>

\* The original call has made the swap chain.
Created ==
    /\ call.kind = "create"
    /\ gen' = gen + 1
    /\ chain' = [api |-> call.api, dev |-> gen + 1, buf |-> gen + 1,
                 tearing |-> Hooked /\ currentVsyncState]
    /\ queue' = IF /\ Hooked /\ platform = "Hwnd"
                   /\ call.api = "DX12" /\ queue = None THEN gen + 1 ELSE queue
    /\ call' = Idle /\ lost' = FALSE
    /\ UNCHANGED <<platform, faults, phase, settings, currentVsyncState, control,
                   state, swapchain, d3d12Device5, d3d11Device, refs, imgui, images>>

\* It has failed: the CoreWindow hook switches both settings off.
CreateFailed ==
    /\ call.kind = "create" /\ Fails
    /\ chain' = NoChain /\ lost' = TRUE /\ call' = Idle
    /\ IF Hooked /\ platform = "CoreWindow"
         THEN killdx' = FALSE /\ vsync' = FALSE
         ELSE UNCHANGED settings
    /\ UNCHANGED <<platform, gen, phase, currentVsyncState, control, state,
                   devices, refs, imgui, images>>

\* Mutant of ExecuteCommandLists: the queue is captured only once drawing is set up.
ExecuteCommandListsLate ==
    /\ Hooked /\ call = Idle /\ chain.api = "DX12" /\ queue = None /\ init
    /\ queue' = chain.dev
    /\ UNCHANGED <<game, faults, phase, settings, currentVsyncState, control, state,
                   swapchain, d3d12Device5, d3d11Device, refs, imgui, images>>

\* CommandListHook::listCallback
ExecuteCommandLists ==
    /\ Hooked /\ call = Idle /\ chain.api = "DX12" /\ queue = None
    /\ queue' = chain.dev
    /\ UNCHANGED <<game, faults, phase, settings, currentVsyncState, control, state,
                   swapchain, d3d12Device5, d3d11Device, refs, imgui, images>>

-----------------------------------------------------------------------------
(* swapchainCallback: the hook on Present                                  *)

Presenting == phase = "running" /\ call = Idle /\ chain # NoChain

\* DetectSwapchainAPI: the API of the swap chain, or Unknown when GetDevice or the
\* query for the device fails.  (On DX11 that makes no difference.)
Detects(api) ==
    \/ api = chain.api
    \/ api = "Unknown" /\ chain.api = "DX12" /\ MayFail
Detected(api) == faults' = IF api = "Unknown" THEN faults + 1 ELSE faults

\* The device was removed and the game still presents with DX12.
StillDX12(api) == removed /\ ~fallback /\ api = "DX12"

\* The game has come back with DX11, or so it seems.
FellBack(api) == removed /\ ~fallback /\ api # "DX12"

\* Present answers DXGI_ERROR_DEVICE_REMOVED, nothing is drawn.
PresentRefused ==
    /\ Presenting /\ StillDX12(chain.api)
    /\ lost' = TRUE
    /\ UNCHANGED <<platform, chain, gen, call, faults, phase, settings, control,
                   currentVsyncState, state, devices, refs, imgui, images>>

\* What every other Present does first: finish the fallback or, unless it is
\* finished, take the API that was detected.
Adopted(api) ==
    /\ Presenting /\ Detects(api) /\ ~StillDX12(api)
    /\ fallback' = (fallback \/ FellBack(api))
DetectedDX12(api) == ~fallback /\ api = "DX12"
Ready(api) == init /\ ~FellBack(api)

\* Mutant of Pointer: the null pointer is not replaced.
PointerUnchecked(api) == IF FellBack(api) THEN chain.dev ELSE swapchain

\* if (!swapchain) swapchain = pSwapChain; the fallback takes the new one anyway.
Pointer(api) == IF FellBack(api) \/ swapchain = None THEN chain.dev ELSE swapchain

\* The re-creation that was asked for: a ResizeBuffers of the hook's own, which runs
\* resizeCallback, and DXGI_ERROR_DEVICE_RESET for the game.
PresentRecreates(api) ==
    /\ Adopted(api) /\ recreate
    /\ Detected(api) /\ isDX12' = DetectedDX12(api)
    /\ init' = FALSE /\ initImgui' = FALSE /\ recreate' = FALSE
    /\ swapchain' = IF FellBack(api) THEN chain.dev ELSE swapchain
    /\ ReleaseBuffers
    /\ call' = [kind |-> "resize", api |-> chain.api]
    /\ lost' = TRUE
    /\ UNCHANGED <<platform, chain, gen, phase, settings, currentVsyncState,
                   removed, queue, d3d12Device5, imgui, images>>

\* LoadAllImages; an exception leaves them for the next frame.
LoadsImages == images' \in IF init' /\ initImgui' /\ images = None
                             THEN {None, chain.dev} ELSE {images}

\* DX12Render and DX11Render.  The latter finds no DX11 back buffer in a DX12 swap
\* chain that was taken for another, and returns.
Draws(api) ==
    /\ Adopted(api) /\ ~recreate /\ Ready(api)
    /\ Detected(api) /\ isDX12' = DetectedDX12(api)
    /\ swapchain' = Pointer(api)
    /\ LET drawn == IF DetectedDX12(api) THEN refs["D3D11Resources"]
                    ELSE IF api = "Unknown" THEN None ELSE chain.buf
       IN refs' = IF d3d11Device = None \/ (DetectedDX12(api) /\ queue = None) THEN refs
                  ELSE [refs EXCEPT !["SavedD3D11BackBuffer"] = drawn,
                                    !["cachedRTV"] = IF @ = None THEN drawn ELSE @]
    /\ UNCHANGED <<game, phase, settings, currentVsyncState, recreate, removed,
                   state, queue, d3d12Device5, d3d11Device, imgui>>
    /\ LoadsImages

SetsUp(api) ==
    /\ Adopted(api) /\ ~recreate /\ ~Ready(api)
    /\ swapchain' = Pointer(api)
    /\ UNCHANGED <<platform, chain, gen, call, phase, settings, currentVsyncState,
                   recreate, queue>>

\* ImGui's backend is started unless there is one.
StartsImGui(api) ==
    /\ initImgui' = TRUE
    /\ imgui' = IF initImgui \/ imgui # NoBackend THEN imgui
                ELSE [api |-> api, dev |-> Pointer(api)]

\* The references that setting up takes.
TakesBuffers(holders) ==
    refs' = [h \in Holders |-> IF h \in holders THEN chain.buf ELSE refs[h]]

\* DX12Init: "Better Frames" removes the device and waits for DX11.  The Present
\* at the end of the callback tells the game.
RemovesDevice ==
    /\ SetsUp("DX12") /\ DetectedDX12("DX12") /\ killdx /\ ~removed
    /\ removed' = TRUE /\ isDX12' = FALSE /\ d3d12Device5' = None
    /\ init' = FALSE /\ lost' = TRUE
    /\ UNCHANGED <<faults, initImgui, d3d11Device, refs, imgui, images>>

\* DX12Init gives up: no device; no queue yet; no fence event or no D3D11On12
\* device; no Direct2D factory; or no backend for ImGui, which is the only one
\* that comes after the buffers have been taken.
DX12InitFails ==
    /\ SetsUp("DX12") /\ DetectedDX12("DX12") /\ isDX12' = TRUE
    /\ \/ Fails /\ d3d12Device5' = None /\ UNCHANGED <<d3d11Device, refs>>
       \/ /\ ~killdx \/ removed
          /\ d3d12Device5' = Pointer("DX12")
          /\ \/ queue = None /\ UNCHANGED <<faults, d3d11Device, refs>>
             \/ Fails /\ d3d11Device' \in {d3d11Device, None} /\ UNCHANGED refs
             \/ Fails /\ queue # None /\ d3d11Device' = Pointer("DX12") /\ UNCHANGED refs
             \/ /\ Fails /\ queue # None /\ d3d11Device' = Pointer("DX12")
                /\ ~initImgui /\ imgui = NoBackend
                /\ TakesBuffers(SetUpHolders("DX12"))
    /\ init' = FALSE
    /\ UNCHANGED <<lost, removed, initImgui, imgui, images>>

DX12Init ==
    /\ SetsUp("DX12") /\ DetectedDX12("DX12") /\ isDX12' = TRUE
    /\ ~killdx \/ removed
    /\ queue # None
    /\ d3d12Device5' = Pointer("DX12") /\ d3d11Device' = Pointer("DX12")
    /\ TakesBuffers(SetUpHolders("DX12"))
    /\ StartsImGui("DX12")
    /\ init' = TRUE
    /\ LoadsImages
    /\ UNCHANGED <<lost, faults, removed>>

\* DX11Init gives up: the swap chain has no DX11 device; or no back buffer or no
\* Direct2D context, after which it has dropped backBuffer again.
DX11InitFails(api) ==
    /\ SetsUp(api) /\ ~DetectedDX12(api) /\ isDX12' = FALSE
    /\ \/ chain.api = "DX12" /\ Detected(api) /\ d3d11Device' = None
       \/ Fails /\ chain.api = "DX11" /\ d3d11Device' \in {None, Pointer(api)}
    /\ init' = FALSE
    /\ UNCHANGED <<lost, removed, initImgui, d3d12Device5, refs, imgui, images>>

DX11Init ==
    /\ SetsUp("DX11") /\ isDX12' = FALSE
    /\ d3d11Device' = Pointer("DX11")
    /\ TakesBuffers(SetUpHolders("DX11") \cup {"SavedD3D11BackBuffer"})
    /\ StartsImGui("DX11")
    /\ init' = TRUE
    /\ LoadsImages
    /\ UNCHANGED <<lost, faults, removed, d3d12Device5>>

Present ==
    \/ PresentRefused \/ RemovesDevice \/ DX12InitFails \/ DX12Init \/ DX11Init
    \/ \E api \in Apis \cup {"Unknown"} :
          PresentRecreates(api) \/ Draws(api) \/ DX11InitFails(api)

\* ClearDepthStencilViewCallbackDX11, in the middle of a frame of the game: it
\* asks for init, and _DX11RenderUnderUI for the context, but not for disable.
DrawsUnderUI ==
    /\ Hooked /\ call = Idle /\ chain.api = "DX11"
    /\ init /\ ~isDX12 /\ d3d11Device # None
    /\ refs' = [refs EXCEPT !["SavedD3D11BackBuffer"] = chain.buf]
    /\ UNCHANGED <<game, faults, phase, settings, currentVsyncState, control, state,
                   devices, imgui, images>>

-----------------------------------------------------------------------------
(* The user, and the client's start and end                                *)

\* Mutant of ToggleVsync: the setting takes effect at once.
ToggleVsyncAtOnce ==
    /\ vsync' = ~vsync /\ currentVsyncState' = ~vsync
    /\ UNCHANGED <<game, faults, phase, killdx, control, state, devices, refs, imgui, images>>

ToggleVsync ==
    /\ vsync' = ~vsync
    /\ UNCHANGED <<game, faults, phase, killdx, currentVsyncState, control, state,
                   devices, refs, imgui, images>>

\* The client's GUI is part of what Present draws.
Drawing == phase = "running" /\ init
Clicks == Drawing /\ call = Idle /\ chain # NoChain

\* "Better Frames" is switched on or off.  Left out: switched on over a DX12 swap
\* chain on GDK, where the creation that it leads to takes nothing down.
ToggleKilldx ==
    /\ Clicks /\ (platform = "Hwnd" => chain.api = "DX11")
    /\ killdx' = ~killdx
    /\ UNCHANGED <<game, faults, phase, vsync, currentVsyncState, control, state,
                   devices, refs, imgui, images>>

\* "Force Reload Minecraft", a button of UWP builds.
ForceReload ==
    /\ Clicks /\ platform = "CoreWindow" /\ gen < MaxGen
    /\ recreate' = TRUE
    /\ UNCHANGED <<game, faults, phase, settings, currentVsyncState, removed, fallback,
                   isDX12, state, devices, refs, imgui, images>>

Enters(from, to) ==
    /\ phase \in from /\ call = Idle /\ phase' = to
    /\ UNCHANGED <<game, faults, settings, currentVsyncState, control, state,
                   swapchain, queue, d3d12Device5, imgui, images>>

Start == Enters({"starting"}, "running") /\ UNCHANGED <<refs, d3d11Device>>
Disable == Enters({"starting", "running"}, "disabled") /\ UNCHANGED <<refs, d3d11Device>>
\* The init thread, on its way out: cleanupResources(), then MH_DisableHook.
Cleanup == Enters({"disabled"}, "cleaned") /\ ReleaseBuffers
Unhook == Enters({"cleaned"}, "gone") /\ UNCHANGED <<refs, d3d11Device>>

Next ==
    \/ ResizeBuffers \/ Resized \/ \E a \in Apis : CreateSwapChain(a)
    \/ Created \/ CreateFailed \/ ExecuteCommandLists
    \/ Present \/ DrawsUnderUI
    \/ ToggleVsync \/ ToggleKilldx \/ ForceReload \/ Start \/ Disable \/ Cleanup \/ Unhook

\* The game keeps rendering, ends the calls it has begun, and creates a swap
\* chain when it has none or has been told that its device is lost; the init
\* thread goes on.  Nothing makes it choose an API, resize, or unload.
Fairness ==
    /\ WF_vars(Resized) /\ WF_vars(Created)
    /\ WF_vars(lost /\ \E a \in Apis : CreateSwapChain(a))
    /\ WF_vars(ExecuteCommandLists) /\ WF_vars(Present) /\ WF_vars(Start)

Spec == Init /\ [][Next]_vars /\ Fairness

-----------------------------------------------------------------------------
(* Properties                                                              *)

\* When Present is going to draw, everything it draws with belongs to the swap
\* chain the game has now: the pointer, the devices and the queue, every back
\* buffer referred to, ImGui's backend and the images, whatever was resized,
\* created again or lost before.
ReadyToDraw ==
    Drawing =>
        /\ call = Idle /\ chain # NoChain
        /\ swapchain = chain.dev /\ d3d11Device = chain.dev
        /\ initImgui /\ imgui = [api |-> chain.api, dev |-> chain.dev]
        /\ \A h \in SetUpHolders(chain.api) : refs[h] = chain.buf
        /\ \A h \in Holders : refs[h] \in {None, chain.buf}
        /\ chain.api = "DX12" => {queue, d3d12Device5} = {chain.dev}
        /\ images \in {None, chain.dev}

\* The swap chain's buffers change only when the client holds none of them, and
\* no reference to old buffers is ever held: the hooks implement the lease.
Lease == INSTANCE BackBufferLease WITH
            Generations <- 1..MaxGen, buffers <- chain.buf,
            lease <- {refs[h] : h \in Holders} \ {None}
LeaseKept == Lease!Spec

\* Present asks for tearing only on a swap chain that was created for it: the
\* setting may be toggled in between, or be reset by a creation that fails.
TearingAllowed ==
    phase = "running" /\ call = Idle /\ chain # NoChain /\ currentVsyncState => chain.tearing

\* After a resize, a lost device, a failed call or the fallback the client draws
\* again, unless it is disabled, or the game comes back with DX12 from the
\* removal of its device: swapchainCallback then refuses every frame or, if a failed
\* detection has ended the fallback, looks for DX11.
FallbackRefused == removed /\ chain.api = "DX12"
DrawsAgain == phase = "running" ~> (Drawing \/ phase # "running" \/ FallbackRefused)
==============================================================================
