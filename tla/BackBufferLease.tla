--------------------------- MODULE BackBufferLease ---------------------------
(***************************************************************************)
(* What the render hooks owe the game about the back buffers of its swap   *)
(* chain.  DXGI can resize or replace a swap chain only when nobody holds  *)
(* a reference to its buffers, so whoever draws into them borrows the      *)
(* buffers there are now, may borrow more of the same, and has given all   *)
(* of them back before they change.  Swapchain is shown to implement this. *)
(***************************************************************************)
EXTENDS Naturals

CONSTANT Generations \* the sets of buffers the game may have, not None among them

VARIABLES
    buffers, \* the buffers the game's swap chain has now, None if it has none
    lease    \* the buffers that are on loan

None == 0

vars == <<buffers, lease>>

LeaseOK == lease \subseteq {buffers} \ {None}

Init == buffers \in Generations \cup {None} /\ lease = {}

\* Borrow, or give back.
Borrow == buffers # None /\ lease' = {buffers} /\ UNCHANGED buffers
Return == lease' = {} /\ UNCHANGED buffers

\* ResizeBuffers, a new swap chain, or the loss of the old one.
Change == lease = {} /\ buffers' \in Generations \cup {None} /\ UNCHANGED lease

Next == Borrow \/ Return \/ Change

Spec == Init /\ [][Next]_vars
==============================================================================
