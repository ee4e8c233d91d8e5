------------------------------- MODULE TaskPool -------------------------------
(***************************************************************************)
(* What the tab list relies on when it hands its player heads to threads:  *)
(* a task waits, is worked on by one of Size workers, is ready, and is     *)
(* collected; each step moves one task one place on.  Either queue can be  *)
(* emptied, which drops the tasks in it, but only while nobody is working  *)
(* on one.  HeadLoader is shown to implement this.                         *)
(***************************************************************************)
EXTENDS Naturals

CONSTANT Size \* the number of workers

VARIABLES
    waiting, \* tasks submitted and not yet begun
    working, \* tasks being worked on
    ready    \* results not yet collected

vars == <<waiting, working, ready>>

Init == waiting = 0 /\ working = 0 /\ ready = 0

Submit == waiting' = waiting + 1 /\ UNCHANGED <<working, ready>>

Begin ==
    /\ waiting > 0 /\ working < Size
    /\ waiting' = waiting - 1 /\ working' = working + 1 /\ UNCHANGED ready

Finish ==
    /\ working > 0
    /\ working' = working - 1 /\ ready' = ready + 1 /\ UNCHANGED waiting

Collect == ready > 0 /\ ready' = ready - 1 /\ UNCHANGED <<waiting, working>>

DropWaiting == working = 0 /\ waiting' = 0 /\ UNCHANGED <<working, ready>>

DropReady == working = 0 /\ ready' = 0 /\ UNCHANGED <<waiting, working>>

Next == Submit \/ Begin \/ Finish \/ Collect \/ DropWaiting \/ DropReady

Spec == Init /\ [][Next]_vars
===============================================================================
