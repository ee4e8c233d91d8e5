------------------------------ MODULE HeadLoader ------------------------------
(***************************************************************************)
(* The loader threads of the tab list's player heads                       *)
(* (src/src/Client/Module/Modules/TabList/TabList.cpp): how a worker waits *)
(* on g_loadQueueCV, how a request wakes one, and how StopAsyncLoading     *)
(* stops and joins them all.  PlayerHeads takes the stop as one step; this *)
(* module takes it apart.                                                  *)
(*                                                                         *)
(* condition_variable::wait(lock, pred) is its loop: test the predicate    *)
(* with the mutex held, release the mutex and block in one step, and take  *)
(* the mutex again after a notification or spuriously.                     *)
(*                                                                         *)
(* A stop runs on the init thread (onDisable) or on the render thread (a   *)
(* resize).  Nothing keeps a frame that is drawing the list out of it, so  *)
(* heads are requested and collected before, during and after a stop.      *)
(***************************************************************************)
EXTENDS Naturals, FiniteSets

CONSTANTS
    Workers,     \* the loader threads (NUM_LOADER_THREADS = 3)
    MaxRequests, \* bound: tasks queued between two starts
    NoWorker     \* the mutex is free

ASSUME WorkersAssumption == IsFiniteSet(Workers) /\ NoWorker \notin Workers
ASSUME RequestsAssumption == MaxRequests \in Nat

VARIABLES
    mutex,      \* the worker that holds g_loadQueueMutex
    stop,       \* g_shouldStopLoading
    queued,     \* the size of g_loadQueue
    ready,      \* the size of g_readyQueue
    requests,   \* tasks queued since the threads were last started
    pc,         \* where each worker is
    pcStop      \* where StopAsyncLoading is

vars == <<mutex, stop, queued, ready, requests, pc, pcStop>>

\* The queues hold at most what was requested since the last start but one: what is
\* requested after a stop has emptied them is left for the threads of the next start.
TypeOK ==
    /\ mutex \in Workers \cup {NoWorker}
    /\ stop \in BOOLEAN
    /\ requests \in 0..MaxRequests
    /\ queued \in 0..(MaxRequests + requests) /\ ready \in 0..(MaxRequests + requests)
    /\ pc \in [Workers -> {"loop", "lock", "test", "block", "waiting", "take", "busy", "ended"}]
    /\ pcStop \in {"running", "notify", "join", "dropQueued", "dropReady", "stopped"}

-----------------------------------------------------------------------------
(* PlayerHeadLoaderWorker                                                  *)

\* while (!g_shouldStopLoading)
Loop(w) ==
    /\ pc[w] = "loop"
    /\ pc' = [pc EXCEPT ![w] = IF stop THEN "ended" ELSE "lock"]
    /\ UNCHANGED <<mutex, stop, queued, ready, requests, pcStop>>

Lock(w) ==
    /\ pc[w] = "lock" /\ mutex = NoWorker
    /\ mutex' = w
    /\ pc' = [pc EXCEPT ![w] = "test"]
    /\ UNCHANGED <<stop, queued, ready, requests, pcStop>>

\* The predicate of the wait, with the mutex held.
Test(w) ==
    /\ pc[w] = "test"
    /\ pc' = [pc EXCEPT ![w] = IF queued > 0 \/ stop THEN "take" ELSE "block"]
    /\ UNCHANGED <<mutex, stop, queued, ready, requests, pcStop>>

\* The wait proper: the mutex is released and the worker is blocked.
Block(w) ==
    /\ pc[w] = "block"
    /\ mutex' = NoWorker
    /\ pc' = [pc EXCEPT ![w] = "waiting"]
    /\ UNCHANGED <<stop, queued, ready, requests, pcStop>>

\* The standard lets a wait return without a notification.
SpuriousWake(w) ==
    /\ pc[w] = "waiting"
    /\ pc' = [pc EXCEPT ![w] = "lock"]
    /\ UNCHANGED <<mutex, stop, queued, ready, requests, pcStop>>

\* After the wait: break when stopping, continue when there is nothing, else pop.
Take(w) ==
    /\ pc[w] = "take"
    /\ mutex' = NoWorker
    /\ \/ /\ stop
          /\ pc' = [pc EXCEPT ![w] = "ended"] /\ UNCHANGED queued
       \/ /\ ~stop /\ queued = 0
          /\ pc' = [pc EXCEPT ![w] = "loop"] /\ UNCHANGED queued
       \/ /\ ~stop /\ queued > 0
          /\ pc' = [pc EXCEPT ![w] = "busy"] /\ queued' = queued - 1
    /\ UNCHANGED <<stop, ready, requests, pcStop>>

\* g_readyQueue.push, under a mutex of its own.
Push(w) ==
    /\ pc[w] = "busy"
    /\ ready' = ready + 1
    /\ pc' = [pc EXCEPT ![w] = "loop"]
    /\ UNCHANGED <<mutex, stop, queued, requests, pcStop>>

Worker(w) == Loop(w) \/ Lock(w) \/ Test(w) \/ Block(w) \/ Take(w) \/ Push(w)

-----------------------------------------------------------------------------
(* The thread that draws the tab list.                                     *)

Waiting == {w \in Workers : pc[w] = "waiting"}

\* Mutant of Request: a task is queued without a notification.
RequestSilently ==
    /\ requests < MaxRequests /\ mutex = NoWorker
    /\ queued' = queued + 1 /\ requests' = requests + 1
    /\ UNCHANGED <<mutex, stop, ready, pc, pcStop>>

\* CreateTextureFromBytesDX12: push and notify_one, both with the mutex held.
Request ==
    /\ requests < MaxRequests /\ mutex = NoWorker
    /\ queued' = queued + 1 /\ requests' = requests + 1
    /\ \/ Waiting = {} /\ UNCHANGED pc
       \/ \E w \in Waiting : pc' = [pc EXCEPT ![w] = "lock"]
    /\ UNCHANGED <<mutex, stop, ready, pcStop>>

\* ProcessReadyPlayerHeadTextures takes one.
ProcessReady ==
    /\ ready > 0
    /\ ready' = ready - 1
    /\ UNCHANGED <<mutex, stop, queued, requests, pc, pcStop>>

-----------------------------------------------------------------------------
(* The thread that stops and starts the loaders.                           *)

\* StopAsyncLoading: the flag is set without the mutex ...
SetStop ==
    /\ pcStop = "running"
    /\ stop' = TRUE
    /\ pcStop' = "notify"
    /\ UNCHANGED <<mutex, queued, ready, requests, pc>>

\* ... notify_all ...
NotifyAll ==
    /\ pcStop = "notify"
    /\ pc' = [w \in Workers |-> IF pc[w] = "waiting" THEN "lock" ELSE pc[w]]
    /\ pcStop' = "join"
    /\ UNCHANGED <<mutex, stop, queued, ready, requests>>

\* Mutant of Join: the threads are left to end by themselves.
JoinDetaches ==
    /\ pcStop = "join"
    /\ pcStop' = "dropQueued"
    /\ UNCHANGED <<mutex, stop, queued, ready, requests, pc>>

\* ... join every thread ...
Join ==
    /\ pcStop = "join" /\ \A w \in Workers : pc[w] = "ended"
    /\ pcStop' = "dropQueued"
    /\ UNCHANGED <<mutex, stop, queued, ready, requests, pc>>

\* ... empty the load queue under its mutex ...
DropQueued ==
    /\ pcStop = "dropQueued" /\ mutex = NoWorker
    /\ queued' = 0
    /\ pcStop' = "dropReady"
    /\ UNCHANGED <<mutex, stop, ready, requests, pc>>

\* Mutant of DropReady: the heads that are ready survive the stop.
DropReadyForgotten ==
    /\ pcStop = "dropReady"
    /\ pcStop' = "stopped"
    /\ UNCHANGED <<mutex, stop, queued, ready, requests, pc>>

\* ... and the queue of ready heads under its own.
DropReady ==
    /\ pcStop = "dropReady"
    /\ ready' = 0
    /\ pcStop' = "stopped"
    /\ UNCHANGED <<mutex, stop, queued, requests, pc>>

\* InitializeAsyncLoading
Start ==
    /\ pcStop = "stopped"
    /\ stop' = FALSE
    /\ pc' = [w \in Workers |-> "loop"]
    /\ requests' = 0
    /\ pcStop' = "running"
    /\ UNCHANGED <<mutex, queued, ready>>

MainThread ==
    Request \/ ProcessReady \/ SetStop \/ NotifyAll \/ Join \/ DropQueued \/ DropReady \/ Start

-----------------------------------------------------------------------------

Init ==
    /\ mutex = NoWorker /\ stop = FALSE
    /\ queued = 0 /\ ready = 0 /\ requests = 0
    /\ pc = [w \in Workers |-> "loop"]
    /\ pcStop = "running"

Next == MainThread \/ \E w \in Workers : Worker(w) \/ SpuriousWake(w)

\* Every worker is scheduled and gets the mutex it keeps waiting for; a stop that
\* has begun goes on, and so do the frames that take ready heads.
Fairness ==
    /\ \A w \in Workers : WF_vars(Worker(w)) /\ SF_vars(Lock(w))
    /\ WF_vars(NotifyAll \/ Join \/ DropQueued \/ DropReady) /\ WF_vars(ProcessReady)

Spec == Init /\ [][Next]_vars
FairSpec == Spec /\ Fairness

-----------------------------------------------------------------------------
(* Properties                                                              *)

Busy == {w \in Workers : pc[w] = "busy"}

\* No head is lost or loaded twice on its way through the queues and the threads, and
\* a stop empties the queues only when no thread is loading: the threads are a pool.
Pool == INSTANCE TaskPool WITH
            Size <- Cardinality(Workers), waiting <- queued, working <- Cardinality(Busy)
PoolKept == Pool!Spec

\* A queued task is never slept over: while there is work and no stop, some worker is
\* on its way to the queue (notify_one is called with the mutex held).
NoTaskForgotten ==
    queued > 0 /\ ~stop /\ Workers # {} =>
        \E w \in Workers : pc[w] \notin {"waiting", "ended"}

\* Every queued head becomes ready, unless the threads are stopped.
TasksFinish == queued > 0 ~> (queued = 0 \/ stop)

\* StopAsyncLoading returns: "Stop async loading threads" (TabList.cpp:439).
StopReturns == pcStop = "notify" ~> pcStop = "stopped"
===============================================================================
