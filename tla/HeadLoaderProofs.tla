--------------------------- MODULE HeadLoaderProofs ---------------------------
(***************************************************************************)
(* For any number of loader threads and of requests, with requests before, *)
(* during and after a stop: no queued head is slept over, and the threads  *)
(* implement a TaskPool.                                                   *)
(*                                                                         *)
(* Neither is inductive.  Start puts every worker back at its loop, which is  *)
(* right only because Join let none of them keep the mutex; a worker may   *)
(* go to sleep only because the predicate it found false with the mutex    *)
(* held is still false when it blocks, unless the flag, which is set       *)
(* without the mutex, came in between; and the pool is emptied only        *)
(* because a thread that has ended is not loading.                         *)
(***************************************************************************)
EXTENDS HeadLoader, FiniteSetTheorems, TLAPS

Places == {"loop", "lock", "test", "block", "waiting", "take", "busy", "ended"}

\* The part of the type invariant that the proofs need.
ThreadsTyped ==
    /\ mutex \in Workers \cup {NoWorker}
    /\ stop \in BOOLEAN
    /\ pc \in [Workers -> Places]
    /\ pcStop \in {"running", "notify", "join", "dropQueued", "dropReady", "stopped"}
    /\ queued \in Nat

\* The mutex is held by the worker that is between its lock and its unlock.
MutexHeld == \A w \in Workers : pc[w] \in {"test", "block", "take"} <=> mutex = w

\* The flag is up from the beginning of a stop to the next start, and no thread ends
\* without it.
FlagMatchesStop ==
    /\ stop <=> pcStop # "running"
    /\ \A w \in Workers : pc[w] = "ended" => stop

\* Once the threads are joined there is none left.
StoppedIsOver == pcStop \in {"dropQueued", "dropReady", "stopped"} => \A w \in Workers : pc[w] = "ended"

\* What a worker that is about to sleep has seen is still so.
SleepsOnlyWhenEmpty == \A w \in Workers : pc[w] = "block" /\ ~stop => queued = 0

LoaderInv ==
    /\ ThreadsTyped /\ MutexHeld /\ FlagMatchesStop
    /\ StoppedIsOver /\ SleepsOnlyWhenEmpty /\ NoTaskForgotten

LEMMA InitLoader == Init => LoaderInv
<1> SUFFICES ASSUME Init PROVE LoaderInv
  OBVIOUS
<1> USE WorkersAssumption DEF Init
<1>1. ThreadsTyped
  BY DEF ThreadsTyped, Places
<1>2. MutexHeld /\ SleepsOnlyWhenEmpty
  BY DEF MutexHeld, SleepsOnlyWhenEmpty
<1>3. FlagMatchesStop /\ StoppedIsOver
  BY DEF FlagMatchesStop, StoppedIsOver
<1>4. NoTaskForgotten
  BY DEF NoTaskForgotten
<1> QED BY <1>1, <1>2, <1>3, <1>4 DEF LoaderInv

-----------------------------------------------------------------------------
(* The steps of one worker.                                                *)

LEMMA StepWorker ==
    ASSUME LoaderInv, NEW w \in Workers, Worker(w) \/ SpuriousWake(w)
    PROVE  LoaderInv'
<1> USE WorkersAssumption
    DEF LoaderInv, ThreadsTyped, MutexHeld, FlagMatchesStop, StoppedIsOver,
        SleepsOnlyWhenEmpty, NoTaskForgotten, Places
<1>1. CASE Loop(w)
  BY <1>1 DEF Loop
<1>2. CASE Lock(w)
  BY <1>2 DEF Lock
<1>3. CASE Test(w)
  BY <1>3 DEF Test
<1>4. CASE Block(w)
  BY <1>4 DEF Block
<1>5. CASE Take(w)
  BY <1>5 DEF Take
<1>6. CASE Push(w)
  BY <1>6 DEF Push
<1>7. CASE SpuriousWake(w)
  BY <1>7 DEF SpuriousWake
<1> QED
  BY <1>1, <1>2, <1>3, <1>4, <1>5, <1>6, <1>7 DEF Worker

-----------------------------------------------------------------------------
(* The steps of the threads that draw the tab list and stop the loaders.   *)

LEMMA StepMain == ASSUME LoaderInv, MainThread PROVE LoaderInv'
<1> USE WorkersAssumption
    DEF LoaderInv, ThreadsTyped, MutexHeld, FlagMatchesStop, StoppedIsOver,
        SleepsOnlyWhenEmpty, NoTaskForgotten, Places
<1>1. CASE Request
  \* The mutex is free, so no worker is between its test and its sleep; and one that
  \* sleeps is woken.
  <2>1. \A w \in Workers : pc[w] # "block"
    BY <1>1 DEF Request
  <2>2. CASE Waiting = {} /\ UNCHANGED pc
    BY <1>1, <2>1, <2>2 DEF Request, Waiting
  <2>3. CASE \E w \in Waiting : pc' = [pc EXCEPT ![w] = "lock"]
    BY <1>1, <2>1, <2>3 DEF Request, Waiting
  <2> QED BY <1>1, <2>2, <2>3 DEF Request
<1>2. CASE ProcessReady
  BY <1>2 DEF ProcessReady
<1>3. CASE SetStop
  BY <1>3 DEF SetStop
<1>4. CASE NotifyAll
  BY <1>4 DEF NotifyAll
<1>5. CASE Join \/ DropQueued \/ DropReady
  BY <1>5 DEF Join, DropQueued, DropReady
<1>6. CASE Start
  <2>1. mutex = NoWorker
    BY <1>6 DEF Start
  <2> QED BY <1>6, <2>1 DEF Start
<1> QED
  BY <1>1, <1>2, <1>3, <1>4, <1>5, <1>6 DEF MainThread

LEMMA StepLoader == LoaderInv /\ [Next]_vars => LoaderInv'
<1> SUFFICES ASSUME LoaderInv, [Next]_vars PROVE LoaderInv'
  OBVIOUS
<1>1. CASE UNCHANGED vars
  BY <1>1 DEF vars, LoaderInv, ThreadsTyped, MutexHeld, FlagMatchesStop,
      StoppedIsOver, SleepsOnlyWhenEmpty, NoTaskForgotten
<1> QED
  BY <1>1, StepWorker, StepMain DEF Next

LEMMA LoaderAlways == Spec => []LoaderInv
BY InitLoader, StepLoader, PTL DEF Spec

-----------------------------------------------------------------------------

\* notify_one with the mutex held loses no task (CreateTextureFromBytesDX12 against
\* PlayerHeadLoaderWorker), for every number of workers and requests.
THEOREM TaskNeverForgotten == Spec => []NoTaskForgotten
<1>1. LoaderInv => NoTaskForgotten
  BY DEF LoaderInv
<1> QED BY <1>1, LoaderAlways, PTL

-----------------------------------------------------------------------------
(* The threads are a pool.  Every step of the loader is one of the pool or *)
(* none, and the tasks in the pool are at most those requested since the   *)
(* threads were started, and those that were left for them at that start.  *)

\* A task is in a queue or with a busy worker, once; after a stop has emptied the queues
\* only what is requested from then on is left in them.
PlacesCounted ==
    /\ ready \in Nat
    /\ requests \in 0..MaxRequests
    /\ queued + Cardinality(Busy) + ready <= MaxRequests + requests
    /\ pcStop \in {"dropReady", "stopped"} => queued <= requests
    /\ pcStop = "stopped" => ready = 0

PoolInv == LoaderInv /\ PlacesCounted

LEMMA BusyCounted ==
    /\ IsFiniteSet(Busy)
    /\ Cardinality(Busy) \in Nat
    /\ Cardinality(Busy) <= Cardinality(Workers)
    /\ Cardinality(Workers) \in Nat
    /\ Cardinality(Busy) = Cardinality(Workers) => Busy = Workers
<1>1. Busy \in SUBSET Workers
  BY DEF Busy
<1>2. IsFiniteSet(Busy) /\ Cardinality(Busy) <= Cardinality(Workers)
      /\ (Cardinality(Workers) = Cardinality(Busy) => Workers = Busy)
  BY <1>1, WorkersAssumption, FS_Subset
<1> QED
  BY <1>2, WorkersAssumption, FS_CardinalityType

\* A worker that begins or ends a task changes the number of busy ones by one.
LEMMA OneBecomesBusy ==
    ASSUME ThreadsTyped, NEW w \in Workers, pc[w] # "busy",
           pc' = [pc EXCEPT ![w] = "busy"]
    PROVE  /\ Cardinality(Busy') = Cardinality(Busy) + 1
           /\ Cardinality(Busy) < Cardinality(Workers)
<1>1. Busy' = Busy \cup {w} /\ w \notin Busy
  BY DEF Busy, ThreadsTyped
<1>2. Cardinality(Busy \cup {w}) = Cardinality(Busy) + 1
  BY <1>1, BusyCounted, FS_AddElement
<1>3. Busy # Workers
  BY <1>1
<1> QED
  BY <1>1, <1>2, <1>3, BusyCounted

LEMMA OneIsDone ==
    ASSUME ThreadsTyped, NEW w \in Workers, pc[w] = "busy",
           pc' = [pc EXCEPT ![w] = "loop"]
    PROVE  /\ Cardinality(Busy') = Cardinality(Busy) - 1
           /\ Cardinality(Busy) > 0
<1>1. Busy' = Busy \ {w} /\ w \in Busy
  BY DEF Busy, ThreadsTyped
<1>2. Cardinality(Busy \ {w}) = Cardinality(Busy) - 1
  BY <1>1, BusyCounted, FS_RemoveElement
<1>3. Cardinality(Busy) # 0
  BY <1>1, BusyCounted, FS_EmptySet
<1> QED
  BY <1>1, <1>2, <1>3, BusyCounted

\* The steps that leave the busy workers and both queues as they are.
LEMMA NobodyMoves ==
    ASSUME PoolInv, Busy' = Busy, UNCHANGED <<queued, ready, requests>>,
           pcStop' = pcStop \/ pcStop' \notin {"dropReady", "stopped"}
    PROVE  PlacesCounted' /\ [Pool!Next]_(Pool!vars)
BY DEF PoolInv, PlacesCounted, Pool!vars

LEMMA PoolWorker ==
    ASSUME PoolInv, NEW w \in Workers, Worker(w) \/ SpuriousWake(w)
    PROVE  PlacesCounted' /\ [Pool!Next]_(Pool!vars)
<1> USE DEF PoolInv, LoaderInv
<1>1. CASE Loop(w) \/ Lock(w) \/ Test(w) \/ Block(w) \/ SpuriousWake(w)
  <2>1. Busy' = Busy
    BY <1>1 DEF Busy, ThreadsTyped, Loop, Lock, Test, Block, SpuriousWake
  <2>2. UNCHANGED <<queued, ready, requests, pcStop>>
    BY <1>1 DEF Loop, Lock, Test, Block, SpuriousWake
  <2> QED BY <2>1, <2>2, NobodyMoves
<1>2. CASE Take(w) /\ (stop \/ queued = 0)
  <2>1. Busy' = Busy
    BY <1>2 DEF Busy, ThreadsTyped, Take
  <2>2. UNCHANGED <<queued, ready, requests, pcStop>>
    BY <1>2 DEF Take, ThreadsTyped
  <2> QED BY <2>1, <2>2, NobodyMoves
<1>3. CASE Take(w) /\ ~stop /\ queued > 0
  <2>1. pc[w] # "busy" /\ pc' = [pc EXCEPT ![w] = "busy"]
    BY <1>3 DEF Take, ThreadsTyped
  <2>2. queued' = queued - 1 /\ UNCHANGED <<ready, requests, pcStop>>
    BY <1>3 DEF Take, ThreadsTyped
  <2>3. Cardinality(Busy') = Cardinality(Busy) + 1 /\ Cardinality(Busy) < Cardinality(Workers)
    BY <2>1, OneBecomesBusy
  <2>4. PlacesCounted'
    BY <1>3, <2>2, <2>3, BusyCounted, RequestsAssumption DEF PlacesCounted, ThreadsTyped
  <2>5. Pool!Begin
    BY <1>3, <2>2, <2>3 DEF Pool!Begin
  <2> QED BY <2>4, <2>5 DEF Pool!Next
<1>4. CASE Push(w)
  <2>1. Cardinality(Busy') = Cardinality(Busy) - 1 /\ Cardinality(Busy) > 0
    BY <1>4, OneIsDone DEF Push
  <2>2. ready' = ready + 1 /\ UNCHANGED <<queued, requests, pcStop>>
    BY <1>4 DEF Push
  <2>3. pcStop \notin {"dropReady", "stopped"}
    BY <1>4 DEF Push, StoppedIsOver
  <2>4. PlacesCounted'
    BY <2>1, <2>2, <2>3, BusyCounted, RequestsAssumption DEF PlacesCounted, ThreadsTyped
  <2>5. Pool!Finish
    BY <2>1, <2>2 DEF Pool!Finish
  <2> QED BY <2>4, <2>5 DEF Pool!Next
<1> QED
  BY <1>1, <1>2, <1>3, <1>4 DEF Worker, Take

LEMMA PoolMain ==
    ASSUME PoolInv, MainThread
    PROVE  PlacesCounted' /\ [Pool!Next]_(Pool!vars)
<1> USE DEF PoolInv, LoaderInv
<1>1. CASE Request
  <2>1. Busy' = Busy
    BY <1>1 DEF Busy, ThreadsTyped, Request, Waiting
  <2>2. /\ queued' = queued + 1 /\ requests' = requests + 1 /\ requests < MaxRequests
        /\ UNCHANGED <<ready, pcStop>>
    BY <1>1 DEF Request
  <2>3. PlacesCounted'
    BY <2>1, <2>2, BusyCounted, RequestsAssumption DEF PlacesCounted, ThreadsTyped
  <2>4. Pool!Submit
    BY <2>1, <2>2 DEF Pool!Submit
  <2> QED BY <2>3, <2>4 DEF Pool!Next
<1>2. CASE ProcessReady
  <2>1. Busy' = Busy
    BY <1>2 DEF Busy, ProcessReady
  <2>2. /\ ready > 0 /\ ready' = ready - 1
        /\ UNCHANGED <<queued, requests, pcStop>>
    BY <1>2 DEF ProcessReady
  <2>3. PlacesCounted'
    BY <2>1, <2>2, BusyCounted, RequestsAssumption DEF PlacesCounted, ThreadsTyped
  <2>4. Pool!Collect
    BY <2>1, <2>2 DEF Pool!Collect
  <2> QED BY <2>3, <2>4 DEF Pool!Next
<1>3. CASE SetStop \/ NotifyAll \/ Join
  <2>1. Busy' = Busy
    BY <1>3 DEF Busy, ThreadsTyped, SetStop, NotifyAll, Join
  <2>2. UNCHANGED <<queued, ready, requests>> /\ pcStop' \notin {"dropReady", "stopped"}
    BY <1>3 DEF SetStop, NotifyAll, Join
  <2> QED BY <2>1, <2>2, NobodyMoves
<1>4. CASE DropQueued \/ DropReady
  \* Every thread has ended, so none is busy.
  <2>1. Busy = {} /\ Busy' = {}
    BY <1>4 DEF DropQueued, DropReady, StoppedIsOver, Busy
  <2>2. Cardinality({}) = 0
    BY FS_EmptySet
  <2>3. CASE DropQueued
    <3>1. /\ pcStop' = "dropReady" /\ queued' = 0 /\ UNCHANGED <<ready, requests>>
      BY <2>3 DEF DropQueued
    <3>2. PlacesCounted'
      BY <2>1, <2>2, <3>1, RequestsAssumption DEF PlacesCounted, ThreadsTyped
    <3>3. Pool!DropWaiting
      BY <2>1, <2>2, <3>1 DEF Pool!DropWaiting
    <3> QED BY <3>2, <3>3 DEF Pool!Next
  <2>4. CASE DropReady
    <3>1. /\ pcStop = "dropReady" /\ pcStop' = "stopped" /\ ready' = 0
          /\ UNCHANGED <<queued, requests>>
      BY <2>4 DEF DropReady
    <3>2. PlacesCounted'
      BY <2>1, <2>2, <3>1, RequestsAssumption DEF PlacesCounted, ThreadsTyped
    <3>3. Pool!DropReady
      BY <2>1, <2>2, <3>1 DEF Pool!DropReady
    <3> QED BY <3>2, <3>3 DEF Pool!Next
  <2> QED BY <1>4, <2>3, <2>4
<1>5. CASE Start
  <2>1. Busy = {} /\ Busy' = {}
    BY <1>5 DEF Start, StoppedIsOver, Busy
  <2>2. Cardinality({}) = 0
    BY FS_EmptySet
  <2>3. /\ pcStop = "stopped" /\ pcStop' = "running" /\ requests' = 0
        /\ UNCHANGED <<queued, ready>>
    BY <1>5 DEF Start
  <2>4. PlacesCounted'
    BY <2>1, <2>2, <2>3, RequestsAssumption DEF PlacesCounted, ThreadsTyped
  <2> QED BY <2>1, <2>3, <2>4 DEF Pool!vars
<1> QED
  BY <1>1, <1>2, <1>3, <1>4, <1>5 DEF MainThread

LEMMA PoolSteps ==
    ASSUME PoolInv, [Next]_vars
    PROVE  PlacesCounted' /\ [Pool!Next]_(Pool!vars)
<1>1. CASE UNCHANGED vars
  BY <1>1, NobodyMoves DEF vars, Busy
<1> QED
  BY <1>1, PoolWorker, PoolMain DEF Next

LEMMA InitPool == Init => PoolInv /\ Pool!Init
<1> SUFFICES ASSUME Init PROVE PoolInv /\ Pool!Init
  OBVIOUS
<1>1. Busy = {}
  BY DEF Init, Busy
<1>2. Cardinality(Busy) = 0
  BY <1>1, FS_EmptySet
<1>3. PlacesCounted
  BY <1>2, RequestsAssumption DEF Init, PlacesCounted
<1> QED
  BY <1>2, <1>3, InitLoader DEF Init, PoolInv, Pool!Init

LEMMA PoolAlways == Spec => []PoolInv
<1>1. PoolInv /\ [Next]_vars => PoolInv'
  BY PoolSteps, StepLoader DEF PoolInv
<1> QED BY <1>1, InitPool, PTL DEF Spec

\* The loader threads implement the pool the tab list relies on: no head is lost or
\* loaded twice, and StopAsyncLoading drops heads only when no thread is loading one,
\* for every number of workers and requests, which may come at any time.
THEOREM PoolAlwaysKept == Spec => PoolKept
<1>1. PoolInv /\ [Next]_vars => [Pool!Next]_(Pool!vars)
  BY PoolSteps
<1> QED BY <1>1, InitPool, PoolAlways, PTL DEF Spec, PoolKept, Pool!Spec

\* The places of the mutex, the queues and the threads stay in their ranges; that a queue
\* holds no more than was requested since the last start but one, although requests go on
\* while the threads are stopped, needs the places of a task to be counted.
THEOREM LoaderTypeCorrect == Spec => []TypeOK
<1>1. PoolInv => TypeOK
  BY BusyCounted, RequestsAssumption
     DEF PoolInv, LoaderInv, ThreadsTyped, PlacesCounted, TypeOK, Places
<1> QED BY <1>1, PoolAlways, PTL
===============================================================================
