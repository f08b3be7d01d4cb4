-------------------------- MODULE ConcurrentQueue --------------------------
(***************************************************************************)
(* nsCommon::CConcurrentQueue (cmnWinUtils.h) at the granularity of its    *)
(* mutex and condition variable, together with the only way the code uses  *)
(* it: worker threads that loop `pop; leave if exiting; handle' and an     *)
(* owner whose destructor sets the exit flag, calls stopAllPop and joins   *)
(* the workers (CGPBManagerV2).  Producers push from any thread, also      *)
(* while the owner is being destroyed.                                     *)
(*                                                                         *)
(* One critical section of push is one step, since _queue is only touched  *)
(* under _mutex; pop is split at every point where another thread can act: *)
(* _isStop is written without the mutex.                                   *)
(***************************************************************************)
EXTENDS Naturals, Sequences, FiniteSets, Functions

CONSTANTS Consumer,   \* worker threads
          Producer,   \* threads that call push
          Item,       \* what is pushed; one push per item, so |Item| bounds a run
          NoItem,     \* the default-constructed local of a worker
          NoConsumer  \* nobody owns _mutex

ASSUME ItemAssumption == NoItem \notin Item
ASSUME ConsumerAssumption == NoConsumer \notin Consumer

VARIABLES
  queue,       \* _queue
  isStop,      \* _isStop
  ownerExit,   \* the owner's _isExit
  mutex,       \* the consumer inside _mutex, or NoConsumer
  cpc,         \* where each worker is
  val,         \* each worker's packetData, which outlives an iteration
  ppc,         \* where each producer is
  dpc,         \* where the owner's destructor is
  taken,       \* history: items removed from _queue, oldest first
  handled      \* history: items given to the handler, oldest first

queueVars == <<queue, isStop, ownerExit, mutex, cpc, val, ppc, dpc, taken, handled>>

ConsumerPC == {"loop", "lock", "test", "stop", "take", "wait", "got", "done"}
OwnerPC == {"running", "stop", "notify", "join", "joined"}

Pushed == Range(queue) \cup Range(taken)

Waiting == {c \in Consumer : cpc[c] = "wait"}

QueueInit ==
  /\ queue = << >> /\ taken = << >> /\ handled = << >>
  /\ isStop = FALSE /\ ownerExit = FALSE
  /\ mutex = NoConsumer
  /\ cpc = [c \in Consumer |-> "loop"]
  /\ val = [c \in Consumer |-> NoItem]
  /\ ppc = [p \in Producer |-> "idle"]
  /\ dpc = "running"

-----------------------------------------------------------------------------
(* push: lock, _queue.push, unlock; then notify_one outside the lock. *)
Push(p, x) ==
  /\ ppc[p] = "idle" /\ mutex = NoConsumer
  /\ x \notin Pushed
  /\ queue' = Append(queue, x)
  /\ ppc' = [ppc EXCEPT ![p] = "notify"]
  /\ UNCHANGED <<isStop, ownerExit, mutex, cpc, val, dpc, taken, handled>>

(* A push that never notifies. *)
NotifyOne_forgotten(p) ==
  /\ ppc[p] = "notify"
  /\ ppc' = [ppc EXCEPT ![p] = "idle"]
  /\ UNCHANGED <<queue, isStop, ownerExit, mutex, cpc, val, dpc, taken, handled>>

NotifyOne(p) ==
  /\ ppc[p] = "notify"
  /\ ppc' = [ppc EXCEPT ![p] = "idle"]
  /\ IF Waiting = {} THEN UNCHANGED cpc
     ELSE \E c \in Waiting : cpc' = [cpc EXCEPT ![c] = "lock"]
  /\ UNCHANGED <<queue, isStop, ownerExit, mutex, val, dpc, taken, handled>>

-----------------------------------------------------------------------------
(* while( _isExit == false ) of the worker loop. *)
LoopTest(c) ==
  /\ cpc[c] = "loop"
  /\ cpc' = [cpc EXCEPT ![c] = IF ownerExit THEN "done" ELSE "lock"]
  /\ UNCHANGED <<queue, isStop, ownerExit, mutex, val, ppc, dpc, taken, handled>>

(* Taking _mutex, on entry to pop and again when wait returns. *)
Lock(c) ==
  /\ cpc[c] = "lock" /\ mutex = NoConsumer
  /\ mutex' = c
  /\ cpc' = [cpc EXCEPT ![c] = "test"]
  /\ UNCHANGED <<queue, isStop, ownerExit, val, ppc, dpc, taken, handled>>

(* A pop that would also stop waiting on _isStop. *)
EmptyTest_stoppable(c) ==
  /\ cpc[c] = "test"
  /\ IF queue = << >> /\ ~isStop
       THEN /\ mutex' = NoConsumer
            /\ cpc' = [cpc EXCEPT ![c] = "wait"]
       ELSE /\ cpc' = [cpc EXCEPT ![c] = "stop"]
            /\ UNCHANGED mutex
  /\ UNCHANGED <<queue, isStop, ownerExit, val, ppc, dpc, taken, handled>>

(* while( _queue.empty() ) _cvCond.wait( lck ). *)
EmptyTest(c) ==
  /\ cpc[c] = "test"
  /\ IF queue = << >>
       THEN /\ mutex' = NoConsumer
            /\ cpc' = [cpc EXCEPT ![c] = "wait"]
       ELSE /\ cpc' = [cpc EXCEPT ![c] = "stop"]
            /\ UNCHANGED mutex
  /\ UNCHANGED <<queue, isStop, ownerExit, val, ppc, dpc, taken, handled>>

(* boost::condition_variable::wait may return without a notification. *)
SpuriousWakeup(c) ==
  /\ cpc[c] = "wait"
  /\ cpc' = [cpc EXCEPT ![c] = "lock"]
  /\ UNCHANGED <<queue, isStop, ownerExit, mutex, val, ppc, dpc, taken, handled>>

(* if( _isStop == true ) return; leaves val as it was. *)
StopTest(c) ==
  /\ cpc[c] = "stop"
  /\ IF isStop
       THEN /\ mutex' = NoConsumer
            /\ cpc' = [cpc EXCEPT ![c] = "got"]
       ELSE /\ cpc' = [cpc EXCEPT ![c] = "take"]
            /\ UNCHANGED mutex
  /\ UNCHANGED <<queue, isStop, ownerExit, val, ppc, dpc, taken, handled>>

(* front() without pop(). *)
Take_peek(c) ==
  /\ cpc[c] = "take"
  /\ val' = [val EXCEPT ![c] = Head(queue)]
  /\ taken' = Append(taken, Head(queue))
  /\ mutex' = NoConsumer
  /\ cpc' = [cpc EXCEPT ![c] = "got"]
  /\ UNCHANGED <<queue, isStop, ownerExit, ppc, dpc, handled>>

(* val = _queue.front(); _queue.pop(); unlock. *)
Take(c) ==
  /\ cpc[c] = "take"
  /\ val' = [val EXCEPT ![c] = Head(queue)]
  /\ queue' = Tail(queue)
  /\ taken' = Append(taken, Head(queue))
  /\ mutex' = NoConsumer
  /\ cpc' = [cpc EXCEPT ![c] = "got"]
  /\ UNCHANGED <<isStop, ownerExit, ppc, dpc, handled>>

(* After pop: leave the loop if exiting, otherwise handle packetData. *)
Handle(c) ==
  /\ cpc[c] = "got"
  /\ IF ownerExit
       THEN /\ cpc' = [cpc EXCEPT ![c] = "done"]
            /\ UNCHANGED handled
       ELSE /\ cpc' = [cpc EXCEPT ![c] = "loop"]
            /\ handled' = Append(handled, val[c])
  /\ UNCHANGED <<queue, isStop, ownerExit, mutex, val, ppc, dpc, taken>>

-----------------------------------------------------------------------------
(* The owner's destructor: _isExit = true; stopAllPop(); join_all().
   stopAllPop takes no lock. *)
SetExit_forgotten ==
  /\ dpc = "running"
  /\ dpc' = "stop"
  /\ UNCHANGED <<queue, isStop, ownerExit, mutex, cpc, val, ppc, taken, handled>>

SetExit ==
  /\ dpc = "running"
  /\ ownerExit' = TRUE
  /\ dpc' = "stop"
  /\ UNCHANGED <<queue, isStop, mutex, cpc, val, ppc, taken, handled>>

StopAllPop ==
  /\ dpc = "stop"
  /\ isStop' = TRUE
  /\ dpc' = "notify"
  /\ UNCHANGED <<queue, ownerExit, mutex, cpc, val, ppc, taken, handled>>

(* stopAllPop that only sets _isStop. *)
NotifyAll_forgotten ==
  /\ dpc = "notify"
  /\ dpc' = "join"
  /\ UNCHANGED <<queue, isStop, ownerExit, mutex, cpc, val, ppc, taken, handled>>

NotifyAll ==
  /\ dpc = "notify"
  /\ cpc' = [c \in Consumer |-> IF cpc[c] = "wait" THEN "lock" ELSE cpc[c]]
  /\ dpc' = "join"
  /\ UNCHANGED <<queue, isStop, ownerExit, mutex, val, ppc, taken, handled>>

JoinAll ==
  /\ dpc = "join"
  /\ \A c \in Consumer : cpc[c] = "done"
  /\ dpc' = "joined"
  /\ UNCHANGED <<queue, isStop, ownerExit, mutex, cpc, val, ppc, taken, handled>>

-----------------------------------------------------------------------------
ConsumerStep(c) == \/ LoopTest(c) \/ Lock(c) \/ EmptyTest(c) \/ StopTest(c)
                   \/ Take(c) \/ Handle(c)

OwnerStep == SetExit \/ StopAllPop \/ NotifyAll \/ JoinAll

QueueNext ==
  \/ \E p \in Producer : NotifyOne(p) \/ \E x \in Item : Push(p, x)
  \/ \E c \in Consumer : ConsumerStep(c) \/ SpuriousWakeup(c)
  \/ OwnerStep

QueueSpec == QueueInit /\ [][QueueNext]_queueVars

(* A thread that can run eventually runs; a handler returns.  Nobody is
   obliged to push, to wake spuriously or to destroy the owner, but a
   destructor once entered goes on. *)
QueueFairness ==
  /\ \A c \in Consumer : WF_queueVars(ConsumerStep(c))
  /\ \A p \in Producer : WF_queueVars(NotifyOne(p))
  /\ WF_queueVars(StopAllPop \/ NotifyAll \/ JoinAll)

QueueFairSpec == QueueSpec /\ QueueFairness

-----------------------------------------------------------------------------
(* Types, and who may own _mutex. *)
QueueTypeOK ==
  /\ queue \in Seq(Item) /\ taken \in Seq(Item)
  /\ handled \in Seq(Item \cup {NoItem})
  /\ isStop \in BOOLEAN /\ ownerExit \in BOOLEAN
  /\ mutex \in Consumer \cup {NoConsumer}
  /\ cpc \in [Consumer -> ConsumerPC]
  /\ val \in [Consumer -> Item \cup {NoItem}]
  /\ ppc \in [Producer -> {"idle", "notify"}]
  /\ dpc \in OwnerPC

(* However push, pop and stopAllPop interleave, the queue behaves as an
   atomic FIFO: items leave in the order they came, none is lost or doubled. *)
Fifo == INSTANCE FifoQueue
FifoSpec == Fifo!Spec

(* A worker that pop() released without an item never handles the packet of
   its previous iteration again: no item is handled twice and the
   default-constructed local never is.  This rests on the destructor setting
   _isExit before stopAllPop sets _isStop. *)
HandledOnce == IsInjective(handled) /\ NoItem \notin Range(handled)

(* Every pushed item is popped, unless the owner is being destroyed. *)
EveryItemTaken ==
  \A x \in Item : x \in Range(queue) ~> (x \in Range(taken) \/ ownerExit)

(* stopAllPop with items left in the queue releases every worker, so the
   destructor's join_all returns.  The items must be there before notify_all
   (a later push wakes one worker only), and a worker already past the
   _isStop test may still take one. *)
StopWithItemsJoins ==
  (dpc = "notify" /\ queue # << >> /\ \A c \in Consumer : cpc[c] # "take")
    ~> (dpc = "joined")

(* The queue was stopped empty and nobody is left to push. *)
Stranded ==
  /\ isStop /\ queue = << >> /\ Pushed = Item
  /\ \E c \in Consumer : cpc[c] \in {"lock", "test", "wait"}

(* stopAllPop on an empty queue does not release a worker inside pop: the
   loop around wait does not look at _isStop, so unless somebody pushes again
   join_all never returns. *)
EmptyStopStrands ==
  [](Stranded => [](dpc # "joined"))

-----------------------------------------------------------------------------
(* The parts of the inductive invariant behind FifoSpec and HandledOnce. *)
MutexInv ==
  \A c \in Consumer :
    /\ cpc[c] \in {"test", "stop", "take"} => mutex = c
    /\ cpc[c] \in {"stop", "take"} => queue # << >>

OwnerInv ==
  /\ ownerExit <=> dpc # "running"
  /\ isStop => ownerExit

DistinctInv ==
  /\ IsInjective(queue) /\ IsInjective(taken)
  /\ Range(queue) \cap Range(taken) = {}

Holds(c) == cpc[c] = "got" /\ ~ownerExit

HandInv ==
  /\ IsInjective(handled) /\ Range(handled) \subseteq Range(taken)
  /\ \A c \in Consumer : Holds(c) => val[c] \in Range(taken) \ Range(handled)
  /\ \A c, d \in Consumer : Holds(c) /\ Holds(d) /\ c # d => val[c] # val[d]

(* The inductive invariant: pop keeps the mutex from its emptiness test to
   its removal, and what a worker holds is neither queued, handled, nor held
   by another worker. *)
QueueInv == QueueTypeOK /\ MutexInv /\ OwnerInv /\ DistinctInv /\ HandInv
=============================================================================
