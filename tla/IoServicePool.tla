--------------------------- MODULE IoServicePool ---------------------------
(***************************************************************************)
(* CIoServicePool, which deals its io_services out to new communicators    *)
(* and sockets in turn, and the communicators (CNetworkCommunicator) that  *)
(* share it: each adds a thread to every service when it is made, and      *)
(* stops all services when it is destroyed.                                *)
(***************************************************************************)
EXTENDS Integers, FiniteSets

CONSTANTS
  Services,     \* number of io_services
  Dealing,      \* threads that make communicators and sockets
  Communicator,
  MaxDeals      \* bound on how often one service is dealt

ASSUME IoServicePoolAssumption ==
  /\ Services \in Nat \ {0} /\ MaxDeals \in Nat
  /\ IsFiniteSet(Dealing) /\ IsFiniteSet(Communicator)

VARIABLES
  poolNext,     \* m_dxNextSpIoService
  poolDealt,    \* how often each service was dealt
  poolPc,       \* where each thread is in getNextIoService
  poolFor,      \* the communicator it is there for
  poolOverlap,  \* history: two threads have been in getNextIoService
  poolWild,     \* an element behind the vector was read; what follows is open
  poolThreads,  \* threads in io_service::run, for each service
  poolStopped,  \* the services have been told to stop
  poolLife,     \* of each communicator: "new", "live" or "gone"
  poolUses,     \* the services each communicator uses
  poolPending   \* handlers that wait for a thread, by communicator and service

poolDeal == <<poolNext, poolDealt, poolPc, poolFor, poolOverlap, poolWild, poolUses>>
poolRun == <<poolThreads, poolStopped, poolLife, poolPending>>
poolVars == <<poolDeal, poolRun>>

Service == 0 .. Services - 1
PoolGoto(t, l) == poolPc' = [poolPc EXCEPT ![t] = l]
InPool(c) == {t \in Dealing : poolPc[t] # "idle" /\ poolFor[t] = c}
SomeGone == \E c \in Communicator : poolLife[c] = "gone"

PoolInit ==
  /\ poolNext = 0 /\ poolDealt = [s \in Service |-> 0]
  /\ poolPc = [t \in Dealing |-> "idle"]
  /\ poolFor = [t \in Dealing |-> CHOOSE c \in Communicator : TRUE]
  /\ poolOverlap = FALSE /\ poolWild = FALSE
  /\ poolThreads = [s \in Service |-> 0] /\ poolStopped = FALSE
  /\ poolLife = [c \in Communicator |-> "new"]
  /\ poolUses = [c \in Communicator |-> {}] /\ poolPending = {}

-----------------------------------------------------------------------------
(* getNextIoService is called by create_object, for a new communicator, and by
   connectTo and createSocket.  It reads the element at the next index... *)
DealRead(t, c) ==
  /\ poolPc[t] = "idle"
  /\ poolLife[c] = "live" \/ (poolLife[c] = "new" /\ InPool(c) = {})
  /\ ~poolWild
  /\ \A s \in Service : poolDealt[s] < MaxDeals
  /\ poolFor' = [poolFor EXCEPT ![t] = c]
  /\ poolOverlap' = (poolOverlap \/ \E u \in Dealing : poolPc[u] \in {"increment", "test", "reset"})
  /\ IF poolNext \in Service
     THEN /\ poolDealt' = [poolDealt EXCEPT ![poolNext] = @ + 1]
          /\ poolUses' = [poolUses EXCEPT ![c] = @ \cup {poolNext}]
          /\ UNCHANGED poolWild
     ELSE poolWild' = TRUE /\ UNCHANGED <<poolDealt, poolUses>>
  /\ PoolGoto(t, "increment")
  /\ UNCHANGED <<poolNext, poolRun>>

(* ...increments the index, atomically... *)
DealIncrement(t) ==
  /\ poolPc[t] = "increment"
  /\ poolNext' = poolNext + 1
  /\ PoolGoto(t, "test")
  /\ UNCHANGED <<poolDealt, poolFor, poolOverlap, poolWild, poolUses, poolRun>>

AfterDeal(t) == IF poolLife[poolFor[t]] = "new" THEN "run" ELSE "idle"

(* A test that misses the end by one. *)
DealTest_late(t) ==
  /\ poolPc[t] = "test"
  /\ PoolGoto(t, IF poolNext > Services THEN "reset" ELSE AfterDeal(t))
  /\ UNCHANGED <<poolNext, poolDealt, poolFor, poolOverlap, poolWild, poolUses, poolRun>>

(* ...and looks at it again, to begin anew behind the last one. *)
DealTest(t) ==
  /\ poolPc[t] = "test"
  /\ PoolGoto(t, IF poolNext = Services THEN "reset" ELSE AfterDeal(t))
  /\ UNCHANGED <<poolNext, poolDealt, poolFor, poolOverlap, poolWild, poolUses, poolRun>>

DealReset(t) ==
  /\ poolPc[t] = "reset"
  /\ poolNext' = 0
  /\ PoolGoto(t, AfterDeal(t))
  /\ UNCHANGED <<poolDealt, poolFor, poolOverlap, poolWild, poolUses, poolRun>>

-----------------------------------------------------------------------------
(* A run that starts the threads at the second service. *)
Run_short(t) ==
  /\ poolPc[t] = "run"
  /\ poolLife' = [poolLife EXCEPT ![poolFor[t]] = "live"]
  /\ poolThreads' = [s \in Service |-> IF poolStopped \/ s = 0 THEN poolThreads[s] ELSE poolThreads[s] + 1]
  /\ PoolGoto(t, "idle")
  /\ UNCHANGED <<poolNext, poolDealt, poolFor, poolOverlap, poolWild, poolUses, poolStopped, poolPending>>

(* The constructor calls run: one more thread for each service.  In one that
   was stopped, and nobody resets it, the thread is over at once. *)
Run(t) ==
  /\ poolPc[t] = "run"
  /\ poolLife' = [poolLife EXCEPT ![poolFor[t]] = "live"]
  /\ poolThreads' = [s \in Service |-> IF poolStopped THEN poolThreads[s] ELSE poolThreads[s] + 1]
  /\ PoolGoto(t, "idle")
  /\ UNCHANGED <<poolNext, poolDealt, poolFor, poolOverlap, poolWild, poolUses, poolStopped, poolPending>>

(* An asynchronous operation of a communicator completes. *)
Post(c, s) ==
  /\ poolLife[c] = "live" /\ s \in poolUses[c]
  /\ poolPending' = poolPending \cup {<<c, s>>}
  /\ UNCHANGED <<poolDeal, poolThreads, poolStopped, poolLife>>

Serve(c, s) ==
  /\ <<c, s>> \in poolPending /\ poolThreads[s] > 0 /\ ~poolStopped
  /\ poolPending' = poolPending \ {<<c, s>>}
  /\ UNCHANGED <<poolDeal, poolThreads, poolStopped, poolLife>>

(* The destructor stops the services of the one pool there is. *)
Destroy(c) ==
  /\ poolLife[c] = "live" /\ InPool(c) = {}
  /\ poolLife' = [poolLife EXCEPT ![c] = "gone"]
  /\ poolStopped' = TRUE
  /\ UNCHANGED <<poolDeal, poolThreads, poolPending>>

ThreadLeaves(s) ==
  /\ poolStopped /\ poolThreads[s] > 0
  /\ poolThreads' = [poolThreads EXCEPT ![s] = @ - 1]
  /\ UNCHANGED <<poolDeal, poolStopped, poolLife, poolPending>>

PoolNext ==
  \/ \E t \in Dealing :
       \/ \E c \in Communicator : DealRead(t, c)
       \/ DealIncrement(t) \/ DealTest(t) \/ DealReset(t) \/ Run(t)
  \/ \E c \in Communicator :
       \/ \E s \in Service : Post(c, s) \/ Serve(c, s)
       \/ Destroy(c)
  \/ \E s \in Service : ThreadLeaves(s)

PoolSpec == PoolInit /\ [][PoolNext]_poolVars

-----------------------------------------------------------------------------
(* As long as no two threads are in getNextIoService at once, it stays within
   the pool and deals every service equally often, give or take one. *)
PoolRoundRobin ==
  ~poolOverlap =>
    /\ ~poolWild
    /\ \A r, s \in Service : poolDealt[r] - poolDealt[s] \in -1 .. 1

(* Every handler of a communicator gets a thread, on whichever service it was
   dealt; until some communicator, not necessarily its own, is destroyed. *)
PoolServed ==
  \A c \in Communicator : \A s \in Service :
    (<<c, s>> \in poolPending) ~> (<<c, s>> \notin poolPending \/ SomeGone)
=============================================================================
