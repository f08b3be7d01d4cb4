----------------------- MODULE ConcurrentQueue_proofs -----------------------
(***************************************************************************)
(* CConcurrentQueue for any number of workers, producers and items: the    *)
(* typing, the inductive invariant, the refinement of an atomic FIFO, that *)
(* a stopped worker never handles a stale packet, and that one which waits *)
(* when the queue is stopped empty is never released.                      *)
(***************************************************************************)
EXTENDS ConcurrentQueue, TLAPS

(* push (cmnWinUtils.h:243) appends: the queue keeps its type, gains exactly
   the pushed element and stays free of repetitions when it is new. *)
LEMMA AppendFacts ==
  ASSUME NEW S, NEW s \in Seq(S), NEW x \in S
  PROVE  /\ Append(s, x) \in Seq(S)
         /\ Range(Append(s, x)) = Range(s) \cup {x}
         /\ IsInjective(s) /\ x \notin Range(s) => IsInjective(Append(s, x))
<1>1. Append(s, x) \in Seq(S)
  OBVIOUS
<1>2. /\ DOMAIN Append(s, x) = 1 .. Len(s) + 1
      /\ DOMAIN s = 1 .. Len(s)
      /\ Len(s) \in Nat
      /\ Append(s, x)[Len(s) + 1] = x
      /\ \A i \in 1 .. Len(s) : Append(s, x)[i] = s[i]
  OBVIOUS
<1>3. Range(Append(s, x)) = Range(s) \cup {x}
  <2>1. \A y \in Range(Append(s, x)) : y \in Range(s) \cup {x}
    BY <1>2 DEF Range
  <2>2. \A y \in Range(s) \cup {x} : y \in Range(Append(s, x))
    BY <1>2 DEF Range
  <2>3. QED BY <2>1, <2>2
<1>4. ASSUME IsInjective(s), x \notin Range(s)
      PROVE  IsInjective(Append(s, x))
  BY <1>2, <1>4 DEF IsInjective, Range
<1>5. QED BY <1>1, <1>3, <1>4

(* pop (cmnWinUtils.h:236-237) takes the front: what stays is a queue without
   it, when the queue had no repetitions. *)
LEMMA HeadTailFacts ==
  ASSUME NEW S, NEW s \in Seq(S), s # << >>
  PROVE  /\ Tail(s) \in Seq(S) /\ Head(s) \in S
         /\ Head(s) \in Range(s)
         /\ Range(Tail(s)) \subseteq Range(s)
         /\ IsInjective(s) => IsInjective(Tail(s)) /\ Head(s) \notin Range(Tail(s))
<1>1. /\ Len(s) \in Nat /\ Len(s) > 0
      /\ DOMAIN s = 1 .. Len(s)
      /\ Tail(s) \in Seq(S) /\ Head(s) = s[1]
      /\ DOMAIN Tail(s) = 1 .. Len(s) - 1
      /\ \A i \in 1 .. Len(s) - 1 : Tail(s)[i] = s[i + 1]
  OBVIOUS
<1>2. Head(s) \in S /\ Head(s) \in Range(s)
  BY <1>1 DEF Range
<1>3. \A i \in 1 .. Len(s) - 1 : i + 1 \in 1 .. Len(s) /\ i + 1 # 1
  BY <1>1
<1>4. Range(Tail(s)) \subseteq Range(s)
  BY <1>1, <1>3 DEF Range
<1>5. ASSUME IsInjective(s)
      PROVE  IsInjective(Tail(s)) /\ Head(s) \notin Range(Tail(s))
  <2>1. \A i, j \in 1 .. Len(s) - 1 : s[i + 1] = s[j + 1] => i = j
    BY <1>1, <1>3, <1>5 DEF IsInjective
  <2>2. \A i \in 1 .. Len(s) - 1 : s[i + 1] # s[1]
    BY <1>1, <1>3, <1>5 DEF IsInjective
  <2>3. QED BY <1>1, <2>1, <2>2 DEF IsInjective, Range
<1>6. QED BY <1>1, <1>2, <1>4, <1>5

-----------------------------------------------------------------------------
(* Initially nothing is queued, held or handled. *)
LEMMA InitInv == QueueInit => QueueInv
<1> SUFFICES ASSUME QueueInit PROVE QueueInv
  OBVIOUS
<1>1. QueueTypeOK
  <2>1. << >> \in Seq(Item) /\ << >> \in Seq(Item \cup {NoItem})
    OBVIOUS
  <2>2. /\ cpc \in [Consumer -> ConsumerPC]
        /\ val \in [Consumer -> Item \cup {NoItem}]
        /\ ppc \in [Producer -> {"idle", "notify"}]
    BY DEF QueueInit, ConsumerPC
  <2>3. QED BY <2>1, <2>2 DEF QueueInit, QueueTypeOK, OwnerPC
<1>2. /\ IsInjective(<< >>) /\ Range(<< >>) = {}
  BY DEF IsInjective, Range
<1>3. MutexInv /\ OwnerInv
  BY DEF QueueInit, MutexInv, OwnerInv
<1>4. DistinctInv /\ HandInv
  BY <1>2 DEF QueueInit, DistinctInv, HandInv, Holds
<1>5. QED BY <1>1, <1>3, <1>4 DEF QueueInv

(* Every step of every thread keeps the types; Take needs MutexInv, which
   says that the queue it removes from is not empty. *)
LEMMA StepType == QueueTypeOK /\ MutexInv /\ [QueueNext]_queueVars => QueueTypeOK'
<1> SUFFICES ASSUME QueueTypeOK, MutexInv, [QueueNext]_queueVars PROVE QueueTypeOK'
  OBVIOUS
<1> USE DEF QueueTypeOK, ConsumerPC, OwnerPC
<1>1. ASSUME NEW p \in Producer, NotifyOne(p) PROVE QueueTypeOK'
  BY <1>1 DEF NotifyOne, Waiting
<1>2. ASSUME NEW p \in Producer, NEW x \in Item, Push(p, x) PROVE QueueTypeOK'
  BY <1>2 DEF Push
<1>3. ASSUME NEW c \in Consumer, LoopTest(c) PROVE QueueTypeOK'
  BY <1>3 DEF LoopTest
<1>4. ASSUME NEW c \in Consumer, Lock(c) PROVE QueueTypeOK'
  BY <1>4 DEF Lock
<1>5. ASSUME NEW c \in Consumer, EmptyTest(c) PROVE QueueTypeOK'
  BY <1>5 DEF EmptyTest
<1>6. ASSUME NEW c \in Consumer, StopTest(c) PROVE QueueTypeOK'
  BY <1>6 DEF StopTest
<1>7. ASSUME NEW c \in Consumer, Take(c) PROVE QueueTypeOK'
  <2>1. queue # << >>
    BY <1>7 DEF Take, MutexInv
  <2>2. Tail(queue) \in Seq(Item) /\ Head(queue) \in Item
    BY <2>1, HeadTailFacts
  <2>3. Append(taken, Head(queue)) \in Seq(Item)
    BY <2>2, AppendFacts
  <2>4. QED BY <1>7, <2>2, <2>3 DEF Take
<1>8. ASSUME NEW c \in Consumer, Handle(c) PROVE QueueTypeOK'
  <2>1. Append(handled, val[c]) \in Seq(Item \cup {NoItem})
    BY AppendFacts
  <2>2. QED BY <1>8, <2>1 DEF Handle
<1>9. ASSUME NEW c \in Consumer, SpuriousWakeup(c) PROVE QueueTypeOK'
  BY <1>9 DEF SpuriousWakeup
<1>10. CASE OwnerStep
  BY <1>10 DEF OwnerStep, SetExit, StopAllPop, NotifyAll, JoinAll
<1>11. CASE UNCHANGED queueVars
  BY <1>11 DEF queueVars
<1>12. QED
  BY <1>1, <1>2, <1>3, <1>4, <1>5, <1>6, <1>7, <1>8, <1>9, <1>10, <1>11
     DEF QueueNext, ConsumerStep

(* Only the owner of _mutex tests and empties the queue, so a queue seen
   non-empty stays so until that worker takes from it. *)
LEMMA StepMutex == QueueTypeOK /\ MutexInv /\ [QueueNext]_queueVars => MutexInv'
<1> SUFFICES ASSUME QueueTypeOK, MutexInv, [QueueNext]_queueVars PROVE MutexInv'
  OBVIOUS
<1> USE ConsumerAssumption DEF QueueTypeOK, ConsumerPC, MutexInv
<1>1. ASSUME NEW p \in Producer, NotifyOne(p) PROVE MutexInv'
  BY <1>1 DEF NotifyOne, Waiting
<1>2. ASSUME NEW p \in Producer, NEW x \in Item, Push(p, x) PROVE MutexInv'
  <2>1. Append(queue, x) # << >>
    OBVIOUS
  <2>2. QED BY <1>2, <2>1 DEF Push
<1>3. ASSUME NEW c \in Consumer, LoopTest(c) PROVE MutexInv'
  BY <1>3 DEF LoopTest
<1>4. ASSUME NEW c \in Consumer, Lock(c) PROVE MutexInv'
  BY <1>4 DEF Lock
<1>5. ASSUME NEW c \in Consumer, EmptyTest(c) PROVE MutexInv'
  BY <1>5 DEF EmptyTest
<1>6. ASSUME NEW c \in Consumer, StopTest(c) PROVE MutexInv'
  BY <1>6 DEF StopTest
<1>7. ASSUME NEW c \in Consumer, Take(c) PROVE MutexInv'
  BY <1>7 DEF Take
<1>8. ASSUME NEW c \in Consumer, Handle(c) PROVE MutexInv'
  BY <1>8 DEF Handle
<1>9. ASSUME NEW c \in Consumer, SpuriousWakeup(c) PROVE MutexInv'
  BY <1>9 DEF SpuriousWakeup
<1>10. CASE OwnerStep
  BY <1>10 DEF OwnerStep, SetExit, StopAllPop, NotifyAll, JoinAll
<1>11. CASE UNCHANGED queueVars
  BY <1>11 DEF queueVars
<1>12. QED
  BY <1>1, <1>2, <1>3, <1>4, <1>5, <1>6, <1>7, <1>8, <1>9, <1>10, <1>11
     DEF QueueNext, ConsumerStep

(* The destructor raises _isExit first and never lowers a flag. *)
LEMMA StepOwner == OwnerInv /\ QueueTypeOK /\ [QueueNext]_queueVars => OwnerInv'
<1> SUFFICES ASSUME OwnerInv, QueueTypeOK, [QueueNext]_queueVars PROVE OwnerInv'
  OBVIOUS
<1>1. CASE OwnerStep
  BY <1>1 DEF OwnerStep, SetExit, StopAllPop, NotifyAll, JoinAll, OwnerInv, QueueTypeOK
<1>2. CASE UNCHANGED <<isStop, ownerExit, dpc>>
  BY <1>2 DEF OwnerInv
<1>3. QED
  BY <1>1, <1>2 DEF QueueNext, ConsumerStep, NotifyOne, Push, LoopTest, Lock, EmptyTest,
     StopTest, Take, Handle, SpuriousWakeup, queueVars

(* An item is pushed once, so it is never both queued and taken. *)
LEMMA StepDistinct ==
  QueueTypeOK /\ MutexInv /\ DistinctInv /\ [QueueNext]_queueVars => DistinctInv'
<1> SUFFICES ASSUME QueueTypeOK, MutexInv, DistinctInv, [QueueNext]_queueVars PROVE DistinctInv'
  OBVIOUS
<1>1. ASSUME NEW p \in Producer, NEW x \in Item, Push(p, x) PROVE DistinctInv'
  <2>1. x \notin Range(queue) /\ x \notin Range(taken)
    BY <1>1 DEF Push, Pushed
  <2>2. /\ Range(Append(queue, x)) = Range(queue) \cup {x}
        /\ IsInjective(queue) => IsInjective(Append(queue, x))
    BY <2>1, AppendFacts DEF QueueTypeOK
  <2>3. QED BY <1>1, <2>1, <2>2 DEF Push, DistinctInv
<1>2. ASSUME NEW c \in Consumer, Take(c) PROVE DistinctInv'
  <2>1. queue # << >>
    BY <1>2 DEF Take, MutexInv
  <2>2. /\ Head(queue) \in Item
        /\ Head(queue) \in Range(queue)
        /\ Range(Tail(queue)) \subseteq Range(queue)
        /\ IsInjective(Tail(queue)) /\ Head(queue) \notin Range(Tail(queue))
    BY <2>1, HeadTailFacts DEF QueueTypeOK, DistinctInv
  <2>3. Head(queue) \notin Range(taken)
    BY <2>2 DEF DistinctInv
  <2>4. /\ Range(Append(taken, Head(queue))) = Range(taken) \cup {Head(queue)}
        /\ IsInjective(taken) => IsInjective(Append(taken, Head(queue)))
    BY <2>2, <2>3, AppendFacts DEF QueueTypeOK
  <2>5. QED BY <1>2, <2>2, <2>3, <2>4 DEF Take, DistinctInv
<1>3. CASE UNCHANGED <<queue, taken>>
  BY <1>3 DEF DistinctInv
<1>4. QED
  BY <1>1, <1>2, <1>3 DEF QueueNext, ConsumerStep, OwnerStep, NotifyOne, LoopTest, Lock,
     EmptyTest, StopTest, Handle, SpuriousWakeup, SetExit, StopAllPop, NotifyAll,
     JoinAll, queueVars

(* What a worker holds after pop is an item nobody else holds and nobody has
   handled.  A worker released by _isStop holds a stale one, but _isExit is
   already up, so it will not be handled. *)
LEMMA StepHand == QueueInv /\ [QueueNext]_queueVars => HandInv'
<1> SUFFICES ASSUME QueueTypeOK, QueueInv, [QueueNext]_queueVars PROVE HandInv'
  BY DEF QueueInv
<1> USE DEF QueueTypeOK, ConsumerPC, Holds
<1>1. HandInv /\ OwnerInv /\ DistinctInv /\ MutexInv
  BY DEF QueueInv
<1>2. ASSUME NEW c \in Consumer, StopTest(c) PROVE HandInv'
  BY <1>1, <1>2 DEF StopTest, HandInv, OwnerInv
<1>3. ASSUME NEW c \in Consumer, Take(c) PROVE HandInv'
  <2>1. queue # << >>
    BY <1>1, <1>3 DEF Take, MutexInv
  <2>2. Head(queue) \in Item /\ Head(queue) \in Range(queue)
    BY <2>1, HeadTailFacts
  <2>3. Head(queue) \notin Range(taken)
    BY <1>1, <2>2 DEF DistinctInv
  <2>4. Range(taken') = Range(taken) \cup {Head(queue)}
    BY <1>3, <2>2, AppendFacts DEF Take
  <2>5. /\ handled' = handled /\ ownerExit' = ownerExit
        /\ cpc' = [cpc EXCEPT ![c] = "got"]
        /\ val' = [val EXCEPT ![c] = Head(queue)]
    BY <1>3 DEF Take
  <2>6. Range(handled) \subseteq Range(taken) /\ IsInjective(handled)
    BY <1>1 DEF HandInv
  <2>7. \A d \in Consumer : d # c => cpc'[d] = cpc[d] /\ val'[d] = val[d]
    BY <2>5
  <2>8. val'[c] = Head(queue)
    BY <2>5
  <2>9. \A d \in Consumer : Holds(d) => val[d] \in Range(taken) \ Range(handled)
    BY <1>1 DEF HandInv
  <2>10. \A d \in Consumer : Holds(d)' => val'[d] \in Range(taken') \ Range(handled')
    BY <2>3, <2>4, <2>5, <2>6, <2>7, <2>8, <2>9
  <2>11. \A d, e \in Consumer : Holds(d)' /\ Holds(e)' /\ d # e => val'[d] # val'[e]
    <3>1. SUFFICES ASSUME NEW d \in Consumer, NEW e \in Consumer,
                          Holds(d)', Holds(e)', d # e
                   PROVE  val'[d] # val'[e]
      OBVIOUS
    <3>2. CASE d = c
      BY <3>1, <3>2, <2>3, <2>5, <2>7, <2>8, <2>9
    <3>3. CASE e = c
      BY <3>1, <3>3, <2>3, <2>5, <2>7, <2>8, <2>9
    <3>4. CASE d # c /\ e # c
      BY <1>1, <3>1, <3>4, <2>5, <2>7 DEF HandInv
    <3>5. QED BY <3>2, <3>3, <3>4
  <2>12. QED BY <2>4, <2>5, <2>6, <2>10, <2>11 DEF HandInv
<1>4. ASSUME NEW c \in Consumer, Handle(c) PROVE HandInv'
  <2>1. CASE ownerExit
    BY <1>1, <1>4, <2>1 DEF Handle, HandInv
  <2>2. CASE ~ownerExit
    <3>1. val[c] \in Range(taken) /\ val[c] \notin Range(handled)
      BY <1>1, <1>4, <2>2 DEF Handle, HandInv
    <3>2. /\ handled' = Append(handled, val[c])
          /\ cpc' = [cpc EXCEPT ![c] = "loop"]
          /\ taken' = taken /\ val' = val /\ ownerExit' = ownerExit
      BY <1>4, <2>2 DEF Handle
    <3>3. /\ Range(handled') = Range(handled) \cup {val[c]}
          /\ IsInjective(handled) => IsInjective(handled')
      BY <3>1, <3>2, AppendFacts, SMTT(30)
    <3>4. \A d \in Consumer : Holds(d)' => Holds(d) /\ d # c
      BY <3>2
    <3>5. Holds(c)
      BY <1>4, <2>2 DEF Handle
    <3>6. QED BY <1>1, <3>1, <3>2, <3>3, <3>4, <3>5 DEF HandInv
  <2>3. QED BY <2>1, <2>2
<1>5. ASSUME UNCHANGED <<taken, handled, val>>, ownerExit => ownerExit',
             \A d \in Consumer : cpc'[d] = "got" => cpc[d] = "got"
      PROVE  HandInv'
  BY <1>1, <1>5 DEF HandInv
<1>6. ASSUME NEW p \in Producer, NotifyOne(p) \/ \E x \in Item : Push(p, x)
      PROVE  HandInv'
  BY <1>5, <1>6 DEF NotifyOne, Waiting, Push
<1>7. ASSUME NEW c \in Consumer,
             LoopTest(c) \/ Lock(c) \/ EmptyTest(c) \/ SpuriousWakeup(c)
      PROVE  HandInv'
  BY <1>5, <1>7 DEF LoopTest, Lock, EmptyTest, SpuriousWakeup
<1>8. CASE OwnerStep
  BY <1>5, <1>8 DEF OwnerStep, SetExit, StopAllPop, NotifyAll, JoinAll
<1>9. CASE UNCHANGED queueVars
  BY <1>5, <1>9 DEF queueVars
<1>10. QED
  BY <1>2, <1>3, <1>4, <1>6, <1>7, <1>8, <1>9 DEF QueueNext, ConsumerStep

-----------------------------------------------------------------------------
(* CConcurrentQueue keeps its types and its inductive invariant whatever the
   number of threads and packets. *)
THEOREM Invariance == QueueSpec => []QueueInv
<1>1. QueueInv /\ [QueueNext]_queueVars => QueueInv'
  BY StepType, StepMutex, StepOwner, StepDistinct, StepHand DEF QueueInv
<1>2. QED BY InitInv, <1>1, PTL DEF QueueSpec

(* The worker loop of dispatchReceiveMessage and dispatchSendMessage never
   handles a packet twice, nor the packet a stopped pop left behind. *)
THEOREM StalePacketsNotHandled == QueueSpec => []HandledOnce
<1>1. QueueInv => HandledOnce
  <2> SUFFICES ASSUME QueueTypeOK, QueueInv PROVE HandledOnce
    BY DEF QueueInv
  <2>1. Range(taken) \subseteq Item
    BY DEF QueueTypeOK, Range
  <2>2. QED BY <2>1, ItemAssumption DEF QueueInv, HandInv, HandledOnce
<1>2. QED BY Invariance, <1>1, PTL

(* pop and push, split at their lock operations, implement the atomic FIFO
   that the rest of the code relies on. *)
THEOREM QueueImplementsFifo == QueueSpec => FifoSpec
<1>1. QueueInit => Fifo!Init
  BY DEF QueueInit, Fifo!Init
<1>2. QueueInv /\ [QueueNext]_queueVars => [Fifo!Next]_(Fifo!vars)
  <2> SUFFICES ASSUME QueueTypeOK, MutexInv, [QueueNext]_queueVars
               PROVE  [Fifo!Next]_(Fifo!vars)
    BY DEF QueueInv
  <2>1. ASSUME NEW p \in Producer, NEW x \in Item, Push(p, x)
        PROVE  Fifo!Next
    BY <2>1 DEF Push, Fifo!Next, Fifo!Put
  <2>2. ASSUME NEW c \in Consumer, Take(c) PROVE Fifo!Next
    BY <2>2 DEF Take, MutexInv, Fifo!Next, Fifo!Get
  <2>3. CASE UNCHANGED <<queue, taken>>
    BY <2>3 DEF Fifo!vars
  <2>4. QED
    BY <2>1, <2>2, <2>3 DEF QueueNext, ConsumerStep, OwnerStep, NotifyOne, LoopTest, Lock,
       EmptyTest, StopTest, Handle, SpuriousWakeup, SetExit, StopAllPop, NotifyAll,
       JoinAll, queueVars
<1>3. QED
  BY Invariance, <1>1, <1>2, PTL DEF QueueSpec, FifoSpec, Fifo!Spec

(* join_all has returned: every worker has left its loop. *)
JoinedInv == dpc = "joined" => \A c \in Consumer : cpc[c] = "done"

(* A worker that has left its loop does not come back. *)
LEMMA StepJoined == QueueTypeOK /\ JoinedInv /\ [QueueNext]_queueVars => JoinedInv'
<1> SUFFICES ASSUME QueueTypeOK, JoinedInv, [QueueNext]_queueVars PROVE JoinedInv'
  OBVIOUS
<1> USE DEF QueueTypeOK, ConsumerPC, JoinedInv
<1>1. ASSUME UNCHANGED dpc, \A c \in Consumer : cpc[c] = "done" => cpc'[c] = "done"
      PROVE  JoinedInv'
  BY <1>1
<1>2. ASSUME NEW p \in Producer, NotifyOne(p) \/ \E x \in Item : Push(p, x)
      PROVE  JoinedInv'
  BY <1>1, <1>2 DEF NotifyOne, Waiting, Push
<1>3. ASSUME NEW c \in Consumer, ConsumerStep(c) \/ SpuriousWakeup(c) PROVE JoinedInv'
  BY <1>1, <1>3 DEF ConsumerStep, LoopTest, Lock, EmptyTest, StopTest, Take, Handle, SpuriousWakeup
<1>4. CASE OwnerStep
  BY <1>4 DEF OwnerStep, SetExit, StopAllPop, NotifyAll, JoinAll
<1>5. CASE UNCHANGED queueVars
  BY <1>5 DEF queueVars
<1>6. QED BY <1>2, <1>3, <1>4, <1>5 DEF QueueNext

(* Once everything has been taken and the queue is stopped, a worker inside pop
   goes round between the lock, the test for emptiness and the wait. *)
LEMMA StrandedStays == QueueInv /\ Stranded /\ [QueueNext]_queueVars => Stranded'
<1> SUFFICES ASSUME QueueTypeOK, MutexInv, Stranded, [QueueNext]_queueVars PROVE Stranded'
  BY DEF QueueInv
<1> USE DEF QueueTypeOK, ConsumerPC, Stranded, Pushed
<1>1. PICK c \in Consumer : cpc[c] \in {"lock", "test", "wait"}
  OBVIOUS
<1>2. ASSUME UNCHANGED <<queue, taken>>, isStop', cpc'[c] \in {"lock", "test", "wait"}
      PROVE  Stranded'
  BY <1>2
<1>3. ASSUME NEW p \in Producer, NotifyOne(p) PROVE Stranded'
  BY <1>1, <1>2, <1>3 DEF NotifyOne, Waiting
<1>4. ASSUME NEW p \in Producer, NEW x \in Item, Push(p, x) PROVE FALSE
  BY <1>4 DEF Push
<1>5. ASSUME NEW b \in Consumer, Take(b) PROVE FALSE
  BY <1>5 DEF Take, MutexInv
<1>6. ASSUME NEW b \in Consumer,
             LoopTest(b) \/ Lock(b) \/ EmptyTest(b) \/ StopTest(b) \/ Handle(b) \/ SpuriousWakeup(b)
      PROVE  Stranded'
  BY <1>1, <1>2, <1>6 DEF LoopTest, Lock, EmptyTest, StopTest, Handle, SpuriousWakeup
<1>7. CASE OwnerStep
  BY <1>1, <1>2, <1>7 DEF OwnerStep, SetExit, StopAllPop, NotifyAll, JoinAll
<1>8. CASE UNCHANGED queueVars
  BY <1>1, <1>2, <1>8 DEF queueVars
<1>9. QED BY <1>3, <1>4, <1>5, <1>6, <1>7, <1>8 DEF QueueNext, ConsumerStep

(* stopAllPop on an empty queue leaves a worker inside pop there for good, and
   the destructor in join_all, unless somebody pushes again. *)
THEOREM EmptyQueueNeverJoins == QueueSpec => EmptyStopStrands
<1>1. QueueInit => JoinedInv
  BY DEF QueueInit, JoinedInv
<1>2. QueueInv => QueueTypeOK
  BY DEF QueueInv
<1>3. JoinedInv /\ Stranded => dpc # "joined"
  BY DEF JoinedInv, Stranded
<1>4. QED
  BY Invariance, StepJoined, StrandedStays, <1>1, <1>2, <1>3, PTL DEF QueueSpec, EmptyStopStrands
=============================================================================
