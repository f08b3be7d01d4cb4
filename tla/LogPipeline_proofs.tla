------------------------- MODULE LogPipeline_proofs -------------------------
(***************************************************************************)
(* The log pipeline for any number of threads, contexts and messages: a    *)
(* context out of the pool has one owner, asynchronous messages reach the  *)
(* file in the order in which they were logged, and workerFileThread keeps *)
(* StopLogger from returning if it is asleep at that time, and never else. *)
(***************************************************************************)
EXTENDS LogPipeline, SequenceTheorems, TLAPS

(* After InitLogger nothing is checked out, queued or written. *)
LEMMA InitInv == Init => PipelineInv
<1> SUFFICES ASSUME Init PROVE PipelineInv
  OBVIOUS
<1> USE PipelineAssumption DEF Thread, Slot
<1>1. TypeOK
  <2>1. << >> \in Seq(Nat) /\ << >> \in Seq(Slot)
    OBVIOUS
  <2>2. /\ inUse \in [Slot -> BOOLEAN] /\ text \in [Slot -> Nat]
        /\ held \in [Thread -> Slot \cup {NoSlot}] /\ msg \in [Thread -> Nat]
    BY DEF Init
  <2>3. pc \in [Thread -> {"idle", "loop"}]
    BY DEF Init
  <2>4. current \in 0 .. PoolSize /\ count \in 0 .. MaxOnce
    BY DEF Init
  <2>5. fpc \in {"test", "done"}
    BY DEF Init
  <2>6. QED BY <2>5, <2>4, <2>3, <2>2, <2>1 DEF Init, TypeOK
<1>2. PoolInv
  BY DEF Init, PoolInv
<1>3. StageInv
  BY DEF Init, StageInv
<1>4. LogInOrder
  <2>1. Queued = << >> /\ InHand = << >>
    BY DEF Init, Queued, Texts, InHand
  <2>2. QED BY <2>1 DEF Init, LogInOrder, Stages
<1>5. QED BY <1>1, <1>2, <1>3, <1>4 DEF PipelineInv

-----------------------------------------------------------------------------
(* Every step of the callers, the workers and StopLogger keeps the types. *)
LEMMA TypeStep ==
  ASSUME TypeOK, PoolInv, [Next]_vars
  PROVE  TypeOK'
<1> USE PipelineAssumption DEF Thread, TypeOK
<1>1. ASSUME NEW c \in Caller, LogMacro(c) PROVE TypeOK'
  BY <1>1 DEF LogMacro, Goto, factoryVars, flags, fileVars
<1>2. ASSUME NEW c \in Caller, GetLogger(c) PROVE TypeOK'
  BY <1>2 DEF GetLogger, Goto, factoryVars, flags, fileVars
<1>3. ASSUME NEW c \in Caller, CheckOut(c) PROVE TypeOK'
  <2> DEFINE i == IF current >= PoolSize THEN 0 ELSE current
  <2>1. i \in Slot /\ i \in 0 .. PoolSize /\ i + 1 \in 0 .. PoolSize
    BY DEF Slot
  <2> HIDE DEF i
  <2>2. CASE inUse[i]
    BY <1>3, <2>1, <2>2 DEF CheckOut, i, factoryVars, flags, fileVars
  <2>3. CASE ~inUse[i]
    <3>1. /\ current' = i + 1 /\ inUse' = [inUse EXCEPT ![i] = TRUE]
          /\ held' = [held EXCEPT ![c] = i] /\ pc' = [pc EXCEPT ![c] = "fill"]
          /\ UNCHANGED <<factoryVars, fileVars, text, logQueue, msg, calls, logged>>
      BY <1>3, <2>3 DEF CheckOut, i, Goto
    <3>2. inUse' \in [Slot -> BOOLEAN] /\ held' \in [Thread -> Slot \cup {NoSlot}]
      BY <3>1, <2>1
    <3>3. current' \in 0 .. PoolSize
      BY <3>1, <2>1
    <3>4. QED BY <3>1, <3>2, <3>3 DEF factoryVars, flags, fileVars
  <2>4. QED BY <2>2, <2>3
<1>4. ASSUME NEW c \in Caller, FormatLog(c) PROVE TypeOK'
  BY <1>4 DEF FormatLog, Goto, factoryVars, flags, fileVars
<1>5. ASSUME NEW c \in Caller, CallWriteData(c) PROVE TypeOK'
  <2>1. held[c] \in Slot
    BY <1>5 DEF CallWriteData, PoolInv
  <2>2. Append(logged, msg[c]) \in Seq(Nat) /\ Append(logQueue, held[c]) \in Seq(Slot)
    BY <2>1
  <2>3. CASE sync
    BY <1>5, <2>2, <2>3 DEF CallWriteData, Goto, factoryVars, flags, fileVars
  <2>4. CASE ~sync
    BY <1>5, <2>2, <2>4 DEF CallWriteData, Goto, factoryVars, flags, fileVars
  <2>5. QED BY <2>3, <2>4
<1>6. ASSUME NEW t \in Thread, WriteData(t) PROVE TypeOK'
  <2>1. held[t] \in Slot
    BY <1>6 DEF WriteData, PoolInv
  <2>2. Append(lines, text[held[t]]) \in Seq(Nat) /\ Append(written, text[held[t]]) \in Seq(Nat)
    BY <2>1
  <2>3. CASE batch
    BY <1>6, <2>2, <2>3 DEF WriteData, Goto, factoryVars, flags
  <2>4. CASE ~batch
    BY <1>6, <2>2, <2>4 DEF WriteData, Goto, factoryVars, flags
  <2>5. QED BY <2>3, <2>4
<1>7. ASSUME NEW t \in Thread, CheckIn(t) PROVE TypeOK'
  BY <1>7, ZenonT(30) DEF CheckIn, Goto, factoryVars, flags, fileVars
<1>8. ASSUME WorkerPop PROVE TypeOK'
  BY <1>8 DEF WorkerPop, Goto, factoryVars, flags, fileVars
<1>9. ASSUME WorkerExit PROVE TypeOK'
  BY <1>9 DEF WorkerExit, Goto, factoryVars, flags, fileVars
<1>10. ASSUME WorkerWrite PROVE TypeOK'
  BY <1>10 DEF WorkerWrite, Goto, factoryVars, flags, fileVars
<1>11. ASSUME FileStep PROVE TypeOK'
  <2>1. ASSUME FileWrite PROVE TypeOK'
    <3>1. Append(written, Head(lines)) \in Seq(Nat) /\ Tail(lines) \in Seq(Nat)
      BY <2>1 DEF FileWrite
    <3>2. count + 1 \in 0 .. MaxOnce
      BY <2>1 DEF FileWrite
    <3>3. QED BY <2>1, <3>1, <3>2 DEF FileWrite, factoryVars, flags
  <2>2. ASSUME FileTest PROVE TypeOK'
    BY <2>2 DEF FileTest, factoryVars, flags
  <2>3. ASSUME FileEnter PROVE TypeOK'
    BY <2>3 DEF FileEnter, flags
  <2>4. ASSUME FileLeave PROVE TypeOK'
    BY <2>4 DEF FileLeave, flags
  <2>5. QED BY <1>11, <2>1, <2>2, <2>3, <2>4 DEF FileStep
<1>12. ASSUME StopBegin \/ StopStep PROVE TypeOK'
  <2>1. << >> \in Seq(Nat)
    OBVIOUS
  <2>2. QED BY <1>12, <2>1 DEF StopBegin, StopStep, JoinWorker, StopEnd, fileVars
<1>13. ASSUME UNCHANGED vars PROVE TypeOK'
  BY <1>13 DEF vars
<1>14. QED BY <1>1, <1>2, <1>3, <1>4, <1>5, <1>6, <1>7, <1>8, <1>9, <1>10, <1>11, <1>12,
             <1>13 DEF Next, CallerStep, WorkerStep

-----------------------------------------------------------------------------
(* No step gives a context a second owner: CheckOut takes a free one,
   CallWriteData and WorkerPop hand one over, CheckIn frees the one it held. *)
LEMMA PoolStep ==
  ASSUME TypeOK, PoolInv, StageInv, [Next]_vars
  PROVE  PoolInv'
<1> USE PipelineAssumption DEF Thread, TypeOK, PoolInv
<1>1. ASSUME NEW c \in Caller, LogMacro(c) \/ GetLogger(c) PROVE PoolInv'
  BY <1>1, SMTT(30) DEF LogMacro, GetLogger, Goto
<1>2. ASSUME NEW c \in Caller, FormatLog(c) PROVE PoolInv'
  BY <1>2 DEF FormatLog, Goto
<1>3. ASSUME NEW c \in Caller, CheckOut(c) PROVE PoolInv'
  <2> DEFINE i == IF current >= PoolSize THEN 0 ELSE current
  <2>1. i \in Slot
    BY DEF Slot
  <2> HIDE DEF i
  <2>2. CASE inUse[i]
    <3>1. UNCHANGED <<inUse, held, pc, logQueue>>
      BY <1>3, <2>2 DEF CheckOut, i
    <3>2. QED BY <3>1
  <2>3. CASE ~inUse[i]
    <3>1. /\ inUse' = [inUse EXCEPT ![i] = TRUE] /\ held' = [held EXCEPT ![c] = i]
          /\ pc' = [pc EXCEPT ![c] = "fill"] /\ logQueue' = logQueue
      BY <1>3, <2>3 DEF CheckOut, i, Goto
    <3>2. QED BY <3>1, <2>1, <2>3
  <2>4. QED BY <2>2, <2>3
<1>5. ASSUME NEW c \in Caller, CallWriteData(c) PROVE PoolInv'
  <2>1. held[c] \in Slot /\ held[c] # NoSlot
    BY <1>5 DEF CallWriteData
  <2>2. CASE sync
    BY <1>5, <2>2 DEF CallWriteData, Goto
  <2>3. CASE ~sync
    <3>1. /\ logQueue' = Append(logQueue, held[c]) /\ held' = [held EXCEPT ![c] = NoSlot]
          /\ pc' = [pc EXCEPT ![c] = "idle"] /\ inUse' = inUse
      BY <1>5, <2>3 DEF CallWriteData, Goto
    <3>2. /\ Len(logQueue') = Len(logQueue) + 1 /\ logQueue'[Len(logQueue) + 1] = held[c]
          /\ \A i \in 1 .. Len(logQueue) : logQueue'[i] = logQueue[i]
      BY <3>1, <2>1
    <3>3. QED BY <3>1, <3>2, <2>1, SMTT(30)
  <2>4. QED BY <2>2, <2>3
<1>6. ASSUME NEW t \in Thread, WriteData(t) PROVE PoolInv'
  BY <1>6 DEF WriteData, Goto
<1>7. ASSUME NEW t \in Thread, CheckIn(t) PROVE PoolInv'
  <2>1. held[t] \in Slot /\ held[t] # NoSlot
    BY <1>7 DEF CheckIn
  <2>2. /\ inUse' = [inUse EXCEPT ![held[t]] = FALSE] /\ held' = [held EXCEPT ![t] = NoSlot]
        /\ logQueue' = logQueue
        /\ pc' = [pc EXCEPT ![t] = IF t # Worker THEN "idle"
                                   ELSE IF isExit THEN "done" ELSE "loop"]
    BY <1>7 DEF CheckIn, Goto
  <2>3. QED BY <2>1, <2>2
<1>8. ASSUME WorkerPop PROVE PoolInv'
  <2>1. /\ logQueue # << >> /\ logQueue' = Tail(logQueue) /\ inUse' = inUse
        /\ held' = [held EXCEPT ![Worker] = logQueue[1]]
        /\ pc' = [pc EXCEPT ![Worker] = "popped"] /\ held[Worker] = NoSlot
    BY <1>8 DEF WorkerPop, Goto
  <2>2. /\ Len(logQueue) \in Nat \ {0} /\ Len(logQueue') = Len(logQueue) - 1
        /\ \A i \in 1 .. Len(logQueue') : logQueue'[i] = logQueue[i + 1] /\ i + 1 \in 1 .. Len(logQueue)
    BY <2>1
  <2>3. 1 \in 1 .. Len(logQueue) /\ logQueue[1] \in Slot
    BY <2>2
  <2>4. QED BY <2>1, <2>2, <2>3
<1>9. ASSUME WorkerExit \/ WorkerWrite PROVE PoolInv'
  BY <1>9 DEF WorkerExit, WorkerWrite, Goto
<1>10. ASSUME FileStep \/ StopBegin \/ StopStep PROVE PoolInv'
  <2>1. UNCHANGED <<inUse, held, pc, logQueue>>
    BY <1>10 DEF FileStep, FileTest, FileEnter, FileWrite, FileLeave, StopBegin, StopStep,
                 JoinWorker, StopEnd
  <2>2. QED BY <2>1
<1>11. ASSUME UNCHANGED vars PROVE PoolInv'
  BY <1>11 DEF vars
<1>12. QED BY <1>1, <1>2, <1>3, <1>5, <1>6, <1>7, <1>8, <1>9, <1>10, <1>11
           DEF Next, CallerStep, WorkerStep

-----------------------------------------------------------------------------
(* Each step leaves the threads and StopLogger where StageInv expects them. *)
LEMMA StageStep ==
  ASSUME TypeOK, PoolInv, StageInv, [Next]_vars
  PROVE  StageInv'
<1> USE PipelineAssumption DEF Thread, StageInv
<1>1. ASSUME NEW c \in Caller, LogMacro(c) \/ GetLogger(c) PROVE StageInv'
  BY <1>1 DEF LogMacro, GetLogger, Goto, factoryVars, flags, fileVars, TypeOK
<1>3. ASSUME NEW c \in Caller, CheckOut(c) PROVE StageInv'
  BY <1>3 DEF CheckOut, Goto, factoryVars, flags, fileVars, TypeOK
<1>4. ASSUME NEW c \in Caller, FormatLog(c) PROVE StageInv'
  <2>1. held[c] \in Slot /\ held[c] # NoSlot
    BY <1>4 DEF FormatLog, PoolInv, TypeOK
  <2>2. \A d \in Caller \ {c} : held[d] # held[c]
    BY <2>1 DEF PoolInv
  <2>3. QED BY <1>4, <2>1, <2>2 DEF FormatLog, Goto, factoryVars, flags, fileVars, TypeOK
<1>5. ASSUME NEW c \in Caller, CallWriteData(c) PROVE StageInv'
  BY <1>5 DEF CallWriteData, Goto, factoryVars, flags, fileVars, TypeOK
<1>6. ASSUME NEW t \in Thread, WriteData(t) PROVE StageInv'
  BY <1>6 DEF WriteData, Goto, factoryVars, flags, fileVars, TypeOK
<1>7. ASSUME NEW t \in Thread, CheckIn(t) PROVE StageInv'
  BY <1>7 DEF CheckIn, Goto, factoryVars, flags, fileVars, TypeOK
<1>8. ASSUME WorkerPop PROVE StageInv'
  BY <1>8 DEF WorkerPop, Goto, factoryVars, flags, fileVars, TypeOK
<1>9. ASSUME WorkerExit \/ WorkerWrite PROVE StageInv'
  <2>1. ASSUME WorkerExit PROVE StageInv'
    BY <2>1 DEF WorkerExit, Goto, factoryVars, flags, fileVars, TypeOK
  <2>2. ASSUME WorkerWrite PROVE StageInv'
    BY <2>2 DEF WorkerWrite, Goto, factoryVars, flags, fileVars, TypeOK
  <2>3. QED BY <1>9, <2>1, <2>2
<1>10. ASSUME FileStep PROVE StageInv'
  <2>1. /\ UNCHANGED <<flags, pc, held, msg, text>> /\ batch
        /\ spc # "stopped"
    BY <1>10 DEF FileStep, FileTest, FileEnter, FileWrite, FileLeave, factoryVars, flags, TypeOK
  <2>2. QED BY <2>1 DEF flags
<1>11. ASSUME StopBegin \/ StopStep PROVE StageInv'
  BY <1>11 DEF StopBegin, StopStep, JoinWorker, StopEnd, fileVars, TypeOK
<1>12. ASSUME UNCHANGED vars PROVE StageInv'
  BY <1>12 DEF vars
<1>13. QED BY <1>1, <1>3, <1>4, <1>5, <1>6, <1>7, <1>8, <1>9, <1>10, <1>11, <1>12
           DEF Next, CallerStep, WorkerStep

-----------------------------------------------------------------------------
(* Two runs of messages one after the other are a run of messages. *)
LEMMA Closed == \A a, b \in Seq(Nat) : a \o b \in Seq(Nat)
BY ConcatProperties

(* How three runs of messages are grouped does not matter. *)
LEMMA Assoc == \A a, b, c \in Seq(Nat) : (a \o b) \o c = a \o (b \o c)
BY ConcatAssociative

(* An empty stage adds nothing. *)
LEMMA NoneAfter == \A a \in Seq(Nat) : a \o << >> = a
BY ConcatEmptySeq

(* Push (cmnWinUtils.h:76) puts one message after the others. *)
LEMMA OneAfter ==
  \A a \in Seq(Nat), x \in Nat : Append(a, x) = a \o <<x>> /\ <<x>> \in Seq(Nat)
BY AppendIsConcat

(* The front of a queue and the rest. *)
LEMMA FrontAndRest ==
  ASSUME NEW b \in Seq(Nat), b # << >>
  PROVE  b = <<Head(b)>> \o Tail(b) /\ Head(b) \in Nat /\ Tail(b) \in Seq(Nat)
<1>1. <<Head(b)>> \in Seq(Nat) /\ Tail(b) \in Seq(Nat)
  OBVIOUS
<1>2. Len(b) = Len(<<Head(b)>> \o Tail(b))
  BY <1>1, ConcatProperties, HeadTailProperties
<1>3. \A i \in 1 .. Len(b) : b[i] = (<<Head(b)>> \o Tail(b))[i]
  BY <1>1, ConcatProperties, HeadTailProperties
<1>4. QED BY <1>1, <1>2, <1>3, SeqEqual, ConcatProperties

(* The beginning of a log is a prefix of it. *)
LEMMA PrefixOfConcat ==
  ASSUME NEW a \in Seq(Nat), NEW b \in Seq(Nat)
  PROVE  IsPrefix(a, a \o b)
<1>1. Len(a) <= Len(a \o b) /\ Len(a) \in Nat
  BY ConcatProperties
<1>2. CASE Len(a) = 0
  BY <1>1, <1>2, SubSeqEmpty DEF IsPrefix
<1>3. CASE Len(a) > 0
  BY <1>1, <1>3, SubSeqOfConcat1 DEF IsPrefix
<1>4. QED BY <1>1, <1>2, <1>3

(* File (w), file queue (l), workerThread's hand (h) and queue (q) hold the
   same messages in the same order when workerThread pops a message x ... *)
LEMMA MoveToHand ==
  \A w, l, q \in Seq(Nat), x \in Nat :
    Stages(w, l, <<x>>, q) = Stages(w, l, << >>, <<x>> \o q)
<1> TAKE w, l, q \in Seq(Nat), x \in Nat
<1> DEFINE a == w \o l
           b == <<x>>
<1>1. a \in Seq(Nat) /\ b \in Seq(Nat)
  BY Closed, OneAfter
<1> HIDE DEF a, b
<1>2. (a \o b) \o q = a \o (b \o q) /\ a \o << >> = a
  BY <1>1, Assoc, NoneAfter, SMTT(30)
<1>3. QED BY <1>2 DEF a, b, Stages

(* ... writes it into the file's queue (cmnLogger.cpp:193) ... *)
LEMMA MoveToLines ==
  \A w, l, q \in Seq(Nat), x \in Nat :
    Stages(w, Append(l, x), << >>, q) = Stages(w, l, <<x>>, q)
<1> TAKE w, l, q \in Seq(Nat), x \in Nat
<1> DEFINE b == <<x>>
<1>1. b \in Seq(Nat) /\ Append(l, x) = l \o b
  BY OneAfter
<1> HIDE DEF b
<1>2. w \o (l \o b) = (w \o l) \o b
  BY <1>1, Assoc
<1>3. (w \o (l \o b)) \o << >> = w \o (l \o b)
  BY <1>1, Closed, NoneAfter
<1>4. QED BY <1>1, <1>2, <1>3 DEF b, Stages

(* ... or into the file (cmnLogger.cpp:206), when there is no file queue ... *)
LEMMA MoveToFile ==
  \A w, q \in Seq(Nat), x \in Nat :
    Stages(Append(w, x), << >>, << >>, q) = Stages(w, << >>, <<x>>, q)
<1> TAKE w, q \in Seq(Nat), x \in Nat
<1> DEFINE a == Append(w, x)
<1>1. a \in Seq(Nat) /\ a = w \o <<x>>
  BY OneAfter
<1>2. w \o << >> = w
  BY NoneAfter
<1> HIDE DEF a
<1>3. (a \o << >>) \o << >> = a
  BY <1>1, NoneAfter
<1>4. QED BY <1>1, <1>2, <1>3 DEF a, Stages

(* ... and when workerFileThread takes it from there (cmnLogger.cpp:812). *)
LEMMA MoveFromLines ==
  \A w, l, h, q \in Seq(Nat), x \in Nat :
    Stages(Append(w, x), l, h, q) = Stages(w, <<x>> \o l, h, q)
<1> TAKE w, l, h, q \in Seq(Nat), x \in Nat
<1> DEFINE b == <<x>>
<1>1. b \in Seq(Nat) /\ Append(w, x) = w \o b
  BY OneAfter
<1> HIDE DEF b
<1>2. (w \o b) \o l = w \o (b \o l)
  BY <1>1, Assoc
<1>3. QED BY <1>1, <1>2 DEF b, Stages

(* What is in the file comes before all that is still on its way when
   StopLogger comes. *)
LEMMA FileFirst ==
  \A w, l, h, q \in Seq(Nat) : \E r \in Seq(Nat) : Stages(w, l, h, q) = w \o r
<1> TAKE w, l, h, q \in Seq(Nat)
<1> DEFINE a == w \o l
           b == h \o q
<1>1. a \in Seq(Nat) /\ b \in Seq(Nat)
  BY Closed
<1>2. (a \o h) \o q = a \o b
  BY <1>1, Assoc, SMTT(60)
<1> HIDE DEF b
<1>3. (w \o l) \o b = w \o (l \o b) /\ l \o b \in Seq(Nat)
  BY <1>1, Assoc, Closed, SMTT(30)
<1>4. Stages(w, l, h, q) = w \o (l \o b)
  BY <1>2, <1>3 DEF b, Stages
<1>5. QED BY <1>3, <1>4

(* The texts of the queued contexts are a queue themselves: one is appended
   with a context (Push) and taken away with it (Try_and_pop). *)
LEMMA TextsFacts ==
  ASSUME NEW q \in Seq(Slot), NEW tx \in [Slot -> Nat]
  PROVE  /\ Texts(q, tx) \in Seq(Nat)
         /\ \A s \in Slot : Texts(Append(q, s), tx) = Append(Texts(q, tx), tx[s])
         /\ q # << >> => Texts(q, tx) = <<tx[Head(q)]>> \o Texts(Tail(q), tx)
<1> DEFINE T(r) == Texts(r, tx)
<1>1. ASSUME NEW r \in Seq(Slot)
      PROVE  /\ T(r) \in Seq(Nat) /\ Len(T(r)) = Len(r)
             /\ \A i \in 1 .. Len(r) : T(r)[i] = tx[r[i]]
  <2>1. Len(r) \in Nat /\ \A i \in 1 .. Len(r) : tx[r[i]] \in Nat
    OBVIOUS
  <2>2. QED BY <2>1 DEF Texts
<1>2. ASSUME NEW s \in Slot PROVE T(Append(q, s)) = Append(T(q), tx[s])
  <2>1. Append(q, s) \in Seq(Slot) /\ Append(T(q), tx[s]) \in Seq(Nat)
    BY <1>1
  <2>2. Len(T(Append(q, s))) = Len(q) + 1 /\ Len(Append(T(q), tx[s])) = Len(q) + 1
        /\ T(Append(q, s)) \in Seq(Nat)
        /\ \A i \in 1 .. Len(q) + 1 : T(Append(q, s))[i] = tx[Append(q, s)[i]]
    <3>1. Len(Append(q, s)) = Len(q) + 1
      OBVIOUS
    <3>2. /\ T(Append(q, s)) \in Seq(Nat) /\ Len(T(Append(q, s))) = Len(Append(q, s))
          /\ \A i \in 1 .. Len(Append(q, s)) : T(Append(q, s))[i] = tx[Append(q, s)[i]]
      BY <1>1, <2>1, Zenon
    <3>3. T(q) \in Seq(Nat) /\ Len(T(q)) = Len(q)
      BY <1>1, Zenon
    <3>4. Len(Append(T(q), tx[s])) = Len(q) + 1
      BY <3>3
    <3>5. QED BY <3>1, <3>2, <3>4
  <2>3. \A i \in 1 .. Len(q) + 1 : T(Append(q, s))[i] = Append(T(q), tx[s])[i]
    BY <1>1, <2>2
  <2>4. QED BY <2>1, <2>2, <2>3, SeqEqual
<1>3. ASSUME q # << >> PROVE T(q) = <<tx[Head(q)]>> \o T(Tail(q))
  <2>1. /\ Tail(q) \in Seq(Slot) /\ Len(q) \in Nat \ {0} /\ Len(Tail(q)) = Len(q) - 1
        /\ \A i \in 1 .. Len(q) - 1 : Tail(q)[i] = q[i + 1]
        /\ Head(q) = q[1] /\ Head(q) \in Slot
    BY <1>3
  <2>2. /\ <<tx[Head(q)]>> \in Seq(Nat) /\ Len(<<tx[Head(q)]>>) = 1
        /\ <<tx[Head(q)]>>[1] = tx[q[1]]
    BY <2>1
  <2>3. T(Tail(q)) \in Seq(Nat) /\ Len(T(Tail(q))) = Len(q) - 1
        /\ \A i \in 1 .. Len(q) - 1 : T(Tail(q))[i] = tx[q[i + 1]]
    <3>1. /\ T(Tail(q)) \in Seq(Nat) /\ Len(T(Tail(q))) = Len(Tail(q))
          /\ \A i \in 1 .. Len(Tail(q)) : T(Tail(q))[i] = tx[Tail(q)[i]]
      BY <1>1, <2>1, Zenon
    <3>2. QED BY <2>1, <3>1
  <2>4. /\ <<tx[Head(q)]>> \o T(Tail(q)) \in Seq(Nat)
        /\ Len(<<tx[Head(q)]>> \o T(Tail(q))) = Len(q)
        /\ \A i \in 1 .. Len(q) : (<<tx[Head(q)]>> \o T(Tail(q)))[i] =
                IF i <= 1 THEN <<tx[Head(q)]>>[i] ELSE T(Tail(q))[i - 1]
    <3> DEFINE a == <<tx[Head(q)]>>
               b == T(Tail(q))
    <3>1. a \in Seq(Nat) /\ b \in Seq(Nat) /\ Len(a) = 1 /\ Len(b) = Len(q) - 1
      BY <2>2, <2>3
    <3> HIDE DEF a, b
    <3>2. /\ a \o b \in Seq(Nat) /\ Len(a \o b) = Len(a) + Len(b)
          /\ \A i \in 1 .. Len(a) + Len(b) :
                 (a \o b)[i] = IF i <= Len(a) THEN a[i] ELSE b[i - Len(a)]
      BY <3>1, ConcatProperties, Zenon
    <3>3. 1 + (Len(q) - 1) = Len(q)
      BY <2>1
    <3>4. /\ a \o b \in Seq(Nat) /\ Len(a \o b) = Len(q)
          /\ \A i \in 1 .. Len(q) : (a \o b)[i] = IF i <= 1 THEN a[i] ELSE b[i - 1]
      BY <3>1, <3>2, <3>3
    <3>5. QED BY <3>4 DEF a, b
  <2>5. ASSUME NEW i \in 1 .. Len(q)
        PROVE  T(q)[i] = (<<tx[Head(q)]>> \o T(Tail(q)))[i]
    <3>1. CASE i = 1
      <4>1. T(q)[1] = tx[q[1]]
        BY <1>1, <2>1
      <4>2. QED BY <3>1, <4>1, <2>1, <2>2, <2>4
    <3>2. CASE i # 1
      <4>1. i - 1 \in 1 .. Len(q) - 1 /\ (i - 1) + 1 = i
        BY <3>2, <2>1
      <4>2. T(Tail(q))[i - 1] = tx[q[i]]
        BY <4>1, <2>3
      <4>3. T(q)[i] = tx[q[i]]
        BY <1>1
      <4>4. (<<tx[Head(q)]>> \o T(Tail(q)))[i] = T(Tail(q))[i - 1]
        BY <3>2, <2>4
      <4>5. QED BY <4>2, <4>3, <4>4
    <3>3. QED BY <3>1, <3>2
  <2>6. T(q) \in Seq(Nat) /\ Len(T(q)) = Len(q)
    BY <1>1, Zenon
  <2>7. QED BY <2>4, <2>5, <2>6, SeqEqual, Zenon
<1>4. QED BY <1>1, <1>2, <1>3

(* Only a step that touches a stage of the pipeline changes what it holds. *)
LEMMA StagesKept ==
  ASSUME UNCHANGED <<logQueue, text>>
  PROVE  Queued' = Queued
BY DEF Queued

(* Each step moves at most one message one stage on, or adds one at the end;
   StopLogger cuts the end off. *)
LEMMA OrderStep ==
  ASSUME TypeOK, PoolInv, StageInv, LogInOrder, TypeOK', PoolInv', [Next]_vars
  PROVE  LogInOrder'
<1> SUFFICES ASSUME ~sync, sync' = sync
             PROVE  LogInOrder'
  <2>1. sync' = sync
    BY DEF Next, CallerStep, WorkerStep, FileStep, StopStep, LogMacro, GetLogger, CheckOut,
           FormatLog, CallWriteData, WriteData, CheckIn, WorkerPop, WorkerExit, WorkerWrite,
           FileTest, FileEnter, FileWrite, FileLeave, StopBegin, JoinWorker, StopEnd,
           factoryVars, flags, vars
  <2>2. QED BY <2>1 DEF LogInOrder
<1> USE PipelineAssumption
<1>0. /\ written \in Seq(Nat) /\ lines \in Seq(Nat) /\ logged \in Seq(Nat)
      /\ InHand \in Seq(Nat) /\ Queued \in Seq(Nat)
      /\ logQueue \in Seq(Slot) /\ text \in [Slot -> Nat]
  <2>1. held[Worker] # NoSlot => text[held[Worker]] \in Nat
    BY DEF TypeOK, Thread
  <2>2. InHand \in Seq(Nat)
    BY <2>1 DEF InHand, PoolInv, Thread
  <2>3. QED BY <2>2, TextsFacts DEF TypeOK, Queued
<1>1. ASSUME NEW c \in Caller, LogMacro(c) \/ GetLogger(c) \/ CheckOut(c) PROVE LogInOrder'
  <2>1. UNCHANGED <<logQueue, text, written, lines, logged, spc, pc[Worker], held[Worker]>>
    BY <1>1 DEF LogMacro, GetLogger, CheckOut, Goto, factoryVars, flags, fileVars, TypeOK, Thread
  <2>2. Queued' = Queued /\ InHand' = InHand
    BY <2>1, StagesKept DEF InHand
  <2>3. QED BY <2>1, <2>2 DEF LogInOrder
<1>2. ASSUME NEW c \in Caller, FormatLog(c) PROVE LogInOrder'
  <2>1. /\ UNCHANGED <<logQueue, written, lines, logged, spc, held, pc[Worker]>>
        /\ text' = [text EXCEPT ![held[c]] = msg[c]] /\ held[c] # NoSlot
        /\ held[c] # held[Worker]
    BY <1>2 DEF FormatLog, Goto, factoryVars, flags, fileVars, TypeOK, PoolInv, Thread
  <2>2. \A i \in 1 .. Len(logQueue) : text'[logQueue[i]] = text[logQueue[i]]
    BY <2>1 DEF TypeOK, PoolInv, Thread
  <2>3. Queued' = Queued
    BY <2>1, <2>2 DEF Queued, Texts
  <2>4. InHand' = InHand
    BY <2>1 DEF InHand, TypeOK, PoolInv, Thread
  <2>5. QED BY <2>1, <2>3, <2>4 DEF LogInOrder
<1>3. ASSUME NEW c \in Caller, CallWriteData(c) PROVE LogInOrder'
  <2>1. /\ logQueue' = Append(logQueue, held[c]) /\ logged' = Append(logged, msg[c])
        /\ UNCHANGED <<text, written, lines, spc, pc[Worker], held[Worker]>>
        /\ text[held[c]] = msg[c] /\ msg[c] \in Nat /\ held[c] \in Slot
        /\ spc = "running"
    BY <1>3 DEF CallWriteData, Goto, factoryVars, flags, fileVars, TypeOK, PoolInv, StageInv,
                Thread
  <2>2. InHand' = InHand
    BY <2>1 DEF InHand
  <2>3. Queued' = Append(Queued, msg[c])
    <3>1. Texts(Append(logQueue, held[c]), text) = Append(Texts(logQueue, text), text[held[c]])
      BY <1>0, <2>1, TextsFacts
    <3>2. QED BY <2>1, <3>1 DEF Queued
  <2>4. Stages(written, lines, InHand, Queued') = logged'
    <3> DEFINE b == <<msg[c]>>
    <3>1. b \in Seq(Nat) /\ Queued' = Queued \o b /\ logged' = logged \o b
      BY <1>0, <2>1, <2>3, OneAfter
    <3> HIDE DEF b
    <3>2. Stages(written, lines, InHand, Queued \o b)
            = Stages(written, lines, InHand, Queued) \o b
      <4> DEFINE a == (written \o lines) \o InHand
      <4>1. a \in Seq(Nat)
        BY <1>0, Closed
      <4> HIDE DEF a
      <4>2. (a \o Queued) \o b = a \o (Queued \o b)
        <5>1. Queued \in Seq(Nat) /\ b \in Seq(Nat)
          BY <1>0, <3>1
        <5>2. QED BY <4>1, <5>1, Assoc
      <4>3. QED BY <4>2 DEF a, Stages
    <3>3. Stages(written, lines, InHand, Queued) = logged
      BY <2>1 DEF LogInOrder
    <3>4. QED BY <3>1, <3>2, <3>3
  <2>5. QED BY <2>1, <2>2, <2>4 DEF LogInOrder
<1>4. ASSUME WriteData(Worker) PROVE LogInOrder'
  <2> DEFINE x == text[held[Worker]]
  <2>1. /\ x \in Nat /\ InHand = <<x>> /\ InHand' = << >>
        /\ UNCHANGED <<logQueue, text, logged, spc>> /\ spc # "stopped"
    BY <1>4 DEF WriteData, Goto, InHand, TypeOK, PoolInv, StageInv, factoryVars, flags, Thread
  <2>2. Queued' = Queued
    BY <2>1, StagesKept
  <2>3. Stages(written', lines', InHand', Queued) = Stages(written, lines, InHand, Queued)
    <3>1. CASE batch
      <4>1. written' = written /\ lines' = Append(lines, x)
        BY <1>4, <3>1 DEF WriteData
      <4>2. QED BY <4>1, <2>1, <1>0, MoveToLines
    <3>2. CASE ~batch
      <4>1. written' = Append(written, x) /\ lines' = << >> /\ lines = << >>
        BY <1>4, <3>2 DEF WriteData, StageInv
      <4>2. QED BY <4>1, <2>1, <1>0, MoveToFile
    <3>3. QED BY <3>1, <3>2
  <2>4. QED BY <2>1, <2>2, <2>3 DEF LogInOrder
<1>5. ASSUME CheckIn(Worker) \/ WorkerExit \/ WorkerWrite PROVE LogInOrder'
  <2>1. UNCHANGED <<logQueue, text, written, lines, logged, spc>>
    BY <1>5 DEF CheckIn, WorkerExit, WorkerWrite, factoryVars, flags, fileVars
  <2>2. Queued' = Queued
    BY <2>1, StagesKept
  <2>3. InHand' = InHand
    <3>1. CASE CheckIn(Worker)
      BY <3>1, <2>1 DEF CheckIn, Goto, InHand, TypeOK, Thread
    <3>2. CASE WorkerExit
      BY <3>2, <2>1 DEF WorkerExit, Goto, InHand, TypeOK, PoolInv, Thread
    <3>3. CASE WorkerWrite
      BY <3>3, <2>1 DEF WorkerWrite, Goto, InHand, TypeOK, Thread
    <3>4. QED BY <1>5, <3>1, <3>2, <3>3
  <2>4. QED BY <2>1, <2>2, <2>3 DEF LogInOrder
<1>6. ASSUME WorkerPop PROVE LogInOrder'
  <2>1. /\ logQueue # << >> /\ logQueue' = Tail(logQueue) /\ Head(logQueue) \in Slot
        /\ InHand = << >> /\ InHand' = <<text[Head(logQueue)]>>
        /\ UNCHANGED <<text, written, lines, logged, spc>> /\ spc # "stopped"
    BY <1>6 DEF WorkerPop, Goto, InHand, TypeOK, PoolInv, StageInv, factoryVars, flags, fileVars,
                Thread
  <2>2. Queued = InHand' \o Queued' /\ Queued' \in Seq(Nat) /\ text[Head(logQueue)] \in Nat
    <3>1. Tail(logQueue) \in Seq(Slot)
      BY <1>0, <2>1
    <3>2. QED BY <1>0, <2>1, <3>1, TextsFacts DEF Queued
  <2>3. Stages(written, lines, InHand', Queued') = Stages(written, lines, InHand, Queued)
    BY <1>0, <2>1, <2>2, MoveToHand
  <2>4. QED BY <2>1, <2>3 DEF LogInOrder
<1>7. ASSUME FileStep PROVE LogInOrder'
  <2>1. /\ UNCHANGED <<logQueue, text, logged, spc, pc, held>>
        /\ \/ UNCHANGED <<lines, written>>
           \/ /\ lines # << >> /\ written' = Append(written, Head(lines))
              /\ lines' = Tail(lines) /\ fpc = "drain"
    BY <1>7 DEF FileStep, FileTest, FileEnter, FileWrite, FileLeave, factoryVars, flags
  <2>2. Queued' = Queued /\ InHand' = InHand
    BY <2>1, StagesKept DEF InHand
  <2>3. CASE UNCHANGED <<lines, written>>
    BY <2>1, <2>2, <2>3 DEF LogInOrder
  <2>4. CASE ~UNCHANGED <<lines, written>>
    <3>1. spc # "stopped"
      BY <2>1, <2>4 DEF StageInv
    <3>2. Stages(written', lines', InHand, Queued) = Stages(written, lines, InHand, Queued)
      <4>1. lines = <<Head(lines)>> \o Tail(lines) /\ Head(lines) \in Nat /\ Tail(lines) \in Seq(Nat)
        BY <1>0, <2>1, <2>4, FrontAndRest
      <4>2. Stages(Append(written, Head(lines)), Tail(lines), InHand, Queued)
              = Stages(written, <<Head(lines)>> \o Tail(lines), InHand, Queued)
        <5>1. \A w, l \in Seq(Nat) : Stages(Append(w, Head(lines)), l, InHand, Queued)
                                    = Stages(w, <<Head(lines)>> \o l, InHand, Queued)
          BY <1>0, <4>1, MoveFromLines, SMTT(30)
        <5>2. QED BY <1>0, <4>1, <5>1, Zenon
      <4>3. QED BY <2>1, <2>4, <4>1, <4>2
    <3>3. QED BY <2>1, <2>2, <3>1, <3>2 DEF LogInOrder
  <2>5. QED BY <2>3, <2>4
<1>8. ASSUME StopBegin \/ JoinWorker PROVE LogInOrder'
  <2>1. /\ UNCHANGED <<logQueue, text, written, lines, logged, pc, held>>
        /\ spc # "stopped" /\ spc' # "stopped"
    BY <1>8 DEF StopBegin, JoinWorker, fileVars
  <2>2. Queued' = Queued /\ InHand' = InHand
    BY <2>1, StagesKept DEF InHand
  <2>3. QED BY <2>1, <2>2 DEF LogInOrder
<1>9. ASSUME StopEnd PROVE LogInOrder'
  <2>1. /\ UNCHANGED <<written, logged>> /\ spc' = "stopped"
        /\ Stages(written, lines, InHand, Queued) = logged
    BY <1>9 DEF StopEnd, LogInOrder
  <2>2. PICK r \in Seq(Nat) : logged = written \o r
    <3>1. \E r \in Seq(Nat) : Stages(written, lines, InHand, Queued) = written \o r
      BY <1>0, FileFirst, ZenonT(30)
    <3>2. QED BY <2>1, <3>1, Zenon
  <2>3. QED BY <1>0, <2>1, <2>2, PrefixOfConcat DEF LogInOrder
<1>10. ASSUME NEW c \in Caller, WriteData(c) \/ CheckIn(c) PROVE FALSE
  BY <1>10 DEF StageInv, WriteData, CheckIn
<1>11. ASSUME UNCHANGED vars PROVE LogInOrder'
  BY <1>11 DEF vars, LogInOrder, InHand, Queued, Texts
<1>12. QED BY <1>1, <1>2, <1>3, <1>4, <1>5, <1>6, <1>7, <1>8, <1>9, <1>10, <1>11
           DEF Next, CallerStep, WorkerStep, StopStep

-----------------------------------------------------------------------------
(* A context has one owner at every moment, so that no message is overwritten
   while it waits to be written, and the stages hold what was logged in its
   order (CRoundRobinAllocator, CSharedQueue, workerThread, workerFileThread). *)
THEOREM Invariance == Spec => []PipelineInv
<1>1. PipelineInv /\ [Next]_vars => PipelineInv'
  BY TypeStep, PoolStep, StageStep, OrderStep DEF PipelineInv
<1>2. QED BY InitInv, <1>1, PTL DEF Spec

(* Asynchronous messages reach the file in the order in which they were
   logged, none lost while the logger runs and only the last ones lost when
   StopLogger ends it. *)
THEOREM LogOrdered == Spec => []LogInOrder
<1>1. PipelineInv => LogInOrder
  BY DEF PipelineInv
<1>2. QED BY Invariance, <1>1, PTL

-----------------------------------------------------------------------------
(* A thread has the context, or it is queued for workerThread. *)
Owned(i) == (\E t \in Thread : held[t] = i) \/ (\E j \in 1 .. Len(logQueue) : logQueue[j] = i)
AllOwned == \A i \in Slot : inUse[i] => Owned(i)

LEMMA OwnedStep ==
  ASSUME TypeOK, PoolInv, AllOwned, [Next]_vars
  PROVE  AllOwned'
<1> USE PipelineAssumption DEF Thread, TypeOK
<1>1. ASSUME UNCHANGED <<inUse, held, logQueue>> PROVE AllOwned'
  BY <1>1 DEF AllOwned, Owned
<1>2. ASSUME NEW c \in Caller, LogMacro(c) \/ GetLogger(c) \/ FormatLog(c) PROVE AllOwned'
  BY <1>1, <1>2 DEF LogMacro, GetLogger, FormatLog
<1>3. ASSUME NEW c \in Caller, CheckOut(c) PROVE AllOwned'
  <2> DEFINE i == IF current >= PoolSize THEN 0 ELSE current
  <2>1. i \in Slot
    BY DEF Slot
  <2> HIDE DEF i
  <2>2. CASE inUse[i]
    BY <1>1, <1>3, <2>2 DEF CheckOut, i
  <2>3. CASE ~inUse[i]
    <3>1. /\ inUse' = [inUse EXCEPT ![i] = TRUE] /\ held' = [held EXCEPT ![c] = i]
          /\ logQueue' = logQueue /\ held[c] = NoSlot
      BY <1>3, <2>3 DEF CheckOut, i, PoolInv
    <3>2. ASSUME NEW k \in Slot, inUse'[k] PROVE Owned(k)'
      <4>1. CASE k = i
        BY <2>1, <3>1, <4>1 DEF Owned
      <4>2. CASE k # i
        <5>1. Owned(k)
          BY <2>1, <3>1, <3>2, <4>2 DEF AllOwned
        <5>2. \A t \in Thread : held[t] = k => held'[t] = k
          BY <3>1, <4>2
        <5>3. QED BY <3>1, <5>1, <5>2 DEF Owned
      <4>3. QED BY <4>1, <4>2
    <3>3. QED BY <3>2 DEF AllOwned
  <2>4. QED BY <2>2, <2>3
<1>4. ASSUME NEW c \in Caller, CallWriteData(c) PROVE AllOwned'
  <2>1. CASE sync
    BY <1>1, <1>4, <2>1 DEF CallWriteData
  <2>2. CASE ~sync
    <3>1. /\ logQueue' = Append(logQueue, held[c]) /\ held' = [held EXCEPT ![c] = NoSlot]
          /\ inUse' = inUse /\ held[c] \in Slot
      BY <1>4, <2>2 DEF CallWriteData, PoolInv
    <3>2. /\ Len(logQueue) \in Nat /\ Len(logQueue') = Len(logQueue) + 1
          /\ logQueue'[Len(logQueue) + 1] = held[c]
          /\ \A j \in 1 .. Len(logQueue) : logQueue'[j] = logQueue[j] /\ j \in 1 .. Len(logQueue')
      BY <3>1
    <3>3. Len(logQueue) + 1 \in 1 .. Len(logQueue')
      BY <3>2
    <3>4. ASSUME NEW k \in Slot, Owned(k) PROVE Owned(k)'
      <4>1. CASE held[c] = k
        BY <3>2, <3>3, <4>1 DEF Owned
      <4>2. ASSUME NEW t \in Thread, t # c, held[t] = k PROVE Owned(k)'
        BY <3>1, <4>2 DEF Owned
      <4>3. ASSUME NEW j \in 1 .. Len(logQueue), logQueue[j] = k PROVE Owned(k)'
        BY <3>2, <4>3 DEF Owned
      <4>4. QED BY <3>4, <4>1, <4>2, <4>3 DEF Owned
    <3>5. QED BY <3>1, <3>4 DEF AllOwned
  <2>3. QED BY <2>1, <2>2
<1>5. ASSUME NEW t \in Thread, WriteData(t) PROVE AllOwned'
  BY <1>1, <1>5 DEF WriteData
<1>6. ASSUME NEW t \in Thread, CheckIn(t) PROVE AllOwned'
  <2>1. /\ inUse' = [inUse EXCEPT ![held[t]] = FALSE] /\ held' = [held EXCEPT ![t] = NoSlot]
        /\ logQueue' = logQueue /\ held[t] \in Slot
    BY <1>6 DEF CheckIn, PoolInv
  <2>2. ASSUME NEW k \in Slot, inUse'[k] PROVE Owned(k)'
    <3>1. k # held[t] /\ Owned(k)
      BY <2>1, <2>2 DEF AllOwned
    <3>2. \A u \in Thread : held[u] = k => held'[u] = k
      BY <2>1, <3>1
    <3>3. QED BY <2>1, <3>1, <3>2 DEF Owned
  <2>3. QED BY <2>2 DEF AllOwned
<1>7. ASSUME WorkerPop PROVE AllOwned'
  <2>1. /\ logQueue # << >> /\ logQueue' = Tail(logQueue) /\ inUse' = inUse
        /\ held' = [held EXCEPT ![Worker] = logQueue[1]] /\ held[Worker] = NoSlot
    BY <1>7 DEF WorkerPop, PoolInv
  <2>2. /\ Len(logQueue) \in Nat \ {0} /\ Len(logQueue') = Len(logQueue) - 1
        /\ \A j \in 1 .. Len(logQueue') : logQueue'[j] = logQueue[j + 1]
    BY <2>1
  <2>3. ASSUME NEW k \in Slot, Owned(k) PROVE Owned(k)'
    <3>1. ASSUME NEW t \in Thread, held[t] = k PROVE Owned(k)'
      BY <2>1, <3>1 DEF Owned
    <3>2. ASSUME NEW j \in 1 .. Len(logQueue), logQueue[j] = k PROVE Owned(k)'
      <4>1. CASE j = 1
        BY <2>1, <3>2, <4>1 DEF Owned
      <4>2. CASE j # 1
        <5>1. j - 1 \in 1 .. Len(logQueue') /\ (j - 1) + 1 = j
          BY <2>2, <4>2
        <5>2. logQueue'[j - 1] = k
          BY <2>2, <3>2, <5>1
        <5>3. QED BY <5>1, <5>2 DEF Owned
      <4>3. QED BY <4>1, <4>2
    <3>3. QED BY <2>3, <3>1, <3>2 DEF Owned
  <2>4. QED BY <2>1, <2>3 DEF AllOwned
<1>8. ASSUME WorkerExit \/ WorkerWrite PROVE AllOwned'
  BY <1>1, <1>8 DEF WorkerExit, WorkerWrite
<1>9. ASSUME FileStep \/ StopBegin \/ StopStep PROVE AllOwned'
  BY <1>1, <1>9 DEF FileStep, FileTest, FileEnter, FileWrite, FileLeave, StopBegin, StopStep,
     JoinWorker, StopEnd
<1>10. ASSUME UNCHANGED vars PROVE AllOwned'
  BY <1>1, <1>10 DEF vars
<1>11. QED BY <1>2, <1>3, <1>4, <1>5, <1>6, <1>7, <1>8, <1>9, <1>10
           DEF Next, CallerStep, WorkerStep

(* No context leaks: one that is out of the pool is in the hands of a thread or
   in the queue, so that a CheckOut whose turn is a context in use waits for a
   thread that has it or is to take it; the safety half of CallReturns. *)
THEOREM NoContextLeaks == Spec => []AllOwned
<1>1. Init => AllOwned
  BY DEF Init, AllOwned
<1>2. PipelineInv /\ AllOwned /\ [Next]_vars => AllOwned'
  BY OwnedStep DEF PipelineInv
<1>3. QED BY <1>1, <1>2, Invariance, PTL DEF Spec

-----------------------------------------------------------------------------
(* StopLogger is under way, inside _csFactory. *)
Stopping == spc \in {"join", "joinfile"}

(* _csFactory has one owner: workerFileThread while it writes, StopLogger from
   its beginning to its end (cmnLogger.cpp:713, 808). *)
FactoryInv ==
  /\ fpc = "drain" <=> factory = FileWorker
  /\ Stopping <=> factory = Stopper
  /\ spc # "running" => isExit

LEMMA FactoryInvariance == Spec => []FactoryInv
<1> USE PipelineAssumption DEF FactoryInv, Stopping
<1>1. Init => FactoryInv
  BY DEF Init
<1>2. PipelineInv /\ FactoryInv /\ [Next]_vars => FactoryInv'
  <2> SUFFICES ASSUME PipelineInv, FactoryInv, [Next]_vars PROVE FactoryInv'
    OBVIOUS
  <2>1. ASSUME UNCHANGED <<factoryVars, fpc>> PROVE FactoryInv'
    BY <2>1 DEF factoryVars, flags
  <2>2. ASSUME NEW c \in Caller, LogMacro(c) \/ CallerStep(c) PROVE FactoryInv'
    BY <2>1, <2>2 DEF LogMacro, CallerStep, GetLogger, CheckOut, FormatLog, CallWriteData,
       WriteData, CheckIn, fileVars
  <2>3. ASSUME WorkerStep PROVE FactoryInv'
    BY <2>1, <2>3 DEF WorkerStep, WorkerPop, WorkerExit, WorkerWrite, WriteData, CheckIn, fileVars
  <2>4. ASSUME FileStep PROVE FactoryInv'
    BY <2>4 DEF FileStep, FileTest, FileEnter, FileWrite, FileLeave, factoryVars, flags
  <2>5. ASSUME StopBegin \/ StopStep PROVE FactoryInv'
    BY <2>5 DEF StopBegin, StopStep, JoinWorker, StopEnd, fileVars
  <2>6. CASE UNCHANGED vars
    BY <2>1, <2>6 DEF vars, factoryVars, flags
  <2>7. QED BY <2>2, <2>3, <2>4, <2>5, <2>6 DEF Next
<1> HIDE DEF FactoryInv
<1>3. QED BY <1>1, <1>2, Invariance, PTL DEF Spec

(* What is left of the pipeline while StopLogger joins. *)
LEMMA WhileJoining ==
  ASSUME PipelineInv, FactoryInv, Stopping, [Next]_vars
  PROVE  \/ UNCHANGED <<spc, fpc>>
         \/ fpc = "test" /\ fpc' = "done" /\ UNCHANGED spc
         \/ spc = "join" /\ spc' = "joinfile" /\ UNCHANGED fpc
         \/ spc = "joinfile" /\ fpc = "done" /\ spc' = "stopped" /\ UNCHANGED fpc
<1> USE PipelineAssumption DEF FactoryInv, Stopping
<1>1. ASSUME NEW c \in Caller, LogMacro(c) \/ CallerStep(c) PROVE UNCHANGED <<spc, fpc>>
  BY <1>1 DEF LogMacro, CallerStep, GetLogger, CheckOut, FormatLog, CallWriteData, WriteData,
     CheckIn, fileVars, factoryVars, flags
<1>2. ASSUME WorkerStep PROVE UNCHANGED <<spc, fpc>>
  BY <1>2 DEF WorkerStep, WorkerPop, WorkerExit, WorkerWrite, WriteData, CheckIn, fileVars,
     factoryVars, flags
<1>3. ASSUME FileStep PROVE fpc = "test" /\ fpc' = "done" /\ UNCHANGED spc
  BY <1>3 DEF FileStep, FileTest, FileEnter, FileWrite, FileLeave, factoryVars, flags
<1>4. ASSUME StopBegin \/ StopStep
      PROVE  \/ spc = "join" /\ spc' = "joinfile" /\ UNCHANGED fpc
             \/ spc = "joinfile" /\ fpc = "done" /\ spc' = "stopped" /\ UNCHANGED fpc
  BY <1>4 DEF StopBegin, StopStep, JoinWorker, StopEnd, fileVars
<1>5. CASE UNCHANGED vars
  BY <1>5 DEF vars
<1>6. QED BY <1>1, <1>2, <1>3, <1>4, <1>5 DEF Next

(* A StopLogger that finds workerFileThread asleep never returns: it joins the
   thread inside _csFactory, which the thread waits for when it wakes
   (cmnLogger.cpp:713-718, 805-808). *)
THEOREM SleeperNeverJoined ==
  Spec => [](Stopping /\ fpc = "asleep" => [](spc # "stopped"))
<1> DEFINE Stuck == Stopping /\ fpc = "asleep"
           Joining == spc # "stopped"
<1>1. PipelineInv /\ FactoryInv /\ Stuck /\ [Next]_vars => Stuck'
  BY WhileJoining DEF Stopping
<1>2. Stuck => Joining
  BY DEF Stopping
<1> HIDE DEF Stuck, Joining
<1>3. Spec => [](Stuck => []Joining)
  BY <1>1, <1>2, Invariance, FactoryInvariance, PTL DEF Spec
<1>4. QED BY <1>3 DEF Stuck, Joining

(* That is the only way to block it: a workerFileThread that is not asleep when
   StopLogger has begun never goes to sleep again and never needs _csFactory,
   so that both joins wait only for a thread that is on its way out. *)
THEOREM AwakeStaysAwake ==
  Spec => [](Stopping /\ fpc # "asleep" => [](fpc \in {"test", "done"}))
<1> DEFINE Out == fpc \in {"test", "done"}
           Awake == Stopping /\ fpc # "asleep"
           Joined == spc = "stopped" /\ fpc = "done"
<1>1. PipelineInv /\ FactoryInv /\ Awake => Out
  BY PipelineAssumption DEF FactoryInv, PipelineInv, TypeOK
<1>2. PipelineInv /\ FactoryInv /\ Awake /\ [Next]_vars => Awake' \/ Joined'
  BY WhileJoining DEF Stopping
<1>3. PipelineInv /\ FactoryInv /\ Joined /\ [Next]_vars => Joined'
  <2> SUFFICES ASSUME PipelineInv, FactoryInv, Joined, [Next]_vars PROVE Joined'
    OBVIOUS
  <2>1. ASSUME NEW c \in Caller, LogMacro(c) \/ CallerStep(c) PROVE Joined'
    BY <2>1 DEF LogMacro, CallerStep, GetLogger, CheckOut, FormatLog, CallWriteData, WriteData,
       CheckIn, fileVars, factoryVars, flags
  <2>2. ASSUME WorkerStep PROVE Joined'
    BY <2>2 DEF WorkerStep, WorkerPop, WorkerExit, WorkerWrite, WriteData, CheckIn, fileVars,
       factoryVars, flags
  <2>3. ~FileStep /\ ~StopBegin /\ ~StopStep
    BY DEF FileStep, FileTest, FileEnter, FileWrite, FileLeave, StopBegin, StopStep, JoinWorker,
       StopEnd
  <2>4. CASE UNCHANGED vars
    BY <2>4 DEF vars
  <2>5. QED BY <2>1, <2>2, <2>3, <2>4 DEF Next
<1>4. Joined => Out
  OBVIOUS
<1> HIDE DEF Out, Awake, Joined
<1>5. Spec => [](Awake => []Out)
  BY <1>1, <1>2, <1>3, <1>4, Invariance, FactoryInvariance, PTL DEF Spec
<1>6. QED BY <1>5 DEF Out, Awake
=============================================================================
