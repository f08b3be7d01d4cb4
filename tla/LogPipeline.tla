---------------------------- MODULE LogPipeline ----------------------------
(***************************************************************************)
(* The way of a log message (cmnLogger.hpp, cmnLogger.cpp, and             *)
(* CRoundRobinAllocator and CSharedQueue of cmnWinUtils.h): a thread takes *)
(* a context from the round-robin pool, formats into it, and either writes *)
(* it itself (isSynchronousOp) or queues it for workerThread; workerThread *)
(* writes to the file or, with isUseBatchFileWrite, into the file's queue, *)
(* which workerFileThread empties at intervals.  StopLogger joins both     *)
(* workers and frees everything.                                           *)
(*                                                                         *)
(* There is one log file, open and with its queue in _fileWriteQueue; which *)
(* file a logger writes to is not the subject here.  A CSharedQueue or     *)
(* allocator operation is one step: it is one critical section of its own. *)
(* As the header asks, StopLogger is called at the end of the application, *)
(* when no thread is logging.                                              *)
(***************************************************************************)
EXTENDS Naturals, Sequences, FiniteSets, SequencesExt

CONSTANTS
  Caller,      \* application threads that log
  Worker,      \* workerThread
  FileWorker,  \* workerFileThread
  Stopper,     \* the thread that calls StopLogger
  PoolSize,    \* _poolSize of the context pool (256 in the code)
  MaxOnce,     \* nMaxCountPerOnce (256 in the code)
  MaxLog,      \* bound on logged messages
  NoThread,    \* _csFactory is free
  NoSlot       \* no context in hand

Slot == 0 .. PoolSize - 1
Thread == Caller \cup {Worker}

ASSUME PipelineAssumption ==
  /\ PoolSize \in Nat \ {0} /\ MaxOnce \in Nat \ {0} /\ MaxLog \in Nat
  /\ Worker \notin Caller /\ NoSlot \notin Slot
  /\ NoThread \notin {FileWorker, Stopper} /\ FileWorker # Stopper

VARIABLES
  sync,       \* isSynchronousOp of the configuration
  batch,      \* isUseBatchFileWrite of the configuration
  isInit,     \* _isInit
  isExit,     \* _isExit
  factory,    \* the thread inside _csFactory between two steps
  inUse,      \* _mapUsingTable
  current,    \* _lCurrentIndex
  text,       \* the message formatted into each context
  logQueue,   \* _queue: contexts on their way to workerThread
  lines,      \* the file's queue in _fileWriteQueue
  written,    \* the messages in the log file
  pc,         \* where each caller and workerThread are
  held,       \* the context each of them holds
  msg,        \* the message each caller is logging
  fpc,        \* where workerFileThread is
  count,      \* nCurrentCount
  spc,        \* where StopLogger is
  calls,      \* how many messages were logged
  logged      \* history: the messages in the order of writeData

vars == <<sync, batch, isInit, isExit, factory, inUse, current, text, logQueue, lines,
          written, pc, held, msg, fpc, count, spc, calls, logged>>
flags == <<sync, batch, isInit, isExit, spc>>
factoryVars == <<flags, factory>>
fileVars == <<lines, written, fpc, count>>

(* The logger after InitLogger. *)
Init ==
  /\ sync \in BOOLEAN /\ batch \in BOOLEAN
  /\ isInit = TRUE /\ isExit = FALSE /\ factory = NoThread
  /\ inUse = [i \in Slot |-> FALSE] /\ current = 0
  /\ text = [i \in Slot |-> 0]
  /\ logQueue = << >> /\ lines = << >> /\ written = << >>
  /\ pc = [t \in Thread |-> IF t = Worker THEN "loop" ELSE "idle"]
  /\ held = [t \in Thread |-> NoSlot]
  /\ msg = [t \in Thread |-> 0]
  /\ fpc = (IF batch THEN "test" ELSE "done")
  /\ count = 0 /\ spc = "running" /\ calls = 0 /\ logged = << >>

Goto(t, l) == pc' = [pc EXCEPT ![t] = l]

-----------------------------------------------------------------------------
(* LM_TRACE and the like: nothing happens before InitLogger and after
   StopLogger. *)
LogMacro(c) ==
  /\ pc[c] = "idle" /\ isInit /\ calls < MaxLog
  /\ calls' = calls + 1
  /\ msg' = [msg EXCEPT ![c] = calls + 1]
  /\ Goto(c, "logger")
  /\ UNCHANGED <<factoryVars, fileVars, inUse, current, text, logQueue, held, logged>>

(* GetLogger of a logger that exists, inside _csFactory. *)
GetLogger(c) ==
  /\ pc[c] = "logger" /\ factory = NoThread
  /\ Goto(c, "checkout")
  /\ UNCHANGED <<factoryVars, fileVars, inUse, current, text, logQueue, held, msg, calls,
                 logged>>

(* CheckOutLOGContext tries CheckOut until the object whose turn it is has
   come back, whether or not others are free. *)
CheckOut(c) ==
  /\ pc[c] = "checkout"
  /\ LET i == IF current >= PoolSize THEN 0 ELSE current IN
       IF inUse[i]
       THEN current' = i /\ UNCHANGED <<inUse, held, pc>>
       ELSE /\ current' = i + 1
            /\ inUse' = [inUse EXCEPT ![i] = TRUE]
            /\ held' = [held EXCEPT ![c] = i]
            /\ Goto(c, "fill")
  /\ UNCHANGED <<factoryVars, fileVars, text, logQueue, msg, calls, logged>>

(* Log formats prefix and contents into the context. *)
FormatLog(c) ==
  /\ pc[c] = "fill"
  /\ text' = [text EXCEPT ![held[c]] = msg[c]]
  /\ Goto(c, "write")
  /\ UNCHANGED <<factoryVars, fileVars, inUse, current, logQueue, held, msg, calls, logged>>

(* writeData: write it here, or PushLOG_CONTEXT. *)
CallWriteData(c) ==
  /\ pc[c] = "write"
  /\ logged' = Append(logged, msg[c])
  /\ IF sync
       THEN Goto(c, "data") /\ UNCHANGED <<logQueue, held>>
       ELSE /\ logQueue' = Append(logQueue, held[c])
            /\ held' = [held EXCEPT ![c] = NoSlot]
            /\ Goto(c, "idle")
  /\ UNCHANGED <<factoryVars, fileVars, inUse, current, text, msg, calls>>

-----------------------------------------------------------------------------
(* CLogUtil::WriteData, on the caller's thread or on workerThread: into the
   file under the file's lock, or into the file's queue. *)
WriteData(t) ==
  /\ pc[t] = "data"
  /\ IF batch
       THEN lines' = Append(lines, text[held[t]]) /\ UNCHANGED written
       ELSE written' = Append(written, text[held[t]]) /\ UNCHANGED lines
  /\ Goto(t, "checkin")
  /\ UNCHANGED <<factoryVars, inUse, current, text, logQueue, held, msg, fpc, count, calls,
                 logged>>

(* A WriteData that leaves without CheckIn. *)
CheckIn_forgotten(t) ==
  /\ pc[t] = "checkin"
  /\ held' = [held EXCEPT ![t] = NoSlot]
  /\ Goto(t, IF t # Worker THEN "idle" ELSE IF isExit THEN "done" ELSE "loop")
  /\ UNCHANGED <<factoryVars, fileVars, inUse, current, text, logQueue, msg, calls, logged>>

(* The last line of WriteData gives the context back; workerThread tests
   _isExit before it looks for the next one. *)
CheckIn(t) ==
  /\ pc[t] = "checkin"
  /\ inUse' = [inUse EXCEPT ![held[t]] = FALSE]
  /\ held' = [held EXCEPT ![t] = NoSlot]
  /\ Goto(t, IF t # Worker THEN "idle" ELSE IF isExit THEN "done" ELSE "loop")
  /\ UNCHANGED <<factoryVars, fileVars, current, text, logQueue, msg, calls, logged>>

-----------------------------------------------------------------------------
(* A workerThread that gives the context back before it writes it. *)
WorkerPop_released ==
  /\ pc[Worker] = "loop" /\ logQueue # << >>
  /\ logQueue' = Tail(logQueue)
  /\ held' = [held EXCEPT ![Worker] = Head(logQueue)]
  /\ inUse' = [inUse EXCEPT ![Head(logQueue)] = FALSE]
  /\ Goto(Worker, "popped")
  /\ UNCHANGED <<factoryVars, fileVars, current, text, msg, calls, logged>>

(* workerThread: Try_and_pop until there is a context ... *)
WorkerPop ==
  /\ pc[Worker] = "loop" /\ logQueue # << >>
  /\ logQueue' = Tail(logQueue)
  /\ held' = [held EXCEPT ![Worker] = Head(logQueue)]
  /\ Goto(Worker, "popped")
  /\ UNCHANGED <<factoryVars, fileVars, inUse, current, text, msg, calls, logged>>

(* A workerThread that waits for a context before it looks at _isExit. *)
WorkerExit_waiting ==
  /\ isExit /\ pc[Worker] = "popped"
  /\ Goto(Worker, "done")
  /\ UNCHANGED <<factoryVars, fileVars, inUse, current, text, logQueue, held, msg, calls,
                 logged>>

(* ... or _isExit; a context popped by then is dropped. *)
WorkerExit ==
  /\ isExit
  /\ pc[Worker] = "popped" \/ (pc[Worker] = "loop" /\ logQueue = << >>)
  /\ Goto(Worker, "done")
  /\ UNCHANGED <<factoryVars, fileVars, inUse, current, text, logQueue, held, msg, calls,
                 logged>>

WorkerWrite ==
  /\ pc[Worker] = "popped" /\ ~isExit
  /\ Goto(Worker, "data")
  /\ UNCHANGED <<factoryVars, fileVars, inUse, current, text, logQueue, held, msg, calls,
                 logged>>

-----------------------------------------------------------------------------
(* workerFileThread: look at _isExit, then sleep for the interval ... *)
FileTest ==
  /\ fpc = "test"
  /\ fpc' = IF isExit THEN "done" ELSE "asleep"
  /\ UNCHANGED <<factoryVars, inUse, current, text, logQueue, lines, written, pc, held, msg,
                 count, calls, logged>>

(* ... and go through the queues inside _csFactory ... *)
FileEnter ==
  /\ fpc = "asleep" /\ factory = NoThread
  /\ factory' = FileWorker
  /\ count' = 0 /\ fpc' = "drain"
  /\ UNCHANGED <<flags, inUse, current, text, logQueue, lines, written,
                 pc, held, msg, calls, logged>>

(* ... writing at most MaxOnce lines of each. *)
FileWrite ==
  /\ fpc = "drain" /\ lines # << >> /\ count < MaxOnce
  /\ written' = Append(written, Head(lines))
  /\ lines' = Tail(lines)
  /\ count' = count + 1
  /\ UNCHANGED <<factoryVars, inUse, current, text, logQueue, pc, held, msg, fpc, calls,
                 logged>>

(* A round that throws away what it did not get to. *)
FileLeave_clearing ==
  /\ fpc = "drain" /\ (lines = << >> \/ count = MaxOnce)
  /\ factory' = NoThread /\ fpc' = "test" /\ lines' = << >>
  /\ UNCHANGED <<flags, inUse, current, text, logQueue, written,
                 pc, held, msg, count, calls, logged>>

FileLeave ==
  /\ fpc = "drain" /\ (lines = << >> \/ count = MaxOnce)
  /\ factory' = NoThread /\ fpc' = "test"
  /\ UNCHANGED <<flags, inUse, current, text, logQueue, lines, written,
                 pc, held, msg, count, calls, logged>>

-----------------------------------------------------------------------------
(* StopLogger keeps _csFactory until it is done. *)
StopBegin ==
  /\ spc = "running" /\ isInit /\ factory = NoThread
  /\ \A c \in Caller : pc[c] = "idle"
  /\ factory' = Stopper
  /\ isExit' = TRUE /\ isInit' = FALSE
  /\ spc' = "join"
  /\ UNCHANGED <<sync, batch, fileVars, inUse, current, text, logQueue, pc, held, msg, calls,
                 logged>>

(* _workerThread.join(), _workerFileThread.join(). *)
JoinWorker ==
  /\ spc = "join" /\ pc[Worker] = "done"
  /\ spc' = "joinfile"
  /\ UNCHANGED <<sync, batch, isInit, isExit, factory, fileVars, inUse, current, text, logQueue, pc,
                 held, msg, calls, logged>>

(* What is left in the queues is deleted with them, the files are closed. *)
StopEnd ==
  /\ spc = "joinfile" /\ fpc = "done"
  /\ lines' = << >>
  /\ factory' = NoThread
  /\ spc' = "stopped"
  /\ UNCHANGED <<sync, batch, isInit, isExit, inUse, current, text, logQueue, written, pc, held, msg,
                 fpc, count, calls, logged>>

-----------------------------------------------------------------------------
CallerStep(c) == GetLogger(c) \/ CheckOut(c) \/ FormatLog(c) \/ CallWriteData(c)
                 \/ WriteData(c) \/ CheckIn(c)
WorkerStep == WorkerPop \/ WorkerExit \/ WorkerWrite \/ WriteData(Worker) \/ CheckIn(Worker)
FileStep == FileTest \/ FileEnter \/ FileWrite \/ FileLeave
StopStep == JoinWorker \/ StopEnd

Next ==
  \/ \E c \in Caller : LogMacro(c) \/ CallerStep(c)
  \/ WorkerStep \/ FileStep \/ StopBegin \/ StopStep

Spec == Init /\ [][Next]_vars

(* Threads go on.  A caller gets _csFactory in the end although
   workerFileThread takes it again and again; nobody has to log or to stop. *)
Fairness ==
  /\ \A c \in Caller : WF_vars(CallerStep(c)) /\ SF_vars(GetLogger(c))
  /\ WF_vars(WorkerStep) /\ WF_vars(FileStep) /\ WF_vars(StopStep)

FairSpec == Spec /\ Fairness

-----------------------------------------------------------------------------
(* Types. *)
TypeOK ==
  /\ sync \in BOOLEAN /\ batch \in BOOLEAN
  /\ isInit \in BOOLEAN /\ isExit \in BOOLEAN
  /\ factory \in {NoThread, FileWorker, Stopper}
  /\ inUse \in [Slot -> BOOLEAN] /\ current \in 0 .. PoolSize
  /\ text \in [Slot -> Nat]
  /\ logQueue \in Seq(Slot) /\ lines \in Seq(Nat) /\ written \in Seq(Nat)
  /\ pc \in [Thread -> {"idle", "logger", "checkout", "fill", "write", "data", "checkin",
                        "loop", "popped", "done"}]
  /\ held \in [Thread -> Slot \cup {NoSlot}]
  /\ msg \in [Thread -> Nat]
  /\ fpc \in {"test", "asleep", "drain", "done"} /\ count \in 0 .. MaxOnce
  /\ spc \in {"running", "join", "joinfile", "stopped"}
  /\ calls \in Nat /\ logged \in Seq(Nat)

(* Every context of the pool that is out has exactly one owner: the thread
   that formats or writes it, or its place in the queue. *)
PoolInv ==
  /\ \A t \in Thread :
       /\ pc[t] \in {"fill", "write", "data", "checkin", "popped"} => held[t] # NoSlot
       /\ pc[t] \in {"idle", "logger", "checkout", "loop"} => held[t] = NoSlot
  /\ \A t \in Thread : held[t] # NoSlot => inUse[held[t]]
  /\ \A t, u \in Thread : held[t] # NoSlot /\ held[t] = held[u] => t = u
  /\ \A i, j \in 1 .. Len(logQueue) : logQueue[i] = logQueue[j] => i = j
  /\ \A i \in 1 .. Len(logQueue) : inUse[logQueue[i]] /\ \A t \in Thread : held[t] # logQueue[i]

(* Who is where: only workerThread writes asynchronous messages, a context
   carries its caller's message by the time it is queued, the file's queue is
   for batch writing, and StopLogger finds its threads where it left them. *)
StageInv ==
  /\ \A c \in Caller : pc[c] \in {"idle", "logger", "checkout", "fill", "write", "data",
                                   "checkin"}
  /\ pc[Worker] \in {"loop", "popped", "data", "checkin", "done"}
  /\ ~sync => \A c \in Caller : pc[c] \notin {"data", "checkin"}
  /\ \A c \in Caller : pc[c] = "write" => text[held[c]] = msg[c]
  /\ ~batch => lines = << >> /\ fpc = "done"
  /\ spc # "running" => ~isInit /\ \A c \in Caller : pc[c] = "idle"
  /\ spc \in {"joinfile", "stopped"} => pc[Worker] = "done"
  /\ spc = "stopped" => fpc = "done"

(* What workerThread has in hand, and what it has still to fetch. *)
InHand ==
  IF pc[Worker] \in {"popped", "data"} \/ (pc[Worker] = "done" /\ held[Worker] # NoSlot)
  THEN <<text[held[Worker]]>> ELSE << >>
Texts(q, tx) == [i \in 1 .. Len(q) |-> tx[q[i]]]
Queued == Texts(logQueue, text)

(* The pipeline from its end: file, file queue, workerThread, queue. *)
Stages(w, l, h, q) == ((w \o l) \o h) \o q

(* The workers neither lose, repeat, mix up nor reorder: file, file queue,
   workerThread and queue hold the logged messages in the order they were
   logged.  What StopLogger drops is the end of the log and nothing else. *)
LogInOrder ==
  ~sync =>
    IF spc = "stopped" THEN IsPrefix(written, logged)
    ELSE Stages(written, lines, InHand, Queued) = logged

(* The inductive invariant. *)
PipelineInv == TypeOK /\ PoolInv /\ StageInv /\ LogInOrder

(* A logging call returns, although it may wait for a context whose turn it
   is while others are free, and for _csFactory. *)
CallReturns == \A c \in Caller : pc[c] = "logger" ~> pc[c] = "idle"

(* While the logger runs every message reaches the file. *)
MessageWritten ==
  \A m \in 1 .. MaxLog :
    (m \in Range(logged)) ~> (m \in Range(written) \/ isExit)

(* Without batch writing StopLogger returns. *)
PlainStopReturns == (~batch /\ spc = "join") ~> (spc = "stopped")

(* StopLogger, to be called where the application ends, returns. *)
StopReturns == spc = "join" ~> spc = "stopped"
=============================================================================
