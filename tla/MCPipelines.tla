---------------------------- MODULE MCPipelines ----------------------------
(***************************************************************************)
(* The two hand-overs between threads that the library is built on: the    *)
(* queue class of the packet manager and the logger's contexts.  They      *)
(* share no state: a behaviour exercises the one that `focus' names and    *)
(* leaves the other in its initial state.                                  *)
(*                                                                         *)
(* The queue: two workers, two producers and three packets, enough for one *)
(* worker to sleep while the other takes its packet, for two notifications *)
(* to be under way at once, and for a stop between any two of these steps. *)
(* The logger: two threads, a pool of two contexts and three messages, so  *)
(* that the pool wraps and a thread waits for the context whose turn it    *)
(* is, and rounds of one line, which leave lines in the file's queue.      *)
(***************************************************************************)
EXTENDS ConcurrentQueue, LogPipeline

VARIABLE focus

pipeVars == <<focus, queueVars, vars>>

PipeInit ==
  /\ focus \in {"queue", "log"}
  /\ QueueInit /\ Init
  /\ focus = "log" \/ (~sync /\ ~batch)

Queue(A) == focus = "queue" /\ A /\ UNCHANGED <<focus, vars>>
Log(A) == focus = "log" /\ A /\ UNCHANGED <<focus, queueVars>>

PipeNext == Queue(QueueNext) \/ Log(Next)

(* The fairness of the two modules, which say why the code justifies it. *)
PipeFairness ==
  /\ \A c \in Consumer : WF_pipeVars(Queue(ConsumerStep(c)))
  /\ \A p \in Producer : WF_pipeVars(Queue(NotifyOne(p)))
  /\ WF_pipeVars(Queue(StopAllPop \/ NotifyAll \/ JoinAll))
  /\ \A c \in Caller : WF_pipeVars(Log(CallerStep(c))) /\ SF_pipeVars(Log(GetLogger(c)))
  /\ WF_pipeVars(Log(WorkerStep)) /\ WF_pipeVars(Log(FileStep)) /\ WF_pipeVars(Log(StopStep))

PipeSpec == PipeInit /\ [][PipeNext]_pipeVars /\ PipeFairness
=============================================================================
