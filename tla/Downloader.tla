----------------------------- MODULE Downloader -----------------------------
(***************************************************************************)
(* CDownloaderByAPI: DownloadToFile starts a thread that downloads, and    *)
(* waits for its two auto-reset events until none has come for ten         *)
(* minutes.  One downloader is used for several downloads, one after the   *)
(* other; the thread of one that timed out goes on.                        *)
(***************************************************************************)
EXTENDS Integers, FiniteSets

CONSTANTS
  MaxDownloads,  \* bound on the downloads
  MaxProgress    \* bound on the progress reports of one

ASSUME DownloaderAssumption == {MaxDownloads, MaxProgress} \subseteq Nat

Download == 1 .. MaxDownloads

VARIABLES
  dlNow,       \* the current download, 0 before the first; remoteURL_ is its
  dlWaiting,   \* DownloadToFile is in its loop
  dlProgress, dlComplete, \* the events
  dlWorker,    \* of each download's thread: "none", "new", "working", "stored", "done"
  dlUrl,       \* the download whose remoteURL_ it has read
  dlReports,   \* how often it reported progress
  dlResult,    \* hResult_: the thread that stored it, 0 for the S_OK of the constructor
  dlAnswer,    \* what the last DownloadToFile returned
  dlFinished,  \* history: the thread had finished by then
  dlLeft       \* history: a thread was left behind

dlEvents == <<dlProgress, dlComplete>>
dlThreads == <<dlWorker, dlUrl, dlReports, dlResult>>
dlReturn == <<dlAnswer, dlFinished, dlLeft>>
dlVars == <<dlNow, dlWaiting, dlEvents, dlThreads, dlReturn>>

DlInit ==
  /\ dlNow = 0 /\ dlWaiting = FALSE /\ dlProgress = FALSE /\ dlComplete = FALSE
  /\ dlWorker = [n \in Download |-> "none"]
  /\ dlUrl = [n \in Download |-> 0] /\ dlReports = [n \in Download |-> 0]
  /\ dlResult = 0 /\ dlAnswer = 0 /\ dlFinished = FALSE /\ dlLeft = FALSE

DownloadToFile ==
  /\ ~dlWaiting /\ dlNow < MaxDownloads
  /\ dlNow' = dlNow + 1 /\ dlWaiting' = TRUE
  /\ dlWorker' = [dlWorker EXCEPT ![dlNow'] = "new"]
  /\ UNCHANGED <<dlEvents, dlUrl, dlReports, dlResult, dlReturn>>

(* workerThread *)
WorkerBegins(n) ==
  /\ dlWorker[n] = "new"
  /\ dlWorker' = [dlWorker EXCEPT ![n] = "working"]
  /\ dlUrl' = [dlUrl EXCEPT ![n] = dlNow]
  /\ UNCHANGED <<dlNow, dlWaiting, dlEvents, dlReports, dlResult, dlReturn>>

OnProgress(n) ==
  /\ dlWorker[n] = "working" /\ dlReports[n] < MaxProgress
  /\ dlReports' = [dlReports EXCEPT ![n] = @ + 1]
  /\ dlProgress' = TRUE
  /\ UNCHANGED <<dlNow, dlWaiting, dlComplete, dlWorker, dlUrl, dlResult, dlReturn>>

WorkerStores(n) ==
  /\ dlWorker[n] = "working"
  /\ dlWorker' = [dlWorker EXCEPT ![n] = "stored"]
  /\ dlResult' = n
  /\ UNCHANGED <<dlNow, dlWaiting, dlEvents, dlUrl, dlReports, dlReturn>>

WorkerSignals(n) ==
  /\ dlWorker[n] = "stored"
  /\ dlWorker' = [dlWorker EXCEPT ![n] = "done"]
  /\ dlComplete' = TRUE
  /\ UNCHANGED <<dlNow, dlWaiting, dlProgress, dlUrl, dlReports, dlResult, dlReturn>>

-----------------------------------------------------------------------------
(* The wait prefers the first of two signalled events. *)
WakeProgress ==
  /\ dlWaiting /\ dlProgress
  /\ dlProgress' = FALSE
  /\ UNCHANGED <<dlNow, dlWaiting, dlComplete, dlThreads, dlReturn>>

(* A loop that leaves the event as it found it. *)
WakeComplete_manual ==
  /\ dlWaiting /\ dlComplete /\ ~dlProgress
  /\ UNCHANGED <<dlNow, dlWaiting, dlProgress, dlComplete, dlThreads, dlReturn>>

(* The completion deletes the cache entry and waits on. *)
WakeComplete ==
  /\ dlWaiting /\ dlComplete /\ ~dlProgress
  /\ dlComplete' = FALSE
  /\ UNCHANGED <<dlNow, dlWaiting, dlProgress, dlThreads, dlReturn>>

(* Ten minutes without an event: the only way out.  The interrupt does not
   reach a thread that is in URLDownloadToFile. *)
TimeOut ==
  /\ dlWaiting /\ ~dlProgress /\ ~dlComplete
  /\ dlWaiting' = FALSE /\ dlAnswer' = dlResult
  /\ dlFinished' = (dlWorker[dlNow] = "done")
  /\ dlLeft' = (dlLeft \/ dlWorker[dlNow] # "done")
  /\ UNCHANGED <<dlNow, dlEvents, dlThreads>>

DlCaller == WakeProgress \/ WakeComplete \/ TimeOut

DlNext ==
  \/ DownloadToFile \/ DlCaller
  \/ \E n \in Download : WorkerBegins(n) \/ OnProgress(n) \/ WorkerStores(n) \/ WorkerSignals(n)

DlSpec == DlInit /\ [][DlNext]_dlVars

-----------------------------------------------------------------------------
(* DownloadToFile returns, although the completion does not end its loop.  What
   a download returns that was waited for to its end is its own result, of its
   own address, unless the thread of an earlier one was left behind.  (What one
   returns that timed out is an older result.) *)
DownloadOutcome ==
  /\ dlWaiting ~> ~dlWaiting
  /\ [](~dlWaiting /\ dlFinished /\ ~dlLeft => dlAnswer = dlNow /\ dlUrl[dlNow] = dlNow)
=============================================================================
