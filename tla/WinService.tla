----------------------------- MODULE WinService -----------------------------
(***************************************************************************)
(* StartServiceFromName and StopServiceFromName: one call of the service   *)
(* control manager and a loop that asks once a second how the service is   *)
(* doing.  The service, and whoever else controls it, changes meanwhile.   *)
(***************************************************************************)
EXTENDS Integers, FiniteSets

CONSTANTS
  WaitSecs,   \* nWaitSecs
  MaxChanges  \* bound on what the service does

ASSUME WinServiceAssumption == {WaitSecs, MaxChanges} \subseteq Nat

ServiceState == {"stopped", "starting", "running", "stopping"}

VARIABLES
  svcState,    \* the service
  svcCall,     \* "start" or "stop"
  svcPc,       \* where it is: "idle", "open", "query", "control", "poll", "true", "false"
  svcSs,       \* ss.dwCurrentState
  svcSecs,     \* nSec
  svcWas,      \* history: the states of the service during the call
  svcBlind,    \* history: ss was read before anything was stored in it
  svcChanges

svcVars == <<svcState, svcCall, svcPc, svcSs, svcSecs, svcWas, svcBlind, svcChanges>>
Goal == IF svcCall = "start" THEN "running" ELSE "stopped"

SvcInit ==
  /\ svcState = "stopped" /\ svcCall = "start" /\ svcPc = "idle"
  /\ svcSs = "stopped" /\ svcSecs = 0
  /\ svcWas = {} /\ svcBlind = TRUE /\ svcChanges = 0

(* ss is not initialised: it may hold anything. *)
CallService(call) ==
  /\ svcPc = "idle" /\ svcPc' = "open"
  /\ svcCall' = call /\ svcSs' \in ServiceState
  /\ svcState' \in ServiceState /\ svcWas' = {svcState'}
  /\ UNCHANGED <<svcSecs, svcBlind, svcChanges>>

(* Either handle is refused. *)
OpenFails ==
  /\ svcPc = "open" /\ svcPc' = "false"
  /\ UNCHANGED <<svcState, svcCall, svcSs, svcSecs, svcWas, svcBlind, svcChanges>>

OpenService ==
  /\ svcPc = "open"
  /\ svcPc' = IF svcCall = "start" THEN "control" ELSE "query"
  /\ UNCHANGED <<svcState, svcCall, svcSs, svcSecs, svcWas, svcBlind, svcChanges>>

(* QueryServiceStatus stores the state; when it fails, which nobody looks at,
   ss stays what it was. *)
Query(ok) ==
  /\ svcSs' = IF ok THEN svcState ELSE svcSs
  /\ svcBlind' = (svcBlind /\ ~ok)

(* A query of StopServiceFromName whose answer is read with a ! too many. *)
QueryFirst_inverted(ok) ==
  /\ svcPc = "query" /\ Query(ok)
  /\ svcPc' = IF svcSs' # "stopped" THEN "true" ELSE "control"
  /\ UNCHANGED <<svcState, svcCall, svcSecs, svcWas, svcChanges>>

QueryFirst(ok) ==
  /\ svcPc = "query" /\ Query(ok)
  /\ svcPc' = IF svcSs' = "stopped" THEN "true" ELSE "control"
  /\ UNCHANGED <<svcState, svcCall, svcSecs, svcWas, svcChanges>>

(* StartService takes a stopped service, and fails otherwise. *)
StartService ==
  /\ svcPc = "control" /\ svcCall = "start"
  /\ \/ /\ svcState = "stopped"
        /\ svcState' = "starting" /\ svcWas' = svcWas \cup {"starting"}
        /\ svcPc' = "poll"
     \/ svcPc' = "false" /\ UNCHANGED <<svcState, svcWas>>
  /\ UNCHANGED <<svcCall, svcSs, svcSecs, svcBlind, svcChanges>>

(* ControlService takes a running one, and stores its state; the error that
   the service is not active counts as success. *)
ControlService ==
  /\ svcPc = "control" /\ svcCall = "stop"
  /\ \/ /\ svcState = "running"
        /\ svcState' = "stopping" /\ svcWas' = svcWas \cup {"stopping"}
        /\ svcSs' = "stopping" /\ svcBlind' = FALSE /\ svcPc' = "poll"
     \/ /\ svcPc' = IF svcState = "stopped" THEN "true" ELSE "false"
        /\ UNCHANGED <<svcState, svcWas, svcSs, svcBlind>>
  /\ UNCHANGED <<svcCall, svcSecs, svcChanges>>

(* One round of the loop. *)
Poll(ok) ==
  /\ svcPc = "poll" /\ svcSecs < WaitSecs /\ Query(ok)
  /\ svcSecs' = svcSecs + 1
  /\ svcPc' = IF svcSs' = Goal THEN "true" ELSE "poll"
  /\ UNCHANGED <<svcState, svcCall, svcWas, svcChanges>>

PollEnd ==
  /\ svcPc = "poll" /\ svcSecs = WaitSecs
  /\ svcPc' = "false"
  /\ UNCHANGED <<svcState, svcCall, svcSs, svcSecs, svcWas, svcBlind, svcChanges>>

Follows == [stopped |-> {"starting"}, starting |-> {"running", "stopped"},
            running |-> {"stopping", "stopped"}, stopping |-> {"stopped"}]

(* The service gets on, fails, or is told something by another program. *)
ServiceChanges ==
  /\ svcChanges < MaxChanges /\ svcChanges' = svcChanges + 1
  /\ svcState' \in Follows[svcState] /\ svcWas' = svcWas \cup {svcState'}
  /\ UNCHANGED <<svcCall, svcPc, svcSs, svcSecs, svcBlind>>

SvcCaller ==
  \/ OpenFails \/ OpenService \/ StartService \/ ControlService \/ PollEnd
  \/ \E ok \in BOOLEAN : QueryFirst(ok) \/ Poll(ok)

SvcNext ==
  \/ \E call \in {"start", "stop"} : CallService(call)
  \/ SvcCaller
  \/ svcPc \notin {"idle", "true", "false"} /\ ServiceChanges

SvcSpec == SvcInit /\ [][SvcNext]_svcVars

-----------------------------------------------------------------------------
(* StartServiceFromName and StopServiceFromName end.  They say true only if the
   service was in the desired state at some moment of the call, or if the very
   first status could not be had: a later failure leaves a status that had not
   been the desired one. *)
ServiceAnswer ==
  /\ (svcPc = "open") ~> (svcPc \in {"true", "false"})
  /\ [](svcPc = "true" => Goal \in svcWas \/ svcBlind)
=============================================================================
