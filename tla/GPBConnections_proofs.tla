----------------------- MODULE GPBConnections_proofs -----------------------
(***************************************************************************)
(* The manager's slots on top of the communicator, for any number of       *)
(* threads and sockets: the composition implements the communicator's own  *)
(* specification, so what is proved of the registry holds with the slots   *)
(* in place, _lckSockets is a lock, the sent packets of a connection are   *)
(* there while they can be asked for and not after it is gone, and the two *)
(* locks are crossed only by disconnectAll, and then for good.             *)
(***************************************************************************)
EXTENDS GPBConnections, NetworkCommunicator_proofs

(* NoThread is not a thread. *)
LEMMA NoThreadApart == NoThread \notin Thread
BY ThreadAssumption DEF Thread

(* A thread inside a slot is where the communicator calls slots. *)
LEMMA SlotSteps ==
  ASSUME RegistryInv, NEW t \in Thread, SlotStep(t)
  PROVE  [Next]_vars
<1> USE Apart DEF RegistryInv, ThreadInv
<1>1. CASE NewInsert(t) \/ LostErase(t) \/ \E k \in Index : LostEnter(t, k)
  BY <1>1 DEF NewInsert, LostErase, LostEnter, vars
<1>2. CASE NewSentMap(t)
  <2>1. NewConnectionSlots(t) /\ pc[t] = "newslots"
    BY <1>2 DEF NewSentMap, NewConnectionSlots
  <2>2. t \in Worker
    BY <2>1 DEF ReaderPC
  <2>3. t \in User \/ t = Acceptor
    BY <2>2 DEF Worker
  <2>4. QED BY <2>1, <2>3 DEF Next, UserStep, AcceptorStep
<1>3. CASE LostSentMap(t)
  <2>1. CASE DisconnectSlots(t)
    <3>1. t # Acceptor
      BY <2>1 DEF DisconnectSlots, AcceptorPC
    <3>2. t \in User \/ t \in Sock
      BY <3>1 DEF Thread
    <3>3. QED BY <2>1, <3>2 DEF Next, UserStep, ReaderStep, DisconnectSteps
  <2>2. CASE VisitEntry(t, cur[t])
    <3>1. pc[t] = "all" /\ cur[t] \in rest[t]
      BY <2>2 DEF VisitEntry
    <3>2. t \in User
      BY <3>1 DEF AcceptorPC, ReaderPC, Thread
    <3>3. QED BY <2>2, <3>1, <3>2 DEF Next, UserStep, DisconnectAllEntry
  <2>3. QED BY <1>3, <2>1, <2>2 DEF LostSentMap
<1>4. QED BY <1>1, <1>2, <1>3 DEF SlotStep

(* Every step of the composition is a step of the communicator or leaves it
   alone. *)
LEMMA GStepIsStep ==
  ASSUME RegistryInv, [GNext]_allvars
  PROVE  [Next]_vars
<1> USE Apart
<1>1. ASSUME NEW t \in User, Call(t) PROVE Next
  BY <1>1 DEF Call, Next
<1>2. ASSUME NEW t \in User, BroadcastBegin(t) PROVE UNCHANGED vars
  BY <1>2 DEF BroadcastBegin
<1>3. ASSUME NEW t \in User, GUserStep(t) PROVE [Next]_vars
  <2>1. CASE SlotStep(t)
    BY <2>1, SlotSteps
  <2>2. CASE BroadcastEach(t) \/ BroadcastEnd(t)
    BY <2>2 DEF BroadcastEach, BroadcastEnd
  <2>3. CASE ~SlotStep(t) /\ ~BroadcastEach(t) /\ ~BroadcastEnd(t)
    <3>1. UserStep(t)
      BY <1>3, <2>3 DEF GUserStep, UserStep, DisconnectSteps
    <3>2. QED BY <3>1 DEF Next
  <2>4. QED BY <2>1, <2>2, <2>3
<1>4. ASSUME GAcceptorStep PROVE [Next]_vars
  <2>1. CASE SlotStep(Acceptor)
    BY <2>1, SlotSteps
  <2>2. CASE ~SlotStep(Acceptor)
    BY <1>4, <2>2 DEF GAcceptorStep, AcceptorStep, Next
  <2>3. QED BY <2>1, <2>2
<1>5. ASSUME BindAndAccept \/ SocketAccept \/ AcceptNext PROVE Next
  BY <1>5 DEF Next
<1>6. ASSUME NEW s \in Sock, GReaderStep(s) PROVE [Next]_vars
  <2>1. CASE SlotStep(s)
    BY <2>1, SlotSteps
  <2>2. CASE MatchEnd(s)
    BY <2>2 DEF MatchEnd
  <2>3. CASE ~SlotStep(s) /\ ~MatchEnd(s)
    BY <1>6, <2>3 DEF GReaderStep, ReaderStep, DisconnectSteps, Next
  <2>4. QED BY <2>1, <2>2, <2>3
<1>7. ASSUME NEW s \in Sock, StoreBegin(s) \/ MatchBegin(s) PROVE UNCHANGED vars
  BY <1>7 DEF StoreBegin, MatchBegin
<1>8. ASSUME NEW s \in Sock, GReadError(s) PROVE Next
  BY <1>8 DEF GReadError, Next
<1>9. ASSUME StoreEnd PROVE UNCHANGED vars
  BY <1>9 DEF StoreEnd
<1>10. CASE UNCHANGED allvars
  BY <1>10 DEF allvars
<1>11. QED
  BY <1>1, <1>2, <1>3, <1>4, <1>5, <1>6, <1>7, <1>8, <1>9, <1>10 DEF GNext

(* With the manager's slots in place the registry keeps its invariant. *)
LEMMA GRegistry == GSpec => []RegistryInv
<1>1. GInit => RegistryInv
  BY InitInv DEF GInit
<1>2. RegistryInv /\ [GNext]_allvars => RegistryInv'
  BY GStepIsStep, StepInv
<1>3. QED BY <1>1, <1>2, PTL DEF GSpec

(* CGPBManagerV2's slots, broadcasts and stores never make the communicator
   do what it could not do by itself: the composition implements it. *)
THEOREM SlotsImplementCommunicator == GSpec => CommunicatorSpec
<1>1. GInit => Init
  BY DEF GInit
<1>2. RegistryInv /\ [GNext]_allvars => [Next]_vars
  BY GStepIsStep
<1>3. QED BY <1>1, <1>2, GRegistry, PTL DEF GSpec, CommunicatorSpec, Spec

-----------------------------------------------------------------------------
(* A step of the communicator outside any slot does not disturb the slots
   other threads are in. *)
LEMMA Outside ==
  ASSUME SlotInv, UNCHANGED gvars,
         \A u \in Thread : spc[u] # "out" =>
           pc'[u] = pc[u] /\ idx'[u] = idx[u] /\ rest'[u] = rest[u]
  PROVE  SlotInv'
BY DEF SlotInv, GTypeOK, gvars

(* The same, for a step that only changes one thread. *)
LEMMA OneThread ==
  ASSUME SlotInv, UNCHANGED gvars, NEW t \in Thread, spc[t] = "out",
         \A u \in Thread : u # t =>
           pc'[u] = pc[u] /\ idx'[u] = idx[u] /\ rest'[u] = rest[u]
  PROVE  SlotInv'
BY Outside

(* Where a thread of the communicator takes a step of its own, it is in no
   slot. *)
LEMMA NotInSlot ==
  ASSUME SlotInv, NEW t \in Thread,
         pc[t] \notin {"newslots", "discslots", "all"},
         pc[t] = "idle" => t \notin User
  PROVE  spc[t] = "out"
BY DEF SlotInv, GTypeOK

(* Every step of the composition keeps SlotInv. *)
LEMMA StepSlot == RegistryInv /\ SlotInv /\ [GNext]_allvars => SlotInv'
<1> SUFFICES ASSUME RegistryInv, SlotInv, [GNext]_allvars PROVE SlotInv'
  OBVIOUS
<1>0. TypeOK /\ ThreadInv /\ HookInv
  BY DEF RegistryInv
<1> USE <1>0, Apart
<1>1. ASSUME NEW t \in Worker, CreateSocket(t), spc[t] = "out", UNCHANGED gvars
      PROVE  SlotInv'
  BY <1>1, OneThread DEF CreateSocket, Goto, TypeOK
<1>2. ASSUME NEW t \in Worker, RegisterSteps(t), UNCHANGED gvars PROVE SlotInv'
  <2>1. pc[t] \in {"reg", "rereg", "ret", "reret"}
    BY <1>2 DEF RegisterSteps, RegisterSocket, RegisterReturn
  <2>2. spc[t] = "out"
    BY <2>1, NotInSlot
  <2>3. \A u \in Thread : u # t =>
          pc'[u] = pc[u] /\ idx'[u] = idx[u] /\ rest'[u] = rest[u]
    BY <1>2 DEF RegisterSteps, RegisterSocket, RegisterReturn, Goto, TypeOK
  <2>4. QED BY <1>2, <2>2, <2>3, OneThread
<1>3. ASSUME NEW t \in User, ConnectOk(t) \/ ConnectFails(t) \/ DeregisterSocket(t),
             UNCHANGED gvars
      PROVE  SlotInv'
  <2>1. pc[t] \in {"connect", "dereg"}
    BY <1>3 DEF ConnectOk, ConnectFails, DeregisterSocket
  <2>2. spc[t] = "out"
    BY <2>1, NotInSlot
  <2>3. \A u \in Thread : u # t =>
          pc'[u] = pc[u] /\ idx'[u] = idx[u] /\ rest'[u] = rest[u]
    BY <1>3 DEF ConnectOk, ConnectFails, DeregisterSocket, Leave, Forget, Goto, TypeOK
  <2>4. QED BY <1>3, <2>2, <2>3, OneThread
<1>4. ASSUME NEW t \in Worker, ReceivePacket(t), UNCHANGED gvars PROVE SlotInv'
  <2>1. pc[t] = "read" /\ Opening(t)
    BY <1>4 DEF ReceivePacket, Opening
  <2>2. sock[t] \in Sock /\ pc[sock[t]] = "idle"
    BY <2>1 DEF ThreadInv, HookInv
  <2>3. spc[t] = "out" /\ spc[sock[t]] = "out"
    BY <2>1, <2>2, NotInSlot
  <2>4. \A u \in Thread : u # t /\ u # sock[t] =>
          pc'[u] = pc[u] /\ idx'[u] = idx[u] /\ rest'[u] = rest[u]
    BY <1>4 DEF ReceivePacket, Forget, TypeOK
  <2>5. QED BY <1>4, <2>3, <2>4, Outside
<1>5. ASSUME NEW t \in Thread, Disconnect(t), UNCHANGED gvars PROVE SlotInv'
  <2>1. spc[t] = "out"
    BY <1>5, NotInSlot DEF Disconnect
  <2>2. \A u \in Thread : u # t =>
          pc'[u] = pc[u] /\ idx'[u] = idx[u] /\ rest'[u] = rest[u]
    BY <1>5 DEF Disconnect, Return, Leave, Forget, Goto, TypeOK
  <2>3. QED BY <1>5, <2>1, <2>2, OneThread
<1>6. ASSUME NEW t \in User, DisconnectAllEnd(t), UNCHANGED gvars PROVE SlotInv'
  <2>1. spc[t] = "out"
    BY <1>6 DEF DisconnectAllEnd, SlotInv, GTypeOK
  <2>2. \A u \in Thread : u # t =>
          pc'[u] = pc[u] /\ idx'[u] = idx[u] /\ rest'[u] = rest[u]
    BY <1>6 DEF DisconnectAllEnd, Goto, TypeOK
  <2>3. QED BY <1>6, <2>1, <2>2, OneThread
<1>7. ASSUME Bind \/ SocketAccept \/ FindAccepted, UNCHANGED gvars PROVE SlotInv'
  <2>1. spc[Acceptor] = "out"
    BY <1>7, NotInSlot DEF Bind, SocketAccept, FindAccepted
  <2>2. \A u \in Thread : u # Acceptor =>
          pc'[u] = pc[u] /\ idx'[u] = idx[u] /\ rest'[u] = rest[u]
    BY <1>7 DEF Bind, SocketAccept, FindAccepted, Goto, TypeOK
  <2>3. QED BY <1>7, <2>1, <2>2, OneThread
<1>8. ASSUME BindAndAccept \/ AcceptNext, UNCHANGED gvars PROVE SlotInv'
  <2>1. spc[Acceptor] = "out" /\ CreateSocket(Acceptor)
    BY <1>8, NotInSlot DEF BindAndAccept, AcceptNext
  <2>2. QED BY <1>1, <1>8, <2>1
<1>9. ASSUME NEW s \in Sock, ReadError(s) \/ GetSocketIndex(s), UNCHANGED gvars
      PROVE  SlotInv'
  <2>1. spc[s] = "out"
    BY <1>9, NotInSlot DEF ReadError, GetSocketIndex
  <2>2. \A u \in Thread : u # s =>
          pc'[u] = pc[u] /\ idx'[u] = idx[u] /\ rest'[u] = rest[u]
    BY <1>9 DEF ReadError, GetSocketIndex, Goto, TypeOK
  <2>3. QED BY <1>9, <2>1, <2>2, OneThread
<1>10. ASSUME NEW t \in User, Call(t) PROVE SlotInv'
  <2>1. spc[t] = "out" /\ UNCHANGED gvars
    BY <1>10 DEF Call
  <2>2. CASE ConnectTo(t)
    BY <1>1, <2>1, <2>2 DEF ConnectTo
  <2>3. CASE DisconnectAllBegin(t) \/ \E k \in Known : CallDisconnect(t, k)
    <3>1. \A u \in Thread : u # t =>
            pc'[u] = pc[u] /\ idx'[u] = idx[u] /\ rest'[u] = rest[u]
      BY <2>3 DEF DisconnectAllBegin, CallDisconnect, Goto, TypeOK
    <3>2. QED BY <2>1, <3>1, OneThread
  <2>4. QED BY <1>10, <2>2, <2>3 DEF Call
<1>11. ASSUME NEW t \in Thread, SlotStep(t) PROVE SlotInv'
  <2> USE ThreadAssumption DEF SlotInv, GTypeOK, At
  <2>1. CASE NewInsert(t)
    <3>1. sock[t] \in Sock /\ connected' \subseteq Sock
      BY <2>1 DEF NewInsert, ThreadInv, ReaderPC, Worker, Thread
    <3>2. QED BY <2>1, <3>1 DEF NewInsert, vars
  <2>2. CASE NewSentMap(t)
    <3>1. /\ \A u \in Thread : u # t => pc'[u] = pc[u] /\ spc'[u] = spc[u]
          /\ spc'[t] = "out" /\ idx' = idx /\ rest' = rest /\ idx[t] \in Index
      BY <2>2 DEF NewSentMap, NewConnectionSlots, Goto, TypeOK
    <3>2. QED BY <2>2, <3>1 DEF NewSentMap
  <2>3. ASSUME NEW k \in Index, LostEnter(t, k) PROVE SlotInv'
    BY <2>3, NoThreadApart DEF LostEnter, vars
  <2>4. CASE LostErase(t)
    BY <2>4, NoThreadApart DEF LostErase, vars
  <2>5. CASE LostSentMap(t)
    <3>1. \A u \in Thread : u # t =>
            pc'[u] = pc[u] /\ idx'[u] = idx[u] /\ rest'[u] = rest[u]
      BY <2>5 DEF LostSentMap, DisconnectSlots, VisitEntry, Return, Leave, Forget, Goto,
         TypeOK
    <3>2. /\ spc' = [spc EXCEPT ![t] = "out"] /\ spc[t] = "erased"
          /\ cur' = [cur EXCEPT ![t] = NotFound] /\ sentMap' \subseteq Index
          /\ UNCHANGED <<setLock, connected, resMap, todo, answering, matching>>
      BY <2>5 DEF LostSentMap
    <3>3. QED BY <3>1, <3>2, IndexFacts
  <2>6. QED BY <1>11, <2>1, <2>2, <2>3, <2>4, <2>5 DEF SlotStep
<1>12. ASSUME NEW t \in User, BroadcastBegin(t) PROVE SlotInv'
  BY <1>12, NoThreadApart DEF BroadcastBegin, vars, SlotInv, GTypeOK, At
<1>13. ASSUME NEW t \in User, BroadcastEach(t) PROVE SlotInv'
  BY <1>13 DEF BroadcastEach, vars, SlotInv, GTypeOK
<1>14. ASSUME NEW t \in User, BroadcastEnd(t) PROVE SlotInv'
  BY <1>14, NoThreadApart DEF BroadcastEnd, vars, SlotInv, GTypeOK, At
<1>15. ASSUME NEW s \in Sock, StoreBegin(s) PROVE SlotInv'
  BY <1>15 DEF StoreBegin, vars, SlotInv, GTypeOK, IndexesOf, TypeOK
<1>16. CASE StoreEnd
  BY <1>16, IndexFacts DEF StoreEnd, vars, SlotInv, GTypeOK
<1>17. ASSUME NEW s \in Sock, MatchBegin(s) PROVE SlotInv'
  BY <1>17 DEF MatchBegin, vars, SlotInv, GTypeOK, IndexesOf, TypeOK
<1>18. ASSUME NEW s \in Sock, MatchEnd(s) PROVE SlotInv'
  BY <1>18, IndexFacts DEF MatchEnd, vars, SlotInv, GTypeOK
<1>19. CASE UNCHANGED allvars
  BY <1>19 DEF allvars, vars, gvars, SlotInv, GTypeOK
<1>20. QED
  BY <1>2, <1>3, <1>4, <1>5, <1>6, <1>7, <1>8, <1>9, <1>10, <1>11, <1>12, <1>13,
     <1>14, <1>15, <1>16, <1>17, <1>18, <1>19
     DEF GNext, GUserStep, GAcceptorStep, GReaderStep, GReadError

(* _lckSockets is exclusive and a slot runs to its end inside the call that
   started it, on every thread the communicator may call it from. *)
THEOREM SlotsExclude == GSpec => []SlotInv
<1>1. GInit => SlotInv
  BY Apart, IndexFacts, NoThreadApart
     DEF GInit, Init, SlotInv, GTypeOK
<1>2. RegistryInv /\ SlotInv /\ [GNext]_allvars => SlotInv'
  BY StepSlot
<1>3. QED BY <1>1, <1>2, GRegistry, PTL DEF GSpec

-----------------------------------------------------------------------------
(* What the slots were told of has its sent packets until it is told lost. *)
SentInv == \A k \in Index, s \in Sock : <<k, s>> \in opened /\ k \notin sentMap => lost[k] > 0

(* In OneClient, a connection is registered under no index but the one its slots were
   told, from before its first read on. *)
ClientInv ==
  /\ pc[Acceptor] = "idle"
  /\ \A u \in User :
       /\ pc[u] = "reg" => IndexesOf(sock[u]) = {}
       /\ pc[u] = "ret" => IndexesOf(sock[u]) \subseteq {socketIndex}
       /\ pc[u] \in {"connect", "newslots", "read"} => IndexesOf(sock[u]) \subseteq {idx[u]}
       /\ pc[u] = "read" => <<idx[u], sock[u]>> \in opened
  /\ \A s \in Sock : /\ pc[s] # "idle" => \A k \in IndexesOf(s) : <<k, s>> \in opened
                     /\ matching[s] # NotFound => <<matching[s], s>> \in opened

(* Until _socketIndex wraps each index is given out once, and what the only
   application thread is connecting stays registered. *)
FirstUse ==
  /\ \A k \in Index : regs[k] <= 1 /\ (k > socketIndex => regs[k] = 0)
  /\ \A u \in User : User = {u} /\ pc[u] \in {"ret", "connect", "newslots"} =>
       assigned[sock[u]] \in IndexesOf(sock[u])

(* Only two steps of the slots touch the sent packets and what is told. *)
LEMMA ToldBySlots ==
  ASSUME RegistryInv, [GNext]_allvars,
         ~\E t \in Thread : NewSentMap(t) \/ LostSentMap(t)
  PROVE  UNCHANGED <<opened, lost, sentMap>>
<1> USE Apart DEF gvars, vars
<1>1. ASSUME NEW t \in Thread, NewInsert(t) \/ LostErase(t) \/ \E k \in Index : LostEnter(t, k)
      PROVE  UNCHANGED <<opened, lost, sentMap>>
  BY <1>1 DEF NewInsert, LostErase, LostEnter
<1>2. ASSUME NEW t \in User, Call(t) \/ BroadcastBegin(t) \/ GUserStep(t)
      PROVE  UNCHANGED <<opened, lost, sentMap>>
  BY <1>1, <1>2 DEF Call, ConnectTo, CreateSocket, DisconnectAllBegin, CallDisconnect,
     BroadcastBegin, GUserStep, SlotStep, BroadcastEach, BroadcastEnd, RegisterSteps,
     RegisterSocket, RegisterReturn, ConnectOk, ConnectFails, DeregisterSocket, ReceivePacket,
     Disconnect, DisconnectAllEnd
<1>3. ASSUME GAcceptorStep \/ BindAndAccept \/ SocketAccept \/ AcceptNext,
             SlotStep(Acceptor) \/ UNCHANGED gvars
      PROVE  UNCHANGED <<opened, lost, sentMap>>
  BY <1>1, <1>3 DEF GAcceptorStep, BindAndAccept, AcceptNext, CreateSocket, SlotStep,
     RegisterSteps, RegisterSocket, RegisterReturn, Bind, FindAccepted, ReceivePacket,
     SocketAccept
<1>4. ASSUME NEW s \in Sock,
             GReaderStep(s) \/ StoreBegin(s) \/ MatchBegin(s) \/ GReadError(s)
      PROVE  UNCHANGED <<opened, lost, sentMap>>
  BY <1>1, <1>4 DEF GReaderStep, SlotStep, MatchEnd, GetSocketIndex, Disconnect, StoreBegin,
     MatchBegin, GReadError, ReadError
<1>5. CASE StoreEnd \/ UNCHANGED allvars
  BY <1>5 DEF StoreEnd, allvars
<1>6. QED BY <1>2, <1>3, <1>4, <1>5 DEF GNext, GAcceptorStep

(* The last step of a new-connection slot. *)
LEMMA NewTold ==
  ASSUME RegistryInv, NEW t \in Thread, NewSentMap(t)
  PROVE  /\ t \in Worker /\ pc[t] = "newslots" /\ idx[t] \in Index /\ sock[t] \in Sock
         /\ opened' = opened \cup {<<idx[t], sock[t]>>} /\ lost' = lost
         /\ sentMap' = sentMap \cup {idx[t]}
<1>1. NewConnectionSlots(t) /\ sentMap' = sentMap \cup {idx[t]} /\ pc[t] = "newslots"
  BY DEF NewSentMap, NewConnectionSlots
<1>2. t \in Worker
  BY <1>1, Apart DEF RegistryInv, ThreadInv, ReaderPC
<1>3. idx[t] \in Index /\ sock[t] \in Sock
  BY <1>1, <1>2 DEF RegistryInv, ThreadInv, TypeOK
<1>4. QED BY <1>1, <1>2, <1>3 DEF NewConnectionSlots

(* The last step of a disconnect slot. *)
LEMMA LostTold ==
  ASSUME RegistryInv, SlotInv, NEW t \in Thread, LostSentMap(t)
  PROVE  /\ cur[t] \in Index /\ sentMap' = sentMap \ {cur[t]}
         /\ lost' = [lost EXCEPT ![cur[t]] = @ + 1] /\ opened' = opened
<1>1. cur[t] \in Index /\ (pc[t] = "discslots" => cur[t] = idx[t])
  BY DEF SlotInv, GTypeOK, LostSentMap
<1>2. QED BY <1>1 DEF LostSentMap, DisconnectSlots, VisitEntry

(* Every step keeps the sent packets of what is told and not lost. *)
LEMMA StepSent == RegistryInv /\ SlotInv /\ SentInv /\ [GNext]_allvars => SentInv'
<1> SUFFICES ASSUME RegistryInv, SlotInv, SentInv, [GNext]_allvars PROVE SentInv'
  OBVIOUS
<1>0. lost \in [Index -> Nat]
  BY DEF RegistryInv, TypeOK
<1>1. ASSUME NEW t \in Thread, NewSentMap(t) PROVE SentInv'
  BY <1>1, NewTold DEF SentInv
<1>2. ASSUME NEW t \in Thread, LostSentMap(t) PROVE SentInv'
  <2>1. /\ cur[t] \in Index /\ sentMap' = sentMap \ {cur[t]} /\ opened' = opened
        /\ \A k \in Index : lost'[k] = IF k = cur[t] THEN lost[k] + 1 ELSE lost[k]
    BY <1>0, <1>2, LostTold
  <2>2. QED BY <1>0, <2>1 DEF SentInv
<1>3. CASE UNCHANGED <<opened, lost, sentMap>>
  BY <1>3 DEF SentInv
<1>4. QED BY <1>1, <1>2, <1>3, ToldBySlots

-----------------------------------------------------------------------------
(* Erasing entries gives no socket another index. *)
LEMMA Erased ==
  ASSUME DOMAIN map' \subseteq DOMAIN map, \A k \in DOMAIN map' : map'[k] = map[k]
  PROVE  \A s : IndexesOf(s)' \subseteq IndexesOf(s)
BY DEF IndexesOf

(* A step outside connectTo that takes no packet and enters nothing. *)
LEMMA ClientCalm ==
  ASSUME RegistryInv, ClientInv, UNCHANGED <<socketIndex, opened, matching>>,
         DOMAIN map' \subseteq DOMAIN map, \A k \in DOMAIN map' : map'[k] = map[k],
         \A t \in Thread : \/ UNCHANGED <<pc[t], sock[t], idx[t]>>
                           \/ t \in User /\ pc'[t] \in {"idle", "dereg", "disc", "discslots", "all"}
                           \/ t \in Sock /\ pc[t] # "idle"
  PROVE  ClientInv'
<1> USE Apart, Erased
<1>1. pc'[Acceptor] = "idle"
  BY DEF ClientInv
<1>2. ASSUME NEW u \in User, UNCHANGED <<pc[u], sock[u], idx[u]>>
      PROVE  /\ pc'[u] = "reg" => IndexesOf(sock[u])' = {}
             /\ pc'[u] = "ret" => IndexesOf(sock[u])' \subseteq {socketIndex'}
             /\ pc'[u] \in {"connect", "newslots", "read"} => IndexesOf(sock[u])' \subseteq {idx'[u]}
             /\ pc'[u] = "read" => <<idx'[u], sock'[u]>> \in opened'
  <2>1. IndexesOf(sock[u])' \subseteq IndexesOf(sock[u])
    BY <1>2 DEF IndexesOf
  <2>2. QED BY <1>2, <2>1 DEF ClientInv
<1>3. \A s \in Sock : /\ pc'[s] # "idle" => \A k \in IndexesOf(s)' : <<k, s>> \in opened'
                      /\ matching'[s] # NotFound => <<matching'[s], s>> \in opened'
  BY DEF ClientInv
<1>4. QED BY <1>1, <1>2, <1>3 DEF ClientInv

(* Every step keeps ClientInv where one thread connects and nobody listens. *)
LEMMA StepClient ==
  ASSUME OneClient, RegistryInv, SlotInv, ClientInv, [GNext]_allvars
  PROVE  ClientInv'
<1>a. TypeOK /\ ThreadInv /\ OwnerInv /\ HookInv
  BY DEF RegistryInv
<1> USE <1>a, Apart DEF TypeOK, Goto, gvars
<1>1. ASSUME NEW t \in User, ConnectTo(t), UNCHANGED gvars PROVE ClientInv'
  <2>1. PICK s \in Sock : /\ state[s] = "unborn" /\ sock' = [sock EXCEPT ![t] = s]
                          /\ pc' = [pc EXCEPT ![t] = "reg"]
                          /\ UNCHANGED <<map, socketIndex, idx, opened, matching>>
    BY <1>1 DEF ConnectTo, CreateSocket
  <2>2. IndexesOf(s) = {}
    BY <2>1 DEF OwnerInv
  <2>3. QED BY <2>1, <2>2 DEF ClientInv, IndexesOf
<1>2. ASSUME NEW t \in User, RegisterSocket(t), UNCHANGED gvars PROVE ClientInv'
  <2>1. PICK k \in Index :
          /\ k \notin DOMAIN map /\ socketIndex' = k
          /\ map' = [j \in DOMAIN map \cup {k} |-> IF j = k THEN sock[t] ELSE map[j]]
    BY <1>2 DEF RegisterSocket, IsNextFree
  <2>2. /\ pc[t] = "reg" /\ sock[t] \in Sock /\ pc[sock[t]] = "idle"
        /\ pc' = [pc EXCEPT ![t] = "ret"] /\ UNCHANGED <<sock, idx, opened, matching>>
    BY <1>2 DEF RegisterSocket, ThreadInv, UserPC, HookInv, Opening
  <2>3. IndexesOf(sock[t])' = {k}
    BY <2>1, <2>2 DEF ClientInv, IndexesOf
  <2>4. \A s \in Sock : s # sock[t] => IndexesOf(s)' = IndexesOf(s)
    BY <2>1 DEF IndexesOf
  <2>5. \A u \in User : u = t
    BY DEF OneClient
  <2>6. \A s \in Sock : pc'[s] # "idle" => \A j \in IndexesOf(s)' : <<j, s>> \in opened'
    BY <2>2, <2>4 DEF ClientInv
  <2>7. pc'[t] = "ret" /\ pc'[Acceptor] = "idle"
    BY <2>2 DEF ClientInv
  <2>8. QED BY <2>1, <2>2, <2>3, <2>5, <2>6, <2>7 DEF ClientInv
<1>3. ASSUME NEW t \in User, RegisterReturn(t), UNCHANGED gvars PROVE ClientInv'
  <2>1. /\ pc[t] = "ret" /\ pc' = [pc EXCEPT ![t] = "connect"]
        /\ idx' = [idx EXCEPT ![t] = socketIndex]
        /\ UNCHANGED <<map, socketIndex, sock, opened, matching>>
    BY <1>3 DEF RegisterReturn, AfterRegister, ThreadInv, UserPC
  <2>2. QED BY <2>1 DEF ClientInv, IndexesOf
<1>4. ASSUME NEW t \in User, ConnectOk(t), UNCHANGED gvars PROVE ClientInv'
  BY <1>4 DEF ConnectOk, ClientInv, IndexesOf
<1>5. ASSUME NEW t \in User, ConnectFails(t) \/ DeregisterSocket(t) \/ Disconnect(t)
                             \/ DisconnectAllEnd(t), UNCHANGED gvars
      PROVE  ClientInv'
  <2>1. DOMAIN map' \subseteq DOMAIN map /\ \A k \in DOMAIN map' : map'[k] = map[k]
    BY <1>5 DEF ConnectFails, DeregisterSocket, Disconnect, DisconnectAllEnd, Without
  <2>2. /\ UNCHANGED <<socketIndex, opened, matching>>
        /\ pc'[t] \in {"idle", "dereg", "disc", "discslots", "all"}
        /\ \A u \in Thread : u # t => UNCHANGED <<pc[u], sock[u], idx[u]>>
    BY <1>5 DEF ConnectFails, DeregisterSocket, Disconnect, DisconnectAllEnd, Return, Leave,
       Forget
  <2>3. QED BY <2>1, <2>2, ClientCalm
<1>6. ASSUME NEW t \in User, ReceivePacket(t), UNCHANGED gvars PROVE ClientInv'
  <2>1. pc[t] = "read" /\ sock[t] \in Sock
    BY <1>6 DEF ReceivePacket, ThreadInv
  <2>2. /\ pc'[t] = "idle" /\ pc'[sock[t]] = "reading"
        /\ \A u \in Thread : u # t /\ u # sock[t] => UNCHANGED <<pc[u], sock[u], idx[u]>>
        /\ UNCHANGED <<map, socketIndex, opened, matching>>
    BY <1>6, <2>1 DEF ReceivePacket, Forget
  <2>3. \A k \in IndexesOf(sock[t]) : <<k, sock[t]>> \in opened
    BY <2>1 DEF ClientInv
  <2>4. \A u \in User : u = t
    BY DEF OneClient
  <2>5. \A s \in Sock : IndexesOf(s)' = IndexesOf(s)
    BY <2>2 DEF IndexesOf
  <2>6. ASSUME NEW s \in Sock, pc'[s] # "idle", NEW k \in IndexesOf(s)
        PROVE  <<k, s>> \in opened
    <3>1. CASE s = sock[t]
      BY <2>3, <2>6, <3>1
    <3>2. CASE s # sock[t]
      <4>1. pc'[s] = pc[s]
        BY <2>2, <3>2
      <4>2. QED BY <2>6, <4>1 DEF ClientInv
    <3>3. QED BY <3>1, <3>2
  <2>7. pc'[Acceptor] = "idle"
    BY <2>1, <2>2 DEF ClientInv
  <2>8. QED BY <2>2, <2>4, <2>5, <2>6, <2>7 DEF ClientInv
<1>7. ASSUME NEW t \in User, Call(t), ~ConnectTo(t) PROVE ClientInv'
  BY <1>7, ClientCalm DEF Call, DisconnectAllBegin, CallDisconnect
<1>8. ASSUME NEW t \in Thread, NewSentMap(t) PROVE ClientInv'
  <2>1. /\ t \in User /\ pc[t] = "newslots"
        /\ opened' = opened \cup {<<idx[t], sock[t]>>}
    BY <1>8, NewTold DEF ClientInv, Worker
  <2>2. /\ pc' = [pc EXCEPT ![t] = "read"]
        /\ UNCHANGED <<map, socketIndex, sock, idx, matching>>
    BY <1>8, <2>1 DEF NewSentMap, NewConnectionSlots
  <2>3. QED BY <2>1, <2>2 DEF ClientInv, IndexesOf
<1>9. ASSUME NEW t \in Thread, LostSentMap(t) PROVE ClientInv'
  <2>1. /\ UNCHANGED <<map, socketIndex, opened, matching>>
        /\ \A u \in Thread : u # t => UNCHANGED <<pc[u], sock[u], idx[u]>>
    BY <1>9 DEF LostSentMap, DisconnectSlots, VisitEntry, Return, Leave, Forget
  <2>2. CASE VisitEntry(t, cur[t])
    BY <2>1, <2>2, ClientCalm DEF VisitEntry
  <2>3. CASE DisconnectSlots(t) /\ t \in User
    <3>1. pc'[t] = "idle"
      BY <2>3 DEF DisconnectSlots, Return, Leave
    <3>2. QED BY <2>1, <2>3, <3>1, ClientCalm
  <2>4. CASE DisconnectSlots(t) /\ t \in Sock
    BY <2>1, <2>4, ClientCalm DEF DisconnectSlots
  <2>5. t \in User \/ t \in Sock
    BY <1>9 DEF LostSentMap, DisconnectSlots, VisitEntry, ThreadInv, AcceptorPC, Worker
  <2>6. QED BY <1>9, <2>2, <2>3, <2>4, <2>5 DEF LostSentMap
<1>10. ASSUME UNCHANGED <<vars, matching>> PROVE ClientInv'
  BY <1>10 DEF ClientInv, IndexesOf, vars
<1>11. ASSUME NEW t \in Thread, SlotStep(t) PROVE ClientInv'
  <2>1. CASE NewInsert(t) \/ LostErase(t) \/ \E k \in Index : LostEnter(t, k)
    BY <1>10, <2>1 DEF NewInsert, LostErase, LostEnter
  <2>2. QED BY <1>8, <1>9, <1>11, <2>1 DEF SlotStep
<1>12. ASSUME NEW t \in User, GUserStep(t) PROVE ClientInv'
  <2>1. CASE BroadcastEach(t) \/ BroadcastEnd(t)
    BY <1>10, <2>1 DEF BroadcastEach, BroadcastEnd
  <2>2. QED BY <1>2, <1>3, <1>4, <1>5, <1>6, <1>11, <1>12, <2>1 DEF GUserStep, RegisterSteps
<1>13. ASSUME GAcceptorStep \/ BindAndAccept \/ SocketAccept \/ AcceptNext PROVE ClientInv'
  <2>1. pc[Acceptor] = "idle" /\ ~Listening
    BY DEF ClientInv, OneClient
  <2>2. SlotStep(Acceptor)
    BY <1>13, <2>1 DEF GAcceptorStep, BindAndAccept, SocketAccept, AcceptNext, RegisterSteps,
       RegisterSocket, RegisterReturn, Bind, FindAccepted, ReceivePacket
  <2>3. QED BY <1>11, <2>2
<1>14. ASSUME NEW s \in Sock, GReaderStep(s) PROVE ClientInv'
  <2>1. CASE MatchEnd(s)
    BY <2>1 DEF MatchEnd, ClientInv, IndexesOf, vars, SlotInv, GTypeOK
  <2>2. CASE (GetSocketIndex(s) \/ Disconnect(s)) /\ UNCHANGED gvars
    <3>1. DOMAIN map' \subseteq DOMAIN map /\ \A k \in DOMAIN map' : map'[k] = map[k]
      BY <2>2 DEF GetSocketIndex, Disconnect, Without
    <3>2. /\ UNCHANGED <<socketIndex, opened, matching>> /\ pc[s] # "idle"
          /\ \A u \in Thread : u # s => UNCHANGED <<pc[u], sock[u], idx[u]>>
      BY <2>2 DEF GetSocketIndex, Disconnect, Return, Leave, Forget
    <3>3. QED BY <3>1, <3>2, ClientCalm
  <2>3. QED BY <1>11, <1>14, <2>1, <2>2 DEF GReaderStep
<1>15. ASSUME NEW s \in Sock, GReadError(s) PROVE ClientInv'
  BY <1>15, ClientCalm DEF GReadError, ReadError
<1>16. ASSUME NEW s \in Sock, MatchBegin(s) PROVE ClientInv'
  <2>1. PICK k \in IndexesOf(s) : matching' = [matching EXCEPT ![s] = k]
    BY <1>16 DEF MatchBegin
  <2>2. pc[s] # "idle" /\ UNCHANGED vars
    BY <1>16 DEF MatchBegin
  <2>3. <<k, s>> \in opened
    BY <2>1, <2>2 DEF ClientInv
  <2>4. \A r \in Sock : matching'[r] # NotFound => <<matching'[r], r>> \in opened
    BY <2>1, <2>3 DEF ClientInv, SlotInv, GTypeOK
  <2>5. UNCHANGED <<map, socketIndex, pc, sock, idx, opened>>
    BY <2>2 DEF vars
  <2>6. QED BY <2>4, <2>5 DEF ClientInv, IndexesOf
<1>17. ASSUME NEW s \in Sock, StoreBegin(s) PROVE ClientInv'
  BY <1>10, <1>17 DEF StoreBegin
<1>18. ASSUME NEW t \in User, BroadcastBegin(t) PROVE ClientInv'
  BY <1>10, <1>18 DEF BroadcastBegin
<1>19. CASE StoreEnd \/ UNCHANGED allvars
  BY <1>10, <1>19 DEF StoreEnd, allvars
<1>20. QED
  BY <1>1, <1>7, <1>12, <1>13, <1>14, <1>15, <1>16, <1>17, <1>18, <1>19 DEF GNext, Call

(* A reader that looks for the request of a packet finds the sent packets of its
   connection, unless that was told lost after the lookup or, where the program
   listens, is not told new yet; for any number of threads where it listens, and
   one thread that connects where it does not. *)
THEOREM SentPacketsFound ==
  ASSUME Listening \/ OneClient
  PROVE  GSpec => []ReaderFindsSentMap
<1>1. GInit => SentInv /\ (OneClient => ClientInv)
  <2> SUFFICES ASSUME GInit PROVE SentInv /\ ClientInv
    OBVIOUS
  <2>1. /\ \A t \in Thread : pc[t] = "idle" /\ opened = {}
        /\ \A s \in Sock : matching[s] = NotFound
    BY DEF GInit, Init
  <2>2. QED BY <2>1, Apart DEF SentInv, ClientInv
<1>2. RegistryInv /\ SlotInv /\ SentInv /\ (OneClient => ClientInv) /\ [GNext]_allvars
        => SentInv' /\ (OneClient => ClientInv)'
  BY StepSent, StepClient DEF OneClient
<1>3. RegistryInv /\ SlotInv /\ SentInv /\ (OneClient => ClientInv) => ReaderFindsSentMap
  BY DEF SentInv, ClientInv, ReaderFindsSentMap, OneClient, SlotInv, GTypeOK
<1>4. QED BY <1>1, <1>2, <1>3, GRegistry, SlotsExclude, PTL DEF GSpec

-----------------------------------------------------------------------------
(* A step that registers nothing and leaves a connection that is being opened
   alone. *)
LEMMA FirstCalm ==
  ASSUME RegistryInv, FirstUse, UNCHANGED <<regs, socketIndex, assigned>>,
         \A u \in User : User = {u} /\ pc'[u] \in {"ret", "connect", "newslots"} =>
           /\ pc[u] \in {"ret", "connect", "newslots"} /\ sock'[u] = sock[u]
           /\ \A k \in DOMAIN map : map[k] = sock[u] => k \in DOMAIN map' /\ map'[k] = map[k]
  PROVE  FirstUse'
<1>1. \A k \in Index : regs'[k] <= 1 /\ (k > socketIndex' => regs'[k] = 0)
  BY DEF FirstUse
<1>2. ASSUME NEW u \in User, User = {u}, pc'[u] \in {"ret", "connect", "newslots"}
      PROVE  assigned'[sock'[u]] \in IndexesOf(sock[u])'
  BY <1>2 DEF FirstUse, IndexesOf
<1>3. QED BY <1>1, <1>2 DEF FirstUse

(* Every step of the communicator keeps FirstUse until _socketIndex wraps. *)
LEMMA StepFirst ==
  ASSUME RegistryInv, FirstUse, [Next]_vars, NotWrapped, NotWrapped'
  PROVE  FirstUse'
<1>a. TypeOK /\ ThreadInv /\ HookInv /\ IndexInv /\ OwnerInv
  BY DEF RegistryInv
<1> USE <1>a, Apart, IndexFacts DEF TypeOK, Goto
<1>1. ASSUME NEW t \in Worker, RegisterSocket(t) PROVE FirstUse'
  <2>1. PICK k \in Index :
          /\ IsNextFree(k) /\ socketIndex' = k /\ regs' = [regs EXCEPT ![k] = @ + 1]
          /\ map' = [j \in DOMAIN map \cup {k} |-> IF j = k THEN sock[t] ELSE map[j]]
          /\ assigned' = [assigned EXCEPT ![sock[t]] = k]
    BY <1>1 DEF RegisterSocket
  <2>2. k # LongMin
    BY <2>1 DEF NotWrapped
  <2>3. k = socketIndex + 1 /\ socketIndex \in Nat
    BY <2>1, <2>2, NextFreeIsNext DEF IndexInv
  <2>4. \A j \in Index : regs'[j] <= 1 /\ (j > socketIndex' => regs'[j] = 0)
    <3>1. regs[k] = 0
      BY <2>3 DEF FirstUse
    <3>2. \A j \in Index : regs'[j] = IF j = k THEN 1 ELSE regs[j]
      BY <2>1, <3>1
    <3>3. \A j \in Index : j > k => j > socketIndex /\ j # k
      BY <2>3
    <3>4. QED BY <2>1, <3>2, <3>3 DEF FirstUse
  <2>5. /\ \A u \in Thread : u # t => pc'[u] = pc[u]
        /\ sock' = sock /\ sock[t] \in Sock /\ k \notin DOMAIN map
    BY <1>1, <2>1 DEF RegisterSocket, ThreadInv, IsNextFree
  <2>6. assigned'[sock[t]] \in IndexesOf(sock[t])'
    BY <2>1, <2>5 DEF IndexesOf
  <2>7. ASSUME NEW u \in User, User = {u}, pc'[u] \in {"ret", "connect", "newslots"}, u # t
        PROVE  assigned'[sock'[u]] \in IndexesOf(sock[u])'
    <3>1. pc[u] \in {"ret", "connect", "newslots"} /\ sock[u] \in Sock
      BY <2>5, <2>7 DEF ThreadInv
    <3>2. sock[u] # sock[t]
      BY <2>5, <2>7 DEF OwnerInv
    <3>3. assigned'[sock[u]] = assigned[sock[u]] /\ assigned[sock[u]] \in IndexesOf(sock[u])
      BY <2>1, <2>7, <3>1, <3>2 DEF FirstUse
    <3>4. QED BY <2>1, <2>5, <3>3 DEF IndexesOf
  <2>8. QED BY <2>4, <2>5, <2>6, <2>7 DEF FirstUse
<1>2. ASSUME NEW t \in Thread, RegisterReturn(t) PROVE FirstUse'
  <2>1. /\ pc[t] \in {"ret", "reret"} /\ (t \in User => pc[t] = "ret")
        /\ \A u \in Thread : u # t => pc'[u] = pc[u]
        /\ UNCHANGED <<map, socketIndex, sock, regs, assigned>>
    BY <1>2 DEF RegisterReturn, ThreadInv, UserPC
  <2>2. QED BY <2>1, FirstCalm
<1>3. ASSUME NEW t \in User, ConnectOk(t) \/ NewConnectionSlots(t) PROVE FirstUse'
  <2>1. /\ pc[t] \in {"connect", "newslots"} /\ \A u \in Thread : u # t => pc'[u] = pc[u]
        /\ UNCHANGED <<map, socketIndex, sock, regs, assigned>>
    BY <1>3 DEF ConnectOk, NewConnectionSlots
  <2>2. QED BY <2>1, FirstCalm
<1>4. ASSUME NEW t \in User, UNCHANGED <<regs, socketIndex, assigned>>,
             pc'[t] \notin {"ret", "connect", "newslots"}
      PROVE  FirstUse'
  BY <1>4, FirstCalm
<1>5. ASSUME NEW t \in User,
             ConnectTo(t) \/ ConnectFails(t) \/ DeregisterSocket(t) \/ DisconnectSteps(t)
             \/ DisconnectAllBegin(t) \/ DisconnectAllEnd(t) \/ DisconnectAllEntry(t)
             \/ \E k \in Known : CallDisconnect(t, k)
      PROVE  FirstUse'
  <2>1. UNCHANGED <<regs, socketIndex, assigned>>
    BY <1>5 DEF ConnectTo, CreateSocket, ConnectFails, DeregisterSocket, DisconnectSteps,
       Disconnect, DisconnectSlots, DisconnectAllBegin, DisconnectAllEnd, DisconnectAllEntry,
       VisitEntry, CallDisconnect
  <2>2. pc'[t] \in {"reg", "dereg", "idle", "discslots", "all", "disc"}
    BY <1>5 DEF ConnectTo, CreateSocket, ConnectFails, DeregisterSocket, DisconnectSteps,
       Disconnect, DisconnectSlots, DisconnectAllBegin, DisconnectAllEnd, DisconnectAllEntry,
       VisitEntry, CallDisconnect, Return, Leave
  <2>3. QED BY <1>4, <2>1, <2>2
<1>6. ASSUME NEW t \in Worker, ReceivePacket(t) PROVE FirstUse'
  <2>1. /\ pc[t] = "read" /\ sock[t] \in Sock
        /\ UNCHANGED <<map, socketIndex, regs, assigned>>
    BY <1>6 DEF ReceivePacket, ThreadInv
  <2>2. \A u \in User : u # t => pc'[u] = pc[u] /\ sock'[u] = sock[u]
    BY <1>6, <2>1 DEF ReceivePacket, Forget
  <2>3. t \in User => pc'[t] = "idle"
    BY <1>6, <2>1 DEF ReceivePacket
  <2>4. QED BY <2>1, <2>2, <2>3, FirstCalm
<1>7. ASSUME BindAndAccept \/ SocketAccept \/ AcceptNext \/ Bind \/ FindAccepted
             \/ NewConnectionSlots(Acceptor)
      PROVE  FirstUse'
  <2>1. /\ UNCHANGED <<map, socketIndex, regs, assigned>>
        /\ \A u \in User : pc'[u] = pc[u] /\ sock'[u] = sock[u]
    BY <1>7 DEF BindAndAccept, SocketAccept, AcceptNext, Bind, FindAccepted, CreateSocket,
       NewConnectionSlots
  <2>2. QED BY <2>1, FirstCalm
<1>8. ASSUME NEW s \in Sock, Disconnect(s) PROVE FirstUse'
  <2>1. /\ \A u \in User : pc'[u] = pc[u] /\ sock'[u] = sock[u]
        /\ UNCHANGED <<regs, socketIndex, assigned>> /\ pc[s] = "disc"
    BY <1>8 DEF Disconnect, Return, Leave, Forget
  <2>2. \A u \in User : pc[u] \in {"ret", "connect", "newslots"} => sock[u] # s
    BY <2>1 DEF HookInv, Opening
  <2>3. \A k \in DOMAIN map : map[k] # s => k \in DOMAIN map' /\ map'[k] = map[k]
    BY <1>8, <2>1 DEF Disconnect, Without, IndexInv
  <2>4. QED BY <2>1, <2>2, <2>3, FirstCalm
<1>9. ASSUME NEW s \in Sock, ReadError(s) \/ GetSocketIndex(s) \/ DisconnectSlots(s)
      PROVE  FirstUse'
  <2>1. /\ UNCHANGED <<map, socketIndex, regs, assigned>>
        /\ \A u \in User : pc'[u] = pc[u] /\ sock'[u] = sock[u]
    BY <1>9 DEF ReadError, GetSocketIndex, DisconnectSlots, Return
  <2>2. QED BY <2>1, FirstCalm
<1>10. CASE UNCHANGED vars
  BY <1>10, FirstCalm DEF vars
<1>11. ASSUME NEW t \in User, UserStep(t) PROVE FirstUse'
  BY <1>1, <1>2, <1>3, <1>5, <1>6, <1>11 DEF UserStep, RegisterSteps
<1>12. CASE AcceptorStep
  BY <1>1, <1>2, <1>6, <1>7, <1>12 DEF AcceptorStep, RegisterSteps
<1>13. ASSUME NEW s \in Sock, ReaderStep(s) PROVE FirstUse'
  BY <1>8, <1>9, <1>13 DEF ReaderStep, DisconnectSteps
<1>14. QED BY <1>5, <1>7, <1>9, <1>10, <1>11, <1>12, <1>13 DEF Next

(* A connectTo that is not late tells of an index that was not told lost. *)
LEMMA NotToldLost ==
  ASSUME RegistryInv, NotifyInv, FirstUse, NEW t \in Worker, pc[t] = "newslots", ~MayBeLate(t)
  PROVE  lost[idx[t]] = 0
<1>1. t \in User /\ User = {t} /\ idx[t] = assigned[sock[t]]
  BY Apart DEF MayBeLate, Worker
<1>2. idx[t] \in DOMAIN map /\ idx[t] \in Index
  BY <1>1, Apart DEF FirstUse, IndexesOf, RegistryInv, TypeOK
<1>3. Untold(idx[t])
  BY <1>1, <1>2 DEF Untold
<1>4. Cardinality(Telling(idx[t])) \in Nat
  BY <1>2, FS_CardinalityType DEF NotifyInv, Account
<1>5. lost[idx[t]] + Cardinality(Telling(idx[t])) + 1 <= regs[idx[t]]
  BY <1>2, <1>3 DEF NotifyInv, Account
<1>6. regs[idx[t]] <= 1 /\ lost[idx[t]] \in Nat /\ regs[idx[t]] \in Nat
  BY <1>2 DEF FirstUse, RegistryInv, TypeOK
<1>7. QED BY <1>4, <1>5, <1>6

(* Until _socketIndex wraps, what the disconnect slots were told of has sent
   packets again only from a new-connection slot that is late: of an accepted
   connection, of a connectTo that was given another's index, or of one that
   another application thread disconnected; for any number of threads, whether
   the program listens or not. *)
THEOREM NothingKeptForLost == GSpec => SentMapForgotten
<1> DEFINE Inv == NotWrapped => FirstUse
<1>1. GInit => Inv
  <2> SUFFICES ASSUME GInit PROVE FirstUse
    OBVIOUS
  <2>1. (\A t \in Thread : pc[t] = "idle") /\ \A k \in Index : regs[k] = 0
    BY DEF GInit, Init
  <2>2. QED BY <2>1, Apart DEF FirstUse
<1>2. GInit => NotifyInv
  BY NotifyInit DEF GInit
<1>3. RegistryInv /\ NotifyInv /\ [GNext]_allvars => NotifyInv'
  BY GStepIsStep, StepNotify
<1>4. RegistryInv /\ Inv /\ [GNext]_allvars => Inv'
  <2> SUFFICES ASSUME RegistryInv, Inv, [GNext]_allvars, NotWrapped' PROVE FirstUse'
    OBVIOUS
  <2>1. NotWrapped /\ [Next]_vars
    BY GStepIsStep, NotWrappedBefore DEF RegistryInv
  <2>2. QED BY <2>1, StepFirst
<1>5. RegistryInv /\ SlotInv /\ NotifyInv /\ Inv /\ [GNext]_allvars =>
        [NotWrapped' => \A k \in sentMap' : lost'[k] > 0 =>
           \/ k \in sentMap /\ lost'[k] = lost[k]
           \/ \E t \in Worker : pc[t] = "newslots" /\ idx[t] = k /\ MayBeLate(t)]_allvars
  <2> SUFFICES ASSUME RegistryInv, SlotInv, NotifyInv, Inv, [GNext]_allvars, NotWrapped',
                      NEW k \in sentMap', lost'[k] > 0
               PROVE  \/ k \in sentMap /\ lost'[k] = lost[k]
                      \/ \E t \in Worker : pc[t] = "newslots" /\ idx[t] = k /\ MayBeLate(t)
    OBVIOUS
  <2>1. FirstUse
    BY GStepIsStep, NotWrappedBefore DEF RegistryInv
  <2>2. ASSUME NEW t \in Thread, NewSentMap(t), k \notin sentMap
        PROVE  \E u \in Worker : pc[u] = "newslots" /\ idx[u] = k /\ MayBeLate(u)
    <3>1. t \in Worker /\ pc[t] = "newslots" /\ k = idx[t] /\ lost' = lost
      BY <2>2, NewTold
    <3>2. MayBeLate(t)
      BY <2>1, <3>1, NotToldLost
    <3>3. QED BY <3>1, <3>2
  <2>3. ASSUME NEW t \in Thread, NewSentMap(t), k \in sentMap PROVE lost'[k] = lost[k]
    BY <2>3, NewTold
  <2>4. ASSUME NEW t \in Thread, LostSentMap(t) PROVE k \in sentMap /\ lost'[k] = lost[k]
    <3>1. sentMap' = sentMap \ {cur[t]} /\ lost' = [lost EXCEPT ![cur[t]] = @ + 1]
      BY <2>4, LostTold
    <3>2. k \in sentMap /\ k # cur[t] /\ k \in Index /\ lost \in [Index -> Nat]
      BY <3>1 DEF SlotInv, GTypeOK, RegistryInv, TypeOK
    <3>3. QED BY <3>1, <3>2
  <2>5. CASE UNCHANGED <<opened, lost, sentMap>>
    BY <2>5
  <2>6. QED BY <2>2, <2>3, <2>4, <2>5, ToldBySlots
<1>6. QED BY <1>1, <1>2, <1>3, <1>4, <1>5, GRegistry, SlotsExclude, PTL DEF GSpec, SentMapForgotten

-----------------------------------------------------------------------------
(* t is before a slot or between two slots of disconnectAll and needs
   _lckSockets; u is in one, or in a broadcast, and needs the registry's lock. *)
NeedsSockets(t) ==
  /\ spc[t] = "out"
  /\ pc[t] \in {"newslots", "discslots"} \/ (pc[t] = "all" /\ rest[t] # {})
NeedsRegistry(u) == spc[u] = "erasing" \/ (spc[u] = "broadcast" /\ todo[u] # {})

(* Each of two threads has the lock that the other needs. *)
CrossedLocks ==
  /\ lock # NoThread /\ setLock # NoThread /\ lock # setLock
  /\ NeedsSockets(lock) /\ NeedsRegistry(setLock)

(* A step after which the two threads are where they were. *)
LEMMA StillCrossed ==
  ASSUME CrossedLocks, UNCHANGED <<lock, setLock>>,
         pc'[lock] = pc[lock], rest'[lock] = rest[lock], spc'[lock] = spc[lock],
         spc'[setLock] = spc[setLock], todo'[setLock] = todo[setLock]
  PROVE  CrossedLocks'
BY DEF CrossedLocks, NeedsSockets, NeedsRegistry

(* What holds where the locks are crossed. *)
LEMMA CrossedFacts ==
  ASSUME RegistryInv, SlotInv, HeldInv, CrossedLocks
  PROVE  /\ lock \in User /\ setLock \in Thread /\ lock # NoThread /\ setLock # NoThread
         /\ pc[lock] = "all" /\ rest[lock] # {} /\ spc[lock] = "out"
         /\ spc[setLock] \in {"erasing", "broadcast"} /\ lock # setLock
         /\ spc[setLock] = "broadcast" => todo[setLock] # {}
         /\ \A v \in Thread : spc[v] \in {"erasing", "broadcast"} => v = setLock
         /\ \A v \in User : pc[v] = "all" => v = lock
<1>1. lock \in User /\ setLock \in Thread /\ lock # NoThread /\ setLock # NoThread
  BY DEF RegistryInv, TypeOK, SlotInv, GTypeOK, CrossedLocks
<1>2. pc[lock] = "all"
  BY <1>1 DEF HeldInv, CrossedLocks, NeedsSockets
<1>3. QED BY <1>1, <1>2 DEF SlotInv, HeldInv, CrossedLocks, NeedsSockets, NeedsRegistry

(* Neither of the two threads can take a step, and no other thread takes a lock
   from them. *)
LEMMA StepCrossed ==
  RegistryInv /\ SlotInv /\ HeldInv /\ CrossedLocks /\ [GNext]_allvars => CrossedLocks'
<1> SUFFICES ASSUME RegistryInv, SlotInv, HeldInv, CrossedLocks, [GNext]_allvars
             PROVE  CrossedLocks'
  OBVIOUS
<1>0. TypeOK /\ ThreadInv /\ GTypeOK
  BY DEF RegistryInv, SlotInv
<1>1. PICK t \in User, u \in Thread : t = lock /\ u = setLock
  BY CrossedFacts
<1>2. /\ lock # NoThread /\ setLock # NoThread /\ lock # u /\ t # u
      /\ pc[t] = "all" /\ rest[t] # {} /\ spc[t] = "out"
      /\ spc[u] \in {"erasing", "broadcast"} /\ (spc[u] = "broadcast" => todo[u] # {})
      /\ \A v \in Thread : spc[v] \in {"erasing", "broadcast"} => v = u
      /\ \A v \in User : pc[v] = "all" => v = t
  BY <1>1, CrossedFacts
<1>3. ASSUME UNCHANGED <<lock, setLock, todo>>, NEW v \in Thread, v # t, v # u,
             \A w \in Thread : w # v => spc'[w] = spc[w],
             pc'[t] = pc[t], rest'[t] = rest[t]
      PROVE  CrossedLocks'
  <2>1. spc'[t] = spc[t] /\ spc'[u] = spc[u] /\ t \in Thread
    BY <1>3, Apart
  <2>2. QED BY <1>1, <1>3, <2>1, StillCrossed
<1>4. ASSUME UNCHANGED <<lock, gvars>>, pc'[t] = pc[t], rest'[t] = rest[t] PROVE CrossedLocks'
  BY <1>1, <1>4, StillCrossed DEF gvars
<1> USE <1>0, Apart DEF TypeOK, GTypeOK, Goto
<1>5. ASSUME NEW v \in Thread, SlotStep(v) PROVE CrossedLocks'
  <2>1. ~NewInsert(v) /\ ~\E k \in Index : LostEnter(v, k)
    BY <1>2 DEF NewInsert, LostEnter
  <2>2. ~LostErase(v)
    <3>1. SUFFICES ASSUME LostErase(v) PROVE FALSE
      OBVIOUS
    <3>2. v = u /\ lock \in {NoThread, v}
      BY <3>1, <1>2 DEF LostErase
    <3>3. QED BY <3>2, <1>2
  <2>3. CASE NewSentMap(v)
    <3>1. spc[v] = "inserted" /\ v # t /\ v # u
      BY <2>3, <1>2 DEF NewSentMap
    <3>2. /\ UNCHANGED <<lock, setLock, todo, rest>> /\ pc'[t] = pc[t]
          /\ \A w \in Thread : w # v => spc'[w] = spc[w]
      BY <2>3, <3>1 DEF NewSentMap, NewConnectionSlots, At
    <3>3. QED BY <3>1, <3>2, <1>3
  <2>4. CASE LostSentMap(v)
    <3>1. spc[v] = "erased" /\ v # t /\ v # u
      BY <2>4, <1>2 DEF LostSentMap
    <3>2. /\ UNCHANGED <<setLock, todo>> /\ \A w \in Thread : w # v => spc'[w] = spc[w]
      BY <2>4 DEF LostSentMap, At
    <3>3. UNCHANGED lock /\ pc'[t] = pc[t] /\ rest'[t] = rest[t]
      BY <2>4, <3>1 DEF LostSentMap, DisconnectSlots, VisitEntry, Return, Leave
    <3>4. QED BY <3>1, <3>2, <3>3, <1>3
  <2>5. QED BY <1>5, <2>1, <2>2, <2>3, <2>4 DEF SlotStep
<1>6. ASSUME NEW v \in Worker, CreateSocket(v), pc[v] # "all", UNCHANGED gvars PROVE CrossedLocks'
  BY <1>2, <1>4, <1>6 DEF CreateSocket
<1>7. ASSUME NEW v \in Worker, RegisterSteps(v), UNCHANGED gvars PROVE CrossedLocks'
  BY <1>2, <1>4, <1>7 DEF RegisterSteps, RegisterSocket, RegisterReturn
<1>8. ASSUME NEW v \in User, ConnectOk(v) \/ ConnectFails(v), UNCHANGED gvars PROVE CrossedLocks'
  BY <1>2, <1>4, <1>8 DEF ConnectOk, ConnectFails
<1>9. ASSUME NEW v \in Worker, ReceivePacket(v), UNCHANGED gvars PROVE CrossedLocks'
  <2>1. sock[v] \in Sock /\ v # t
    BY <1>2, <1>9 DEF ReceivePacket, ThreadInv
  <2>2. UNCHANGED <<lock, rest>> /\ pc'[t] = pc[t]
    BY <1>9, <2>1 DEF ReceivePacket
  <2>3. QED BY <1>4, <1>9, <2>2
<1>10. ~\E v \in User : DeregisterSocket(v) \/ DisconnectAllEnd(v) \/ DisconnectAllBegin(v)
                        \/ BroadcastBegin(v) \/ BroadcastEach(v)
  BY <1>1, <1>2 DEF DeregisterSocket, DisconnectAllEnd, DisconnectAllBegin, BroadcastBegin,
     BroadcastEach
<1>11. ~\E v \in User : BroadcastEnd(v)
  <2>1. SUFFICES ASSUME NEW v \in User, BroadcastEnd(v) PROVE FALSE
    OBVIOUS
  <2>2. v = u /\ spc[u] = "broadcast" /\ todo[u] = {}
    BY <2>1, <1>2 DEF BroadcastEnd
  <2>3. QED BY <2>2, <1>2
<1>12. ~\E v \in Thread : Disconnect(v)
  BY <1>2 DEF Disconnect
<1>13. ASSUME Bind \/ SocketAccept \/ FindAccepted, UNCHANGED gvars PROVE CrossedLocks'
  BY <1>2, <1>4, <1>13 DEF Bind, SocketAccept, FindAccepted
<1>14. ASSUME BindAndAccept \/ AcceptNext, UNCHANGED gvars PROVE CrossedLocks'
  BY <1>6, <1>14 DEF BindAndAccept, AcceptNext
<1>15. ASSUME NEW s \in Sock, ReadError(s) \/ GetSocketIndex(s), UNCHANGED gvars PROVE CrossedLocks'
  BY <1>2, <1>4, <1>15 DEF ReadError, GetSocketIndex
<1>16. ASSUME NEW v \in User, Call(v) PROVE CrossedLocks'
  <2>1. CASE ConnectTo(v)
    BY <1>6, <1>16, <2>1 DEF Call, ConnectTo
  <2>2. ASSUME NEW k \in Known, CallDisconnect(v, k) PROVE CrossedLocks'
    BY <1>2, <1>4, <1>16, <2>2 DEF Call, CallDisconnect
  <2>3. QED BY <1>10, <1>16, <2>1, <2>2 DEF Call
<1>17. ASSUME NEW s \in Sock, StoreBegin(s) \/ MatchBegin(s) PROVE CrossedLocks'
  BY <1>2, <1>17 DEF StoreBegin, MatchBegin
<1>18. ASSUME NEW s \in Sock, MatchEnd(s) PROVE CrossedLocks'
  BY <1>18, StillCrossed DEF MatchEnd, vars
<1>19. CASE StoreEnd
  BY <1>19, StillCrossed DEF StoreEnd, vars
<1>20. CASE UNCHANGED allvars
  BY <1>20, StillCrossed DEF allvars, vars, gvars
<1>21. ASSUME NEW v \in User, GUserStep(v) PROVE CrossedLocks'
  BY <1>5, <1>7, <1>8, <1>9, <1>10, <1>11, <1>12, <1>21 DEF GUserStep
<1>22. ASSUME GAcceptorStep PROVE CrossedLocks'
  BY <1>5, <1>7, <1>9, <1>13, <1>14, <1>22 DEF GAcceptorStep
<1>23. ASSUME NEW s \in Sock, GReaderStep(s) PROVE CrossedLocks'
  BY <1>5, <1>12, <1>15, <1>18, <1>23 DEF GReaderStep
<1>24. QED
  BY <1>10, <1>13, <1>14, <1>15, <1>16, <1>17, <1>19, <1>20, <1>21, <1>22, <1>23
     DEF GNext, GReadError

(* The composition keeps the registry's lock as the communicator does. *)
LEMMA GHeld == GSpec => []HeldInv
<1>1. GInit => HeldInv
  BY Apart DEF GInit, Init, HeldInv
<1>2. RegistryInv /\ HeldInv /\ [GNext]_allvars => HeldInv'
  BY GStepIsStep, StepHeld
<1>3. QED BY <1>1, <1>2, GRegistry, PTL DEF GSpec

(* disconnectAll calls the slots with the registry's lock, where a slot or a
   broadcast asks for that lock with _lckSockets: once both are under way at
   that point, disconnectAll never returns. *)
THEOREM CrossedForGood == GSpec => [](CrossedLocks => [](\E t \in User : pc[t] = "all"))
<1> DEFINE Hangs == \E t \in User : pc[t] = "all"
<1>1. RegistryInv /\ SlotInv /\ HeldInv /\ CrossedLocks => Hangs
  BY CrossedFacts
<1> HIDE DEF Hangs
<1>2. GSpec => [](CrossedLocks => []Hangs)
  BY <1>1, StepCrossed, GRegistry, SlotsExclude, GHeld, PTL DEF GSpec
<1>3. QED BY <1>2 DEF Hangs

(* Nothing but disconnectAll crosses them: disconnect and the accept handler
   call the slots without the registry's lock. *)
THEOREM OnlyDisconnectAllCrosses ==
  ASSUME ~MayDisconnectAll
  PROVE  GSpec => []~CrossedLocks
<1> DEFINE NoAll == \A t \in User : pc[t] # "all"
<1>1. GInit => NoAll
  BY Apart DEF GInit, Init
<1>2. RegistryInv /\ NoAll /\ [GNext]_allvars => NoAll'
  <2> SUFFICES ASSUME RegistryInv, NoAll, [GNext]_allvars PROVE NoAll'
    OBVIOUS
  <2>0. TypeOK /\ ThreadInv
    BY DEF RegistryInv
  <2>1. ASSUME NEW v \in Thread, \A w \in Thread : w # v => pc'[w] = pc[w], pc'[v] # "all"
        PROVE  NoAll'
    BY <2>1, Apart
  <2>2. ASSUME UNCHANGED pc PROVE NoAll'
    BY <2>2
  <2> HIDE DEF NoAll
  <2> USE <2>0, Apart DEF TypeOK, Goto, Worker
  <2>3. ASSUME NEW v \in Thread, SlotStep(v) PROVE NoAll'
    <3>1. CASE NewSentMap(v)
      BY <3>1, <2>1 DEF NewSentMap, NewConnectionSlots
    <3>2. CASE LostSentMap(v)
      BY <3>2, <2>1, <2>2 DEF LostSentMap, DisconnectSlots, VisitEntry, Return, Leave
    <3>3. CASE NewInsert(v) \/ LostErase(v) \/ \E k \in Index : LostEnter(v, k)
      BY <3>3, <2>2 DEF NewInsert, LostErase, LostEnter, vars
    <3>4. QED BY <2>3, <3>1, <3>2, <3>3 DEF SlotStep
  <2>4. ASSUME NEW v \in Worker, CreateSocket(v) \/ RegisterSteps(v) PROVE NoAll'
    BY <2>1, <2>4 DEF CreateSocket, RegisterSteps, RegisterSocket, RegisterReturn, AfterRegister
  <2>5. ASSUME NEW v \in User, ConnectOk(v) \/ ConnectFails(v) \/ DisconnectAllEnd(v) PROVE NoAll'
    <3>1. pc' = [pc EXCEPT ![v] = "newslots"] \/ pc' = [pc EXCEPT ![v] = "dereg"]
          \/ pc' = [pc EXCEPT ![v] = "idle"]
      BY <2>5 DEF ConnectOk, ConnectFails, DisconnectAllEnd
    <3>2. QED BY <2>1, <3>1
  <2>6. ASSUME NEW v \in User, DeregisterSocket(v) PROVE NoAll'
    BY <2>1, <2>2, <2>6 DEF DeregisterSocket, Leave
  <2>7. ASSUME NEW v \in Worker, ReceivePacket(v) PROVE NoAll'
    <3>1. sock[v] \in Sock /\ v \in Thread /\ v # sock[v]
      BY <2>7 DEF ReceivePacket, ThreadInv
    <3>2. \A w \in User : pc'[w] \in {pc[w], "idle"}
      BY <2>7, <3>1 DEF ReceivePacket
    <3>3. QED BY <3>2 DEF NoAll
  <2>8. ASSUME NEW v \in Thread, Disconnect(v) PROVE NoAll'
    BY <2>1, <2>8 DEF Disconnect, Return, Leave
  <2>9. ASSUME Bind \/ SocketAccept \/ FindAccepted PROVE NoAll'
    BY <2>1, <2>9 DEF Bind, SocketAccept, FindAccepted
  <2>10. ASSUME BindAndAccept \/ AcceptNext PROVE NoAll'
    BY <2>4, <2>10 DEF BindAndAccept, AcceptNext
  <2>11. ASSUME NEW s \in Sock, ReadError(s) \/ GetSocketIndex(s) PROVE NoAll'
    BY <2>1, <2>11 DEF ReadError, GetSocketIndex
  <2>12. ASSUME NEW v \in User, Call(v) PROVE NoAll'
    <3>1. CASE ConnectTo(v)
      BY <2>4, <3>1 DEF ConnectTo
    <3>2. ASSUME NEW k \in Known, CallDisconnect(v, k) PROVE NoAll'
      BY <2>1, <3>2 DEF CallDisconnect
    <3>3. QED BY <2>12, <3>1, <3>2 DEF Call
  <2>13. ASSUME NEW v \in User, BroadcastBegin(v) \/ BroadcastEach(v) \/ BroadcastEnd(v)
         PROVE  NoAll'
    BY <2>2, <2>13 DEF BroadcastBegin, BroadcastEach, BroadcastEnd, vars
  <2>14. ASSUME NEW s \in Sock, StoreBegin(s) \/ MatchBegin(s) \/ MatchEnd(s) PROVE NoAll'
    BY <2>2, <2>14 DEF StoreBegin, MatchBegin, MatchEnd, vars
  <2>15. CASE StoreEnd \/ UNCHANGED allvars
    BY <2>2, <2>15 DEF StoreEnd, allvars, vars
  <2>16. ASSUME NEW v \in User, GUserStep(v) PROVE NoAll'
    BY <2>3, <2>4, <2>5, <2>6, <2>7, <2>8, <2>13, <2>16 DEF GUserStep
  <2>17. ASSUME GAcceptorStep PROVE NoAll'
    BY <2>3, <2>4, <2>7, <2>9, <2>10, <2>17 DEF GAcceptorStep
  <2>18. ASSUME NEW s \in Sock, GReaderStep(s) PROVE NoAll'
    BY <2>3, <2>8, <2>11, <2>14, <2>18 DEF GReaderStep
  <2>19. QED
    BY <2>9, <2>10, <2>11, <2>12, <2>13, <2>14, <2>15, <2>16, <2>17, <2>18 DEF GNext, GReadError
<1>3. HeldInv /\ RegistryInv /\ NoAll => ~CrossedLocks
  BY DEF HeldInv, RegistryInv, TypeOK, CrossedLocks, NeedsSockets
<1>4. QED BY <1>1, <1>2, <1>3, GRegistry, GHeld, PTL DEF GSpec
=============================================================================
