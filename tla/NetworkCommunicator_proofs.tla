--------------------- MODULE NetworkCommunicator_proofs ---------------------
(***************************************************************************)
(* The registry of CNetworkCommunicator for any number of sockets, threads *)
(* and width of its index: the inductive invariant, that no socket has two *)
(* indexes, that a broken connection never disconnects another one, that   *)
(* the disconnect slots hear of no connection twice, and when connectTo    *)
(* returns the index of its own socket.                                    *)
(***************************************************************************)
EXTENDS NetworkCommunicator, FiniteSetTheorems, TLAPS

(* No thread, socket or marker is mistaken for another. *)
LEMMA Apart ==
  /\ Sock \subseteq Thread /\ User \subseteq Thread /\ Acceptor \in Thread
  /\ Worker \subseteq Thread /\ User \subseteq Worker /\ Acceptor \in Worker
  /\ Sock \cap Worker = {} /\ NoSock \notin Sock /\ Acceptor \notin User
  /\ Thread = Worker \cup Sock
BY ThreadAssumption DEF Thread, Worker

(* The constants and 0 are indexes, LongMin is below all others. *)
LEMMA IndexFacts ==
  /\ NotFound \in Index /\ 0 \in Index /\ LongMin \in Index /\ LongMin < -1
  /\ Index \subseteq Int
BY LongAssumption DEF Index, LongMin, NotFound

(* Initially nothing is registered and every thread is outside. *)
LEMMA InitInv == Init => RegistryInv
<1> SUFFICES ASSUME Init PROVE RegistryInv
  OBVIOUS
<1>1. map = << >> /\ DOMAIN map = {}
  BY DEF Init
<1>2. TypeOK
  <2>1. map \in [DOMAIN map -> Sock] /\ DOMAIN map \subseteq Index
    BY <1>1
  <2>2. QED
    BY <2>1, IndexFacts DEF Init, TypeOK, SocketState, PC, Thread
<1>3. ThreadInv
  BY Apart DEF Init, ThreadInv, UserPC, AcceptorPC, ReaderPC, Thread
<1>4. OwnerInv
  BY <1>1, Apart DEF Init, OwnerInv, IndexesOf
<1>5. HookInv
  BY Apart DEF Init, HookInv, Opening
<1>6. IndexInv
  BY <1>1, Apart DEF Init, IndexInv, IsInjective, IndexesOf
<1>7. QED BY <1>2, <1>3, <1>4, <1>5, <1>6 DEF RegistryInv

-----------------------------------------------------------------------------
(* Every step of every thread keeps the types.  HookInv is needed where a
   read chain counts its disconnect callbacks down. *)
LEMMA StepType == TypeOK /\ ThreadInv /\ HookInv /\ [Next]_vars => TypeOK'
<1> SUFFICES ASSUME TypeOK, ThreadInv, HookInv, [Next]_vars PROVE TypeOK'
  OBVIOUS
<1> USE Apart, IndexFacts DEF TypeOK, SocketState, PC, Goto
<1>1. ASSUME NEW t \in Worker, CreateSocket(t) PROVE TypeOK'
  BY <1>1 DEF CreateSocket
<1>2. ASSUME NEW t \in Worker, RegisterSocket(t) PROVE TypeOK'
  <2>1. sock[t] \in Sock
    BY <1>2 DEF RegisterSocket, ThreadInv
  <2>2. map' \in [DOMAIN map' -> Sock] /\ DOMAIN map' \subseteq Index
    BY <1>2, <2>1 DEF RegisterSocket
  <2>3. /\ socketIndex' \in Index /\ assigned' \in [Sock -> Index]
        /\ regs' \in [Index -> Nat]
    BY <1>2, <2>1 DEF RegisterSocket
  <2>4. pc' \in [Thread -> PC]
    BY <1>2 DEF RegisterSocket
  <2>5. QED BY <1>2, <2>2, <2>3, <2>4 DEF RegisterSocket
<1>3. ASSUME NEW t \in Worker, RegisterReturn(t) PROVE TypeOK'
  <2>1. AfterRegister(t) \in PC
    BY DEF AfterRegister
  <2>2. sock[t] \in Sock
    BY <1>3 DEF RegisterReturn, ThreadInv
  <2>3. hooks' \in [Sock -> Nat] /\ idx' \in [Thread -> Index]
    BY <1>3, <2>2 DEF RegisterReturn
  <2>4. pc' \in [Thread -> PC]
    BY <1>3, <2>1 DEF RegisterReturn
  <2>5. QED BY <1>3, <2>3, <2>4 DEF RegisterReturn
<1>4. ASSUME NEW t \in User, ConnectOk(t) \/ ConnectFails(t) PROVE TypeOK'
  BY <1>4 DEF ConnectOk, ConnectFails, Close
<1>5. ASSUME NEW t \in User, DeregisterSocket(t) PROVE TypeOK'
  <2>1. map' \in [DOMAIN map' -> Sock] /\ DOMAIN map' \subseteq Index
    BY <1>5 DEF DeregisterSocket, Without
  <2>2. /\ lock' \in User \cup {NoThread}
        /\ pc' \in [Thread -> PC] /\ sock' \in [Thread -> Sock \cup {NoSock}]
        /\ idx' \in [Thread -> Index]
    BY <1>5 DEF DeregisterSocket, Leave, Forget
  <2>3. QED BY <1>5, <2>1, <2>2 DEF DeregisterSocket
<1>6. ASSUME NEW t \in Worker, NewConnectionSlots(t) PROVE TypeOK'
  <2>1. sock[t] \in Sock
    BY <1>6 DEF NewConnectionSlots, ThreadInv
  <2>2. QED BY <1>6, <2>1 DEF NewConnectionSlots
<1>7. ASSUME NEW t \in Worker, ReceivePacket(t) PROVE TypeOK'
  BY <1>7 DEF ReceivePacket, Forget
<1>8. CASE Bind \/ SocketAccept
  <2>1. CASE Bind
    BY <2>1 DEF Bind, Close
  <2>2. CASE SocketAccept
    BY <2>2 DEF SocketAccept, Close
  <2>3. QED BY <1>8, <2>1, <2>2
<1>9. CASE FindAccepted
  BY <1>9 DEF FindAccepted, Lookup, IndexesOf
<1>10. ASSUME NEW t \in User, NEW k \in Known, CallDisconnect(t, k) PROVE TypeOK'
  BY <1>10 DEF CallDisconnect, Known
<1>11. ASSUME NEW t \in Thread, pc[t] \in {"disc", "discslots"}, Return(t),
              t \in User \cup Sock
       PROVE  /\ hooks' \in [Sock -> Nat] /\ pc' \in [Thread -> PC]
              /\ sock' \in [Thread -> Sock \cup {NoSock}] /\ idx' \in [Thread -> Index]
  <2>1. CASE t \in User
    BY <1>11, <2>1 DEF Return, Leave, Forget
  <2>2. CASE t \in Sock
    <3>1. hooks[t] > 0 /\ t \notin User
      BY <1>11, <2>2 DEF HookInv
    <3>2. QED BY <1>11, <2>2, <3>1 DEF Return
  <2>3. QED BY <1>11, <2>1, <2>2
<1>12. ASSUME NEW t \in User \cup Sock, Disconnect(t) PROVE TypeOK'
  <2>1. CASE idx[t] \in DOMAIN map
    <3>1. map' \in [DOMAIN map' -> Sock] /\ DOMAIN map' \subseteq Index
      BY <1>12, <2>1 DEF Disconnect, Without
    <3>2. QED BY <1>12, <2>1, <3>1 DEF Disconnect, Close
  <2>2. CASE idx[t] \notin DOMAIN map
    BY <1>12, <2>2, <1>11 DEF Disconnect
  <2>3. QED BY <2>1, <2>2
<1>13. ASSUME NEW t \in User \cup Sock, DisconnectSlots(t) PROVE TypeOK'
  BY <1>13, <1>11 DEF DisconnectSlots
<1>14. ASSUME NEW t \in User, DisconnectAllBegin(t) PROVE TypeOK'
  <2>1. rest' \in [Thread -> SUBSET Index] /\ lock' \in User
    BY <1>14 DEF DisconnectAllBegin
  <2>2. pc' \in [Thread -> PC]
    BY <1>14 DEF DisconnectAllBegin
  <2>3. QED BY <1>14, <2>1, <2>2 DEF DisconnectAllBegin
<1>15. ASSUME NEW t \in User, NEW k \in rest[t], VisitEntry(t, k) PROVE TypeOK'
  <2>1. k \in Index /\ lost[k] \in Nat
    BY <1>15
  <2>2. rest' \in [Thread -> SUBSET Index] /\ lost' \in [Index -> Nat]
    BY <1>15, <2>1 DEF VisitEntry
  <2>3. state' \in [Sock -> SocketState]
    BY <1>15 DEF VisitEntry, Close
  <2>4. QED BY <1>15, <2>2, <2>3 DEF VisitEntry
<1>16. ASSUME NEW t \in User, DisconnectAllEnd(t) PROVE TypeOK'
  <2>1. map' \in [DOMAIN map' -> Sock] /\ DOMAIN map' \subseteq Index
    BY <1>16 DEF DisconnectAllEnd
  <2>2. QED BY <1>16, <2>1 DEF DisconnectAllEnd
<1>17. ASSUME NEW s \in Sock, ReadError(s) PROVE TypeOK'
  BY <1>17 DEF ReadError
<1>18. ASSUME NEW s \in Sock, GetSocketIndex(s) PROVE TypeOK'
  BY <1>18 DEF GetSocketIndex, Lookup, IndexesOf
<1>19. CASE UNCHANGED vars
  BY <1>19 DEF vars
<1>20. QED
  BY <1>1, <1>2, <1>3, <1>4, <1>5, <1>6, <1>7, <1>8, <1>9, <1>10, <1>12, <1>13,
     <1>14, <1>15, <1>16, <1>17, <1>18, <1>19
     DEF Next, UserStep, AcceptorStep, ReaderStep, RegisterSteps, DisconnectSteps,
         ConnectTo, BindAndAccept, AcceptNext, DisconnectAllEntry

(* A thread only enters the operations its kind calls, and has a socket in
   those that need one. *)
LEMMA StepThread == TypeOK /\ ThreadInv /\ [Next]_vars => ThreadInv'
<1> SUFFICES ASSUME TypeOK, ThreadInv, [Next]_vars PROVE ThreadInv'
  OBVIOUS
<1> USE Apart DEF TypeOK, ThreadInv, UserPC, AcceptorPC, ReaderPC, Goto
<1>1. ASSUME NEW t \in Worker, CreateSocket(t) PROVE ThreadInv'
  BY <1>1 DEF CreateSocket
<1>2. ASSUME NEW t \in Worker, RegisterSocket(t) PROVE ThreadInv'
  BY <1>2 DEF RegisterSocket
<1>3. ASSUME NEW t \in Worker, RegisterReturn(t) PROVE ThreadInv'
  BY <1>3 DEF RegisterReturn, AfterRegister
<1>4. ASSUME NEW t \in User, ConnectOk(t) \/ ConnectFails(t) PROVE ThreadInv'
  BY <1>4 DEF ConnectOk, ConnectFails
<1>5. ASSUME NEW t \in User, DeregisterSocket(t) PROVE ThreadInv'
  BY <1>5 DEF DeregisterSocket, Leave, Forget
<1>6. ASSUME NEW t \in Worker, NewConnectionSlots(t) PROVE ThreadInv'
  BY <1>6 DEF NewConnectionSlots
<1>7. ASSUME NEW t \in Worker, ReceivePacket(t) PROVE ThreadInv'
  <2>1. sock[t] \in Sock /\ pc'[sock[t]] = "reading"
    BY <1>7 DEF ReceivePacket
  <2>2. pc'[t] = (IF t \in User THEN "idle" ELSE "newslots")
    BY <1>7, <2>1 DEF ReceivePacket
  <2>3. \A u \in Thread : u # t /\ u # sock[t] => pc'[u] = pc[u]
    BY <1>7 DEF ReceivePacket
  <2>4. \A u \in Thread : u # t \/ u \notin User => sock'[u] = sock[u]
    BY <1>7 DEF ReceivePacket, Forget
  <2>5. QED BY <1>7, <2>1, <2>2, <2>3, <2>4
<1>8. CASE Bind \/ SocketAccept
  BY <1>8 DEF Bind, SocketAccept
<1>9. CASE FindAccepted
  BY <1>9 DEF FindAccepted
<1>10. ASSUME NEW t \in User, NEW k \in Known, CallDisconnect(t, k) PROVE ThreadInv'
  BY <1>10 DEF CallDisconnect
<1>11. ASSUME NEW t \in User, Disconnect(t) \/ DisconnectSlots(t) PROVE ThreadInv'
  BY <1>11 DEF Disconnect, DisconnectSlots, Return, Leave, Forget
<1>12. ASSUME NEW s \in Sock, Disconnect(s) \/ DisconnectSlots(s) PROVE ThreadInv'
  BY <1>12 DEF Disconnect, DisconnectSlots, Return
<1>13. ASSUME NEW t \in User, DisconnectAllBegin(t) \/ DisconnectAllEnd(t) PROVE ThreadInv'
  <2>1. CASE DisconnectAllBegin(t)
    BY <2>1 DEF DisconnectAllBegin
  <2>2. CASE DisconnectAllEnd(t)
    BY <2>2 DEF DisconnectAllEnd
  <2>3. QED BY <1>13, <2>1, <2>2
<1>14. ASSUME NEW t \in User, NEW k \in rest[t], VisitEntry(t, k) PROVE ThreadInv'
  BY <1>14 DEF VisitEntry
<1>15. ASSUME NEW s \in Sock, ReadError(s) \/ GetSocketIndex(s) PROVE ThreadInv'
  BY <1>15 DEF ReadError, GetSocketIndex
<1>16. CASE UNCHANGED vars
  BY <1>16 DEF vars
<1>17. QED
  BY <1>1, <1>2, <1>3, <1>4, <1>5, <1>6, <1>7, <1>8, <1>9, <1>10, <1>11, <1>12,
     <1>13, <1>14, <1>15, <1>16
     DEF Next, UserStep, AcceptorStep, ReaderStep, RegisterSteps, DisconnectSteps,
         ConnectTo, BindAndAccept, AcceptNext, DisconnectAllEntry

(* Sockets are only handed to the thread that created them. *)
LEMMA StepOwner == TypeOK /\ ThreadInv /\ OwnerInv /\ [Next]_vars => OwnerInv'
<1> SUFFICES ASSUME TypeOK, ThreadInv, OwnerInv, [Next]_vars PROVE OwnerInv'
  OBVIOUS
<1> USE Apart DEF TypeOK, OwnerInv, Goto, IndexesOf
<1>1. ASSUME NEW t \in Worker, CreateSocket(t) PROVE OwnerInv'
  BY <1>1 DEF CreateSocket
<1>2. ASSUME NEW t \in Worker, RegisterSocket(t) PROVE OwnerInv'
  <2>1. sock[t] \in Sock
    BY <1>2 DEF RegisterSocket, ThreadInv
  <2>2. \A s \in Sock : IndexesOf(s) = {} /\ s # sock[t] => IndexesOf(s)' = {}
    BY <1>2 DEF RegisterSocket
  <2>3. QED BY <1>2, <2>1, <2>2 DEF RegisterSocket
<1>3. ASSUME NEW t \in Worker, RegisterReturn(t) PROVE OwnerInv'
  BY <1>3 DEF RegisterReturn, ThreadInv
<1>4. ASSUME NEW t \in User, ConnectOk(t) \/ ConnectFails(t) PROVE OwnerInv'
  BY <1>4 DEF ConnectOk, ConnectFails, Close
<1>5. ASSUME NEW t \in User, DeregisterSocket(t) PROVE OwnerInv'
  BY <1>5 DEF DeregisterSocket, Leave, Forget, Without
<1>6. ASSUME NEW t \in Worker, NewConnectionSlots(t) PROVE OwnerInv'
  BY <1>6 DEF NewConnectionSlots
<1>7. ASSUME NEW t \in Worker, ReceivePacket(t) PROVE OwnerInv'
  BY <1>7 DEF ReceivePacket, Forget
<1>8. CASE Bind \/ SocketAccept
  BY <1>8 DEF Bind, SocketAccept, Close
<1>9. CASE FindAccepted
  BY <1>9 DEF FindAccepted
<1>10. ASSUME NEW t \in User, NEW k \in Known, CallDisconnect(t, k) PROVE OwnerInv'
  BY <1>10 DEF CallDisconnect
<1>11. ASSUME NEW t \in User, Disconnect(t) \/ DisconnectSlots(t) PROVE OwnerInv'
  BY <1>11 DEF Disconnect, DisconnectSlots, Return, Leave, Forget, Close, Without
<1>12. ASSUME NEW s \in Sock, Disconnect(s) \/ DisconnectSlots(s) PROVE OwnerInv'
  BY <1>12 DEF Disconnect, DisconnectSlots, Return, Close, Without
<1>13. ASSUME NEW t \in User, DisconnectAllBegin(t) \/ DisconnectAllEnd(t) PROVE OwnerInv'
  BY <1>13 DEF DisconnectAllBegin, DisconnectAllEnd
<1>14. ASSUME NEW t \in User, NEW k \in rest[t], VisitEntry(t, k) PROVE OwnerInv'
  BY <1>14 DEF VisitEntry, Close
<1>15. ASSUME NEW s \in Sock, ReadError(s) \/ GetSocketIndex(s) PROVE OwnerInv'
  BY <1>15 DEF ReadError, GetSocketIndex
<1>16. CASE UNCHANGED vars
  BY <1>16 DEF vars
<1>17. QED
  BY <1>1, <1>2, <1>3, <1>4, <1>5, <1>6, <1>7, <1>8, <1>9, <1>10, <1>11, <1>12,
     <1>13, <1>14, <1>15, <1>16
     DEF Next, UserStep, AcceptorStep, ReaderStep, RegisterSteps, DisconnectSteps,
         ConnectTo, BindAndAccept, AcceptNext, DisconnectAllEntry

(* A socket's callbacks are registered before its first read, and only its
   read chain takes them off. *)
LEMMA StepHook ==
  TypeOK /\ ThreadInv /\ OwnerInv /\ HookInv /\ [Next]_vars => HookInv'
<1> SUFFICES ASSUME TypeOK, ThreadInv, OwnerInv, HookInv, [Next]_vars PROVE HookInv'
  OBVIOUS
<1> USE Apart DEF TypeOK, HookInv, Opening, Goto
<1>1. ASSUME NEW t \in Worker, CreateSocket(t) PROVE HookInv'
  BY <1>1 DEF CreateSocket, OwnerInv, ThreadInv
<1>2. ASSUME NEW t \in Worker, RegisterSocket(t) PROVE HookInv'
  BY <1>2 DEF RegisterSocket, ThreadInv
<1>3. ASSUME NEW t \in Worker, RegisterReturn(t) PROVE HookInv'
  <2>1. sock[t] \in Sock /\ Opening(t) /\ pc[sock[t]] = "idle"
    BY <1>3 DEF RegisterReturn, ThreadInv
  <2>2. /\ hooks' \in [Sock -> Nat] /\ hooks'[sock[t]] > 0
        /\ \A s \in Sock : hooks[s] > 0 => hooks'[s] > 0
    BY <1>3, <2>1 DEF RegisterReturn
  <2>3. \A u \in Thread : u # t => pc'[u] = pc[u]
    BY <1>3 DEF RegisterReturn
  <2>4. \A u \in Worker : Opening(u) => sock[u] \in Sock
    BY DEF ThreadInv
  <2>5. sock' = sock
    BY <1>3 DEF RegisterReturn
  <2>6. \A u \in Worker : u # t /\ Opening(u)' =>
          /\ pc'[sock'[u]] = "idle"
          /\ pc'[u] \notin {"reg", "ret"} => hooks'[sock'[u]] > 0
    BY <2>2, <2>3, <2>4, <2>5
  <2>7. pc'[sock'[t]] = "idle" /\ hooks'[sock'[t]] > 0
    BY <2>1, <2>2, <2>3, <2>5
  <2>8. \A s \in Sock : pc'[s] \notin {"idle", "off"} => hooks'[s] > 0
    BY <1>3, <2>2, <2>3 DEF RegisterReturn
  <2>9. QED BY <2>6, <2>7, <2>8
<1>4. ASSUME NEW t \in User, ConnectOk(t) \/ ConnectFails(t) PROVE HookInv'
  BY <1>4, SMTT(30) DEF ConnectOk, ConnectFails, ThreadInv
<1>5. ASSUME NEW t \in User, DeregisterSocket(t) PROVE HookInv'
  BY <1>5 DEF DeregisterSocket, Leave, Forget, ThreadInv
<1>6. ASSUME NEW t \in Worker, NewConnectionSlots(t) PROVE HookInv'
  BY <1>6 DEF NewConnectionSlots, ThreadInv
<1>7. ASSUME NEW t \in Worker, ReceivePacket(t) PROVE HookInv'
  <2>1. sock[t] \in Sock /\ hooks[sock[t]] > 0
    BY <1>7 DEF ReceivePacket, ThreadInv
  <2>2. pc'[t] = (IF t \in User THEN "idle" ELSE "newslots")
    BY <1>7, <2>1 DEF ReceivePacket
  <2>3. \A u \in Thread : u # t /\ u # sock[t] => pc'[u] = pc[u]
    BY <1>7 DEF ReceivePacket
  <2>4. \A u \in Worker : u # t => sock'[u] = sock[u] /\ sock[u] # sock[t]
    BY <1>7, <2>1 DEF ReceivePacket, Forget, OwnerInv
  <2>5. \A u \in Worker : Opening(u) => sock[u] \in Sock
    BY DEF ThreadInv
  <2>6. ~Opening(t)' /\ hooks' = hooks
    BY <1>7, <2>2 DEF ReceivePacket
  <2>7. QED BY <2>1, <2>2, <2>3, <2>4, <2>5, <2>6
<1>8. CASE Bind \/ SocketAccept
  BY <1>8 DEF Bind, SocketAccept, ThreadInv
<1>9. CASE FindAccepted
  BY <1>9 DEF FindAccepted, ThreadInv
<1>10. ASSUME NEW t \in User, NEW k \in Known, CallDisconnect(t, k) PROVE HookInv'
  BY <1>10 DEF CallDisconnect, ThreadInv
<1>11. ASSUME NEW t \in User, Disconnect(t) \/ DisconnectSlots(t) PROVE HookInv'
  BY <1>11, SMTT(30) DEF Disconnect, DisconnectSlots, Return, Leave, Forget, ThreadInv
<1>12. ASSUME NEW s \in Sock, Disconnect(s) \/ DisconnectSlots(s) PROVE HookInv'
  <2>1. pc[s] # "idle" /\ sock' = sock /\ \A u \in Thread : u # s => pc'[u] = pc[u]
    BY <1>12 DEF Disconnect, DisconnectSlots, Return
  <2>2. \A u \in Worker : Opening(u) => sock[u] \in Sock /\ sock[u] # s
    BY <2>1 DEF ThreadInv
  <2>3. \A u \in Sock : u # s => hooks'[u] = hooks[u]
    BY <1>12 DEF Disconnect, DisconnectSlots, Return
  <2>4. pc'[s] \notin {"idle", "off"} => hooks'[s] > 0
    BY <1>12 DEF Disconnect, DisconnectSlots, Return
  <2>5. QED BY <2>1, <2>2, <2>3, <2>4
<1>13. ASSUME NEW t \in User, DisconnectAllBegin(t) \/ DisconnectAllEnd(t) PROVE HookInv'
  <2>1. sock' = sock /\ hooks' = hooks
    BY <1>13 DEF DisconnectAllBegin, DisconnectAllEnd
  <2>2. pc'[t] \in {"idle", "all"} /\ \A u \in Thread : u # t => pc'[u] = pc[u]
    BY <1>13 DEF DisconnectAllBegin, DisconnectAllEnd
  <2>3. \A u \in Worker : Opening(u) => sock[u] \in Sock
    BY DEF ThreadInv
  <2>4. QED BY <2>1, <2>2, <2>3
<1>14. ASSUME NEW t \in User, NEW k \in rest[t], VisitEntry(t, k) PROVE HookInv'
  BY <1>14 DEF VisitEntry
<1>15. ASSUME NEW s \in Sock, ReadError(s) \/ GetSocketIndex(s) PROVE HookInv'
  BY <1>15 DEF ReadError, GetSocketIndex, ThreadInv
<1>16. CASE UNCHANGED vars
  BY <1>16 DEF vars
<1>17. QED
  BY <1>1, <1>2, <1>3, <1>4, <1>5, <1>6, <1>7, <1>8, <1>9, <1>10, <1>11, <1>12,
     <1>13, <1>14, <1>15, <1>16
     DEF Next, UserStep, AcceptorStep, ReaderStep, RegisterSteps, DisconnectSteps,
         ConnectTo, BindAndAccept, AcceptNext, DisconnectAllEntry

-----------------------------------------------------------------------------
(* Until it wraps, the increments of registerSocket end right after
   _socketIndex: everything registered lies below. *)
LEMMA NextFreeIsNext ==
  ASSUME TypeOK, socketIndex \in Nat, DOMAIN map \subseteq 1 .. socketIndex,
         NEW k \in Index, IsNextFree(k), k # LongMin
  PROVE  k = socketIndex + 1
<1> USE LongAssumption, IndexFacts DEF Index
<1>1. CASE socketIndex < k
  <2>1. socketIndex + 1 .. k - 1 \subseteq DOMAIN map
    BY <1>1 DEF IsNextFree, PassedBy
  <2>2. socketIndex + 1 \notin DOMAIN map
    OBVIOUS
  <2>3. QED BY <1>1, <2>1, <2>2
<1>2. CASE ~(socketIndex < k)
  <2>1. LongMin .. k - 1 \subseteq DOMAIN map
    BY <1>2 DEF IsNextFree, PassedBy
  <2>2. LongMin \in LongMin .. k - 1 /\ LongMin \notin 1 .. socketIndex
    OBVIOUS
  <2>3. QED BY <2>1, <2>2
<1>3. QED BY <1>1, <1>2

(* Registrations are only ever added. *)
LEMMA NotWrappedBefore ==
  ASSUME TypeOK, [Next]_vars, NotWrapped'
  PROVE  NotWrapped
<1>1. ASSUME NEW t \in Thread, RegisterSocket(t) PROVE NotWrapped
  <2>1. PICK k \in Index : regs' = [regs EXCEPT ![k] = @ + 1]
    BY <1>1 DEF RegisterSocket
  <2>2. QED BY <2>1, IndexFacts DEF NotWrapped, TypeOK
<1>2. CASE regs' = regs
  BY <1>2 DEF NotWrapped
<1>3. QED
  BY <1>1, <1>2, Apart DEF Next, UserStep, AcceptorStep, ReaderStep, RegisterSteps,
     DisconnectSteps, ConnectTo, BindAndAccept, AcceptNext, DisconnectAllEntry,
     CreateSocket, RegisterReturn, ConnectOk, ConnectFails, DeregisterSocket,
     NewConnectionSlots, ReceivePacket, Bind, SocketAccept, FindAccepted,
     CallDisconnect, Disconnect, DisconnectSlots, DisconnectAllBegin, VisitEntry,
     DisconnectAllEnd, ReadError, GetSocketIndex, vars

(* Before _socketIndex wraps, indexes grow and are never given out twice. *)
LEMMA StepIndex ==
  TypeOK /\ ThreadInv /\ OwnerInv /\ (NotWrapped => IndexInv) /\ [Next]_vars
    => (NotWrapped' => IndexInv')
<1> SUFFICES ASSUME TypeOK, ThreadInv, OwnerInv, NotWrapped => IndexInv, [Next]_vars,
                    NotWrapped'
             PROVE  IndexInv'
  OBVIOUS
<1>0. NotWrapped
  BY NotWrappedBefore
<1> USE <1>0, Apart DEF TypeOK, IndexInv, Goto, IndexesOf, IsInjective
<1>1. ASSUME NEW t \in Worker, CreateSocket(t) PROVE IndexInv'
  BY <1>1 DEF CreateSocket, OwnerInv
<1>2. ASSUME NEW t \in Worker, RegisterSocket(t) PROVE IndexInv'
  <2>1. PICK k \in Index :
          /\ IsNextFree(k) /\ socketIndex' = k /\ regs' = [regs EXCEPT ![k] = @ + 1]
          /\ map' = [j \in DOMAIN map \cup {k} |-> IF j = k THEN sock[t] ELSE map[j]]
    BY <1>2 DEF RegisterSocket
  <2>2. k # LongMin
    BY <2>1, IndexFacts DEF NotWrapped
  <2>3. k = socketIndex + 1 /\ k \notin DOMAIN map
    BY <2>1, <2>2, NextFreeIsNext
  <2>4. sock[t] \in Sock /\ IndexesOf(sock[t]) = {}
    BY <1>2 DEF RegisterSocket, ThreadInv
  <2>5. socketIndex' \in Nat /\ DOMAIN map' \subseteq 1 .. socketIndex'
    BY <2>1, <2>3
  <2>6. IsInjective(map')
    BY <2>1, <2>3, <2>4
  <2>7. pc'[t] \in {"ret", "reret"} /\ \A u \in Thread : u # t => pc'[u] = pc[u]
    BY <1>2 DEF RegisterSocket
  <2>8. sock' = sock /\ idx' = idx
    BY <1>2 DEF RegisterSocket
  <2>9. ASSUME NEW u \in Worker, pc'[u] \in {"reg", "rereg"}
        PROVE  IndexesOf(sock[u])' = {}
    <3>1. u # t /\ sock[u] \in Sock /\ sock[u] # sock[t]
      BY <2>4, <2>7, <2>9 DEF OwnerInv, ThreadInv
    <3>2. IndexesOf(sock[u]) = {}
      BY <2>7, <2>9, <3>1
    <3>3. QED BY <2>1, <2>8, <3>1, <3>2
  <2>10. ASSUME NEW s \in Sock, pc'[s] = "disc"
         PROVE  /\ idx'[s] \in {NotFound} \cup 1 .. socketIndex'
                /\ idx'[s] \in DOMAIN map' => map'[idx'[s]] = s
    <3>1. idx'[s] = idx[s] /\ pc[s] = "disc" /\ idx[s] # k
      BY <2>3, <2>7, <2>8, <2>10 DEF NotFound
    <3>2. QED BY <2>1, <2>3, <3>1
  <2>11. QED BY <2>5, <2>6, <2>8, <2>9, <2>10
<1>3. ASSUME NEW t \in Worker, RegisterReturn(t) PROVE IndexInv'
  BY <1>3 DEF RegisterReturn, AfterRegister
<1>4. ASSUME NEW t \in User, ConnectOk(t) \/ ConnectFails(t) PROVE IndexInv'
  BY <1>4 DEF ConnectOk, ConnectFails
<1>5. ASSUME NEW t \in User, DeregisterSocket(t) PROVE IndexInv'
  BY <1>5 DEF DeregisterSocket, Leave, Forget, Without
<1>6. ASSUME NEW t \in Worker, NewConnectionSlots(t) PROVE IndexInv'
  BY <1>6 DEF NewConnectionSlots
<1>7. ASSUME NEW t \in Worker, ReceivePacket(t) PROVE IndexInv'
  BY <1>7 DEF ReceivePacket, Forget, ThreadInv
<1>8. CASE Bind \/ SocketAccept
  BY <1>8 DEF Bind, SocketAccept
<1>9. CASE FindAccepted
  BY <1>9 DEF FindAccepted, Lookup, NotFound
<1>10. ASSUME NEW t \in User, NEW k \in Known, CallDisconnect(t, k) PROVE IndexInv'
  BY <1>10 DEF CallDisconnect
<1>11. ASSUME NEW t \in User, Disconnect(t) \/ DisconnectSlots(t) PROVE IndexInv'
  BY <1>11 DEF Disconnect, DisconnectSlots, Return, Leave, Forget, Without
<1>12. ASSUME NEW s \in Sock, Disconnect(s) \/ DisconnectSlots(s) PROVE IndexInv'
  BY <1>12 DEF Disconnect, DisconnectSlots, Return, Without
<1>13. ASSUME NEW t \in User, DisconnectAllBegin(t) \/ DisconnectAllEnd(t) PROVE IndexInv'
  <2>1. CASE DisconnectAllBegin(t)
    BY <2>1 DEF DisconnectAllBegin
  <2>2. CASE DisconnectAllEnd(t)
    <3>1. map' = << >> /\ DOMAIN map' = {}
      BY <2>2 DEF DisconnectAllEnd
    <3>2. QED BY <2>2, <3>1 DEF DisconnectAllEnd
  <2>3. QED BY <1>13, <2>1, <2>2
<1>14. ASSUME NEW t \in User, NEW k \in rest[t], VisitEntry(t, k) PROVE IndexInv'
  BY <1>14 DEF VisitEntry
<1>15. ASSUME NEW s \in Sock, ReadError(s) PROVE IndexInv'
  BY <1>15 DEF ReadError
<1>16. ASSUME NEW s \in Sock, GetSocketIndex(s) PROVE IndexInv'
  <2>1. PICK k \in Lookup(s) : idx' = [idx EXCEPT ![s] = k]
    BY <1>16 DEF GetSocketIndex
  <2>2. k = NotFound \/ (k \in DOMAIN map /\ map[k] = s)
    BY <2>1 DEF Lookup
  <2>3. k \in {NotFound} \cup 1 .. socketIndex /\ (k \in DOMAIN map => map[k] = s)
    BY <2>2 DEF NotFound
  <2>4. pc' = [pc EXCEPT ![s] = "disc"] /\ map' = map /\ socketIndex' = socketIndex
        /\ sock' = sock
    BY <1>16 DEF GetSocketIndex
  <2>5. QED BY <2>1, <2>3, <2>4
<1>17. CASE UNCHANGED vars
  BY <1>17 DEF vars
<1>18. QED
  BY <1>1, <1>2, <1>3, <1>4, <1>5, <1>6, <1>7, <1>8, <1>9, <1>10, <1>11, <1>12,
     <1>13, <1>14, <1>15, <1>16, <1>17
     DEF Next, UserStep, AcceptorStep, ReaderStep, RegisterSteps, DisconnectSteps,
         ConnectTo, BindAndAccept, AcceptNext, DisconnectAllEntry

-----------------------------------------------------------------------------
(* RegistryInv is inductive. *)
LEMMA StepInv == RegistryInv /\ [Next]_vars => RegistryInv'
BY StepType, StepThread, StepOwner, StepHook, StepIndex DEF RegistryInv

(* The registry's inductive invariant holds for any number of sockets and
   threads and any width of _socketIndex. *)
THEOREM Invariance == Spec => []RegistryInv
<1>1. Init => RegistryInv
  BY InitInv
<1>2. RegistryInv /\ [Next]_vars => RegistryInv'
  BY StepInv
<1>3. QED BY <1>1, <1>2, PTL DEF Spec

(* registerSocket, socket_accept, disconnect and disconnectAll, on any number
   of threads, never enter a socket under two indexes while _socketIndex has
   not wrapped. *)
THEOREM NoSocketTwice == Spec => []OneIndexPerSocket
<1>1. RegistryInv => OneIndexPerSocket
  BY DEF RegistryInv, OneIndexPerSocket, IndexInv
<1>2. QED BY <1>1, Invariance, PTL

(* receiveDisconnectNotify never disconnects somebody else's connection,
   although the index it looked up may be erased before it is used. *)
THEOREM NoForeignDisconnect == Spec => []ReaderClosesOwn
<1>1. RegistryInv => ReaderClosesOwn
  BY DEF RegistryInv, ReaderClosesOwn, IndexInv
<1>2. QED BY <1>1, Invariance, PTL

-----------------------------------------------------------------------------
(* The threads that have taken k out of the registry and are about to tell. *)
Telling(k) == {t \in Thread : pc[t] = "discslots" /\ idx[t] = k}

(* k is registered, and no disconnectAll under way has told of it. *)
Untold(k) == k \in DOMAIN map /\ \A u \in User : pc[u] = "all" => k \in rest[u]

(* Each registration of an index is still in the registry, or on its way to the
   slots on one thread, or told, or taken out unheard by deregisterSocket. *)
Account(k) ==
  /\ IsFiniteSet(Telling(k))
  /\ lost[k] + Cardinality(Telling(k)) + (IF Untold(k) THEN 1 ELSE 0) <= regs[k]

NotifyInv ==
  /\ \A u \in User : pc[u] = "all" => lock = u /\ rest[u] \subseteq DOMAIN map
  /\ \A k \in Index : Account(k)

(* A step that gives no index up and takes none in. *)
LEMMA SameAccount ==
  ASSUME TypeOK, NEW k \in Index, Account(k), lost'[k] = lost[k], regs'[k] = regs[k],
         Telling(k)' = Telling(k), Untold(k)' => Untold(k)
  PROVE  Account(k)'
<1>1. lost[k] \in Nat /\ regs[k] \in Nat /\ Cardinality(Telling(k)) \in Nat
  BY FS_CardinalityType DEF TypeOK, Account
<1>2. QED BY <1>1 DEF Account

(* A step inside the calls of disconnect and of disconnectAll, or outside both. *)
LEMMA Quiet ==
  ASSUME TypeOK, NotifyInv, UNCHANGED <<map, lock, rest, regs, lost>>,
         \A t \in Thread : /\ pc'[t] = "discslots" <=> pc[t] = "discslots"
                           /\ pc[t] = "discslots" => idx'[t] = idx[t]
                           /\ pc'[t] = "all" <=> pc[t] = "all"
  PROVE  NotifyInv'
<1>1. \A k : Telling(k)' = Telling(k)
  BY DEF Telling
<1>2. \A k : Untold(k)' => Untold(k)
  BY Apart DEF Untold
<1>3. \A k \in Index : Account(k)'
  BY <1>1, <1>2, SameAccount DEF NotifyInv
<1>4. \A u \in User : pc'[u] = "all" => lock' = u /\ rest'[u] \subseteq DOMAIN map'
  BY Apart DEF NotifyInv
<1>5. QED BY <1>3, <1>4 DEF NotifyInv

(* Every step keeps the account: registerSocket adds one on both sides, the
   others move it from the registry to a thread and from there to the slots. *)
LEMMA StepNotify ==
  RegistryInv /\ NotifyInv /\ [Next]_vars => NotifyInv'
<1> SUFFICES ASSUME TypeOK, ThreadInv, HookInv, NotifyInv, [Next]_vars PROVE NotifyInv'
  BY DEF RegistryInv
<1> USE Apart DEF TypeOK, Goto
<1>a. \A k \in Index : /\ lost[k] \in Nat /\ regs[k] \in Nat
                       /\ IsFiniteSet(Telling(k)) /\ Cardinality(Telling(k)) \in Nat
  BY FS_CardinalityType DEF NotifyInv, Account
<1>b. NoThread \notin User
  BY ThreadAssumption
<1>1. ASSUME NEW t \in Worker, CreateSocket(t), pc[t] \notin {"all", "discslots"} PROVE NotifyInv'
  BY <1>1, Quiet DEF CreateSocket
<1>2. ASSUME NEW t \in Worker, RegisterSocket(t) PROVE NotifyInv'
  <2>1. PICK k \in Index :
          /\ k \notin DOMAIN map /\ regs' = [regs EXCEPT ![k] = @ + 1]
          /\ map' = [j \in DOMAIN map \cup {k} |-> IF j = k THEN sock[t] ELSE map[j]]
    BY <1>2 DEF RegisterSocket, IsNextFree
  <2>2. /\ lock = NoThread /\ UNCHANGED <<lock, idx, rest, lost>>
        /\ \A u \in Thread : /\ pc'[u] = "discslots" <=> pc[u] = "discslots"
                             /\ pc'[u] = "all" <=> pc[u] = "all"
    BY <1>2 DEF RegisterSocket
  <2>3. \A u \in User : pc[u] # "all" /\ pc'[u] # "all"
    BY <1>b, <2>2 DEF NotifyInv
  <2>4. \A j : Telling(j)' = Telling(j)
    BY <2>2 DEF Telling
  <2>5. Account(k)'
    <3>1. ~Untold(k) /\ lost'[k] = lost[k] /\ regs'[k] = regs[k] + 1
      BY <2>1, <2>2 DEF Untold
    <3>2. lost[k] + Cardinality(Telling(k)) <= regs[k]
      BY <1>a, <3>1 DEF NotifyInv, Account
    <3>3. QED BY <1>a, <2>4, <3>1, <3>2 DEF Account
  <2>6. ASSUME NEW j \in Index, j # k PROVE Account(j)'
    <3>1. Untold(j)' => Untold(j)
      BY <2>1, <2>3, <2>6 DEF Untold
    <3>2. QED BY <2>1, <2>2, <2>4, <2>6, <3>1, SameAccount DEF NotifyInv
  <2>7. QED BY <2>3, <2>5, <2>6 DEF NotifyInv
<1>3. ASSUME NEW t \in Worker, RegisterReturn(t) PROVE NotifyInv'
  BY <1>3, Quiet DEF RegisterReturn, AfterRegister
<1>4. ASSUME NEW t \in User, ConnectOk(t) \/ ConnectFails(t) PROVE NotifyInv'
  BY <1>4, Quiet DEF ConnectOk, ConnectFails
<1>5. ASSUME NEW t \in User, DeregisterSocket(t) PROVE NotifyInv'
  <2>1. /\ pc[t] = "dereg" /\ lock \in {NoThread, t} /\ UNCHANGED <<rest, regs, lost>>
        /\ DOMAIN map' \subseteq DOMAIN map
        /\ \A u \in Thread : u # t => pc'[u] = pc[u] /\ idx'[u] = idx[u]
        /\ pc'[t] \in {"dereg", "idle"}
    BY <1>5 DEF DeregisterSocket, Without, Leave, Forget
  <2>2. \A u \in User : pc[u] # "all" /\ pc'[u] # "all"
    BY <1>b, <2>1 DEF NotifyInv
  <2>3. \A k : Telling(k)' = Telling(k)
    BY <2>1 DEF Telling
  <2>4. \A k : Untold(k)' => Untold(k)
    BY <2>1, <2>2 DEF Untold
  <2>5. \A k \in Index : Account(k)'
    BY <2>1, <2>3, <2>4, SameAccount DEF NotifyInv
  <2>6. QED BY <2>2, <2>5 DEF NotifyInv
<1>6. ASSUME NEW t \in Worker, NewConnectionSlots(t) PROVE NotifyInv'
  BY <1>6, Quiet DEF NewConnectionSlots
<1>7. ASSUME NEW t \in Worker, ReceivePacket(t) PROVE NotifyInv'
  <2>1. pc[t] = "read" /\ sock[t] \in Sock /\ pc[sock[t]] = "idle"
    BY <1>7 DEF ReceivePacket, ThreadInv, HookInv, Opening
  <2>2. QED BY <1>7, <2>1, Quiet DEF ReceivePacket, Forget
<1>8. CASE Bind \/ SocketAccept \/ FindAccepted
  BY <1>8, Quiet DEF Bind, SocketAccept, FindAccepted
<1>9. ASSUME NEW t \in User, NEW k \in Known, CallDisconnect(t, k) PROVE NotifyInv'
  BY <1>9, Quiet DEF CallDisconnect
<1>10. ASSUME NEW s \in Sock, ReadError(s) \/ GetSocketIndex(s) PROVE NotifyInv'
  BY <1>10, Quiet DEF ReadError, GetSocketIndex
<1>11. ASSUME NEW t \in User \cup Sock, Disconnect(t) PROVE NotifyInv'
  <2>1. CASE idx[t] \notin DOMAIN map
    <3>1. pc[t] = "disc" /\ pc'[t] \in {"idle", "getindex", "off"}
          /\ \A u \in Thread : u # t => pc'[u] = pc[u] /\ idx'[u] = idx[u]
      BY <1>11, <2>1 DEF Disconnect, Return, Leave, Forget
    <3>2. QED BY <1>11, <2>1, <3>1, Quiet DEF Disconnect
  <2>2. CASE idx[t] \in DOMAIN map
    <3>0. PICK k \in Index : k = idx[t]
      BY <2>2
    <3>1. /\ pc[t] = "disc" /\ lock = NoThread /\ pc' = [pc EXCEPT ![t] = "discslots"]
          /\ DOMAIN map' = DOMAIN map \ {k} /\ UNCHANGED <<lock, idx, rest, regs, lost>>
      BY <1>11, <2>2, <3>0 DEF Disconnect, Without
    <3>2. \A u \in User : pc[u] # "all" /\ pc'[u] # "all"
      BY <1>b, <3>1 DEF NotifyInv
    <3>3. \A j : Telling(j)' = IF j = k THEN Telling(j) \cup {t} ELSE Telling(j)
      BY <3>0, <3>1 DEF Telling
    <3>4. t \notin Telling(k) /\ Untold(k) /\ ~Untold(k)'
      BY <2>2, <3>0, <3>1, <3>2 DEF Telling, Untold
    <3>5. Account(k)'
      <4>1. /\ IsFiniteSet(Telling(k) \cup {t})
            /\ Cardinality(Telling(k) \cup {t}) = Cardinality(Telling(k)) + 1
        BY <1>a, <3>4, FS_AddElement
      <4>2. lost[k] + Cardinality(Telling(k)) + 1 <= regs[k]
        BY <3>4 DEF NotifyInv, Account
      <4>3. Telling(k)' = Telling(k) \cup {t} /\ lost'[k] = lost[k] /\ regs'[k] = regs[k]
        BY <3>1, <3>3
      <4>4. QED BY <1>a, <3>4, <4>1, <4>2, <4>3 DEF Account
    <3>6. ASSUME NEW j \in Index, j # k PROVE Account(j)'
      <4>1. Untold(j)' => Untold(j)
        BY <3>1, <3>2 DEF Untold
      <4>2. Telling(j)' = Telling(j)
        BY <3>3, <3>6
      <4>3. QED BY <3>1, <4>1, <4>2, SameAccount DEF NotifyInv
    <3>7. QED BY <3>2, <3>5, <3>6 DEF NotifyInv
  <2>3. QED BY <2>1, <2>2
<1>12. ASSUME NEW t \in User \cup Sock, DisconnectSlots(t) PROVE NotifyInv'
  <2>0. PICK k \in Index : k = idx[t]
    OBVIOUS
  <2>1. /\ pc[t] = "discslots" /\ lost' = [lost EXCEPT ![k] = @ + 1]
        /\ UNCHANGED <<map, lock, rest, regs>> /\ pc'[t] \in {"idle", "getindex", "off"}
        /\ \A u \in Thread : u # t => pc'[u] = pc[u] /\ idx'[u] = idx[u]
    BY <1>12, <2>0 DEF DisconnectSlots, Return, Leave, Forget
  <2>2. \A j : Telling(j)' = IF j = k THEN Telling(j) \ {t} ELSE Telling(j)
    BY <2>0, <2>1 DEF Telling
  <2>3. t \in Telling(k)
    BY <2>0, <2>1 DEF Telling
  <2>4. \A u \in User : pc'[u] = "all" <=> pc[u] = "all"
    BY <2>1
  <2>5. \A j : Untold(j)' <=> Untold(j)
    BY <2>1, <2>4 DEF Untold
  <2>6. Account(k)'
    <3>1. /\ IsFiniteSet(Telling(k) \ {t})
          /\ Cardinality(Telling(k) \ {t}) = Cardinality(Telling(k)) - 1
      BY <1>a, <2>1, <2>3, FS_RemoveElement
    <3>2. lost'[k] = lost[k] + 1 /\ regs'[k] = regs[k] /\ Telling(k)' = Telling(k) \ {t}
      BY <2>1, <2>2
    <3>3. Account(k)
      BY <2>1 DEF NotifyInv
    <3>4. QED BY <1>a, <2>1, <2>5, <3>1, <3>2, <3>3 DEF Account
  <2>7. ASSUME NEW j \in Index, j # k PROVE Account(j)'
    <3>1. Telling(j)' = Telling(j) /\ lost'[j] = lost[j]
      BY <2>1, <2>2, <2>7
    <3>2. QED BY <2>1, <2>5, <3>1, SameAccount DEF NotifyInv
  <2>8. \A u \in User : pc'[u] = "all" => lock' = u /\ rest'[u] \subseteq DOMAIN map'
    BY <2>1, <2>4 DEF NotifyInv
  <2>9. QED BY <2>6, <2>7, <2>8 DEF NotifyInv
<1>13. ASSUME NEW t \in User, DisconnectAllBegin(t) PROVE NotifyInv'
  <2>1. /\ pc[t] = "idle" /\ lock = NoThread /\ lock' = t /\ UNCHANGED <<map, idx, regs, lost>>
        /\ rest' = [rest EXCEPT ![t] = DOMAIN map] /\ pc' = [pc EXCEPT ![t] = "all"]
    BY <1>13 DEF DisconnectAllBegin
  <2>2. \A u \in User : pc[u] # "all" /\ (pc'[u] = "all" => u = t)
    BY <1>b, <2>1 DEF NotifyInv
  <2>3. \A k : Telling(k)' = Telling(k) /\ (Untold(k)' => Untold(k))
    BY <2>1, <2>2 DEF Telling, Untold
  <2>4. \A k \in Index : Account(k)'
    BY <2>1, <2>3, SameAccount DEF NotifyInv
  <2>5. rest'[t] = DOMAIN map'
    BY <2>1
  <2>6. QED BY <2>1, <2>2, <2>4, <2>5 DEF NotifyInv
<1>14. ASSUME NEW t \in User, NEW k \in rest[t], VisitEntry(t, k) PROVE NotifyInv'
  <2>1. /\ pc[t] = "all" /\ k \in Index /\ lost' = [lost EXCEPT ![k] = @ + 1]
        /\ rest' = [rest EXCEPT ![t] = @ \ {k}] /\ UNCHANGED <<map, lock, pc, idx, regs>>
    BY <1>14 DEF VisitEntry
  <2>2. lock = t /\ rest[t] \subseteq DOMAIN map /\ \A u \in User : pc[u] = "all" => u = t
    BY <2>1 DEF NotifyInv
  <2>3. \A j : Telling(j)' = Telling(j)
    BY <2>1 DEF Telling
  <2>4. rest'[t] = rest[t] \ {k} /\ \A u \in Thread : u # t => rest'[u] = rest[u]
    BY <2>1
  <2>5. Account(k)'
    <3>1. Untold(k) /\ ~Untold(k)'
      BY <1>14, <2>1, <2>2, <2>4 DEF Untold
    <3>2. lost'[k] = lost[k] + 1 /\ Account(k)
      BY <2>1 DEF NotifyInv
    <3>3. QED BY <1>a, <2>1, <2>3, <3>1, <3>2 DEF Account
  <2>6. ASSUME NEW j \in Index, j # k PROVE Account(j)'
    <3>1. Untold(j)' => Untold(j)
      BY <2>1, <2>2, <2>4, <2>6 DEF Untold
    <3>2. QED BY <2>1, <2>3, <2>6, <3>1, SameAccount DEF NotifyInv
  <2>7. QED BY <2>1, <2>2, <2>4, <2>5, <2>6 DEF NotifyInv
<1>15. ASSUME NEW t \in User, DisconnectAllEnd(t) PROVE NotifyInv'
  <2>1. /\ pc[t] = "all" /\ DOMAIN map' = {} /\ pc' = [pc EXCEPT ![t] = "idle"]
        /\ UNCHANGED <<idx, rest, regs, lost>>
    BY <1>15 DEF DisconnectAllEnd
  <2>2. \A u \in User : pc'[u] # "all"
    BY <2>1 DEF NotifyInv
  <2>3. \A k : Telling(k)' = Telling(k) /\ ~Untold(k)'
    BY <2>1 DEF Telling, Untold
  <2>4. \A k \in Index : Account(k)'
    BY <2>1, <2>3, SameAccount DEF NotifyInv
  <2>5. QED BY <2>2, <2>4 DEF NotifyInv
<1>16. CASE UNCHANGED vars
  BY <1>16, Quiet DEF vars
<1>17. QED
  BY <1>1, <1>2, <1>3, <1>4, <1>5, <1>6, <1>7, <1>8, <1>9, <1>10, <1>11, <1>12,
     <1>13, <1>14, <1>15, <1>16
     DEF Next, UserStep, AcceptorStep, ReaderStep, RegisterSteps, DisconnectSteps,
         ConnectTo, BindAndAccept, AcceptNext, DisconnectAllEntry

(* Nothing is registered and nothing told. *)
LEMMA NotifyInit == Init => NotifyInv
<1> SUFFICES ASSUME Init PROVE NotifyInv
  OBVIOUS
<1>1. /\ DOMAIN map = {} /\ \A t \in Thread : pc[t] = "idle"
      /\ \A k \in Index : lost[k] = 0 /\ regs[k] = 0
  BY DEF Init
<1>2. \A k \in Index : Telling(k) = {} /\ ~Untold(k)
  BY <1>1 DEF Telling, Untold
<1>3. ASSUME NEW k \in Index PROVE Account(k)
  <2>1. IsFiniteSet({}) /\ Cardinality({}) = 0
    BY FS_EmptySet
  <2>2. QED BY <1>1, <1>2, <2>1 DEF Account
<1>4. QED BY <1>1, <1>3, Apart DEF NotifyInv

(* Whoever wins between disconnect, disconnectAll and the read chain of a broken
   connection, the disconnect slots hear of each registration of an index at
   most once. *)
THEOREM NotifiedOnce == Spec => []NotifiedAtMostOnce
<1>1. RegistryInv /\ NotifyInv => NotifiedAtMostOnce
  <2> SUFFICES ASSUME RegistryInv, NotifyInv, NEW k \in Index PROVE lost[k] <= regs[k]
    BY DEF NotifiedAtMostOnce
  <2>1. lost[k] \in Nat /\ regs[k] \in Nat /\ Cardinality(Telling(k)) \in Nat
    BY FS_CardinalityType DEF RegistryInv, TypeOK, NotifyInv, Account
  <2>2. QED BY <2>1 DEF NotifyInv, Account
<1>2. QED BY <1>1, NotifyInit, StepNotify, Invariance, PTL DEF Spec

-----------------------------------------------------------------------------
(* A thread that disconnects all has _csMapIndexToSocket, and who keeps it
   between two steps disconnects all or is in the loop of deregisterSocket. *)
HeldInv ==
  /\ \A t \in User : pc[t] = "all" => lock = t
  /\ lock # NoThread => pc[lock] \in {"all", "dereg"}

(* A step keeps HeldInv if it leaves the lock, and the threads that may have it
   where they are. *)
LEMMA StillHeld ==
  ASSUME TypeOK, HeldInv, UNCHANGED lock, NEW t \in Thread, pc[t] \notin {"all", "dereg"},
         \A u \in User : u # t => pc'[u] = pc[u],
         t \in User => pc'[t] # "all"
  PROVE  HeldInv'
BY DEF TypeOK, HeldInv

(* disconnectAll and deregisterSocket take the critical section and leave it. *)
LEMMA StepHeld == RegistryInv /\ HeldInv /\ [Next]_vars => HeldInv'
<1> SUFFICES ASSUME TypeOK, ThreadInv, HeldInv, [Next]_vars PROVE HeldInv'
  BY DEF RegistryInv
<1> USE Apart DEF TypeOK, Goto
<1>1. ASSUME NEW t \in Worker, CreateSocket(t), pc[t] \in {"idle", "again", "accepting"}
      PROVE  HeldInv'
  BY <1>1, StillHeld DEF CreateSocket
<1>2. ASSUME NEW t \in Worker, RegisterSteps(t) PROVE HeldInv'
  BY <1>2, StillHeld DEF RegisterSteps, RegisterSocket, RegisterReturn, AfterRegister
<1>3. ASSUME NEW t \in User, ConnectOk(t) \/ ConnectFails(t) PROVE HeldInv'
  BY <1>3, StillHeld DEF ConnectOk, ConnectFails
<1>4. ASSUME NEW t \in User, DeregisterSocket(t) PROVE HeldInv'
  <2>1. pc[t] = "dereg" /\ lock \in {NoThread, t} /\ t # NoThread
    BY <1>4, ThreadAssumption DEF DeregisterSocket
  <2>2. \A u \in User : u # t => pc[u] # "all" /\ pc'[u] = pc[u]
    BY <1>4, <2>1, ThreadAssumption DEF DeregisterSocket, Leave, HeldInv
  <2>3. \/ lock' = t /\ pc'[t] = "dereg"
        \/ lock' = NoThread /\ pc'[t] = "idle"
    BY <1>4 DEF DeregisterSocket, Leave
  <2>4. QED BY <2>2, <2>3 DEF HeldInv
<1>5. ASSUME NEW t \in Worker, NewConnectionSlots(t) PROVE HeldInv'
  BY <1>5, StillHeld DEF NewConnectionSlots
<1>6. ASSUME NEW t \in Worker, ReceivePacket(t) PROVE HeldInv'
  <2>1. sock[t] \in Sock /\ pc[t] = "read"
    BY <1>6 DEF ReceivePacket, ThreadInv
  <2>2. \A u \in User : u # t => pc'[u] = pc[u]
    BY <1>6, <2>1 DEF ReceivePacket
  <2>3. t \in User => pc'[t] # "all"
    BY <1>6, <2>1 DEF ReceivePacket
  <2>4. QED BY <1>6, <2>1, <2>2, <2>3, StillHeld DEF ReceivePacket
<1>7. CASE Bind \/ SocketAccept \/ FindAccepted
  BY <1>7, StillHeld DEF Bind, SocketAccept, FindAccepted
<1>8. ASSUME NEW t \in User, NEW k \in Known, CallDisconnect(t, k) PROVE HeldInv'
  BY <1>8, StillHeld DEF CallDisconnect
<1>9. ASSUME NEW t \in User \cup Sock, DisconnectSteps(t) PROVE HeldInv'
  <2>1. pc[t] \in {"disc", "discslots"} /\ UNCHANGED lock
    BY <1>9 DEF DisconnectSteps, Disconnect, DisconnectSlots
  <2>2. \A u \in User : u # t => pc'[u] = pc[u]
    BY <1>9 DEF DisconnectSteps, Disconnect, DisconnectSlots, Return, Leave
  <2>3. pc'[t] # "all"
    BY <1>9 DEF DisconnectSteps, Disconnect, DisconnectSlots, Return, Leave
  <2>4. QED BY <2>1, <2>2, <2>3, StillHeld
<1>10. ASSUME NEW t \in User, DisconnectAllBegin(t) PROVE HeldInv'
  <2>1. \A u \in User : u # t => pc[u] # "all" /\ pc'[u] = pc[u]
    BY <1>10, ThreadAssumption DEF DisconnectAllBegin, HeldInv
  <2>2. lock' = t /\ pc'[t] = "all"
    BY <1>10 DEF DisconnectAllBegin
  <2>3. QED BY <2>1, <2>2 DEF HeldInv
<1>11. ASSUME NEW t \in User, NEW k \in rest[t], VisitEntry(t, k) PROVE HeldInv'
  BY <1>11 DEF VisitEntry, HeldInv
<1>12. ASSUME NEW t \in User, DisconnectAllEnd(t) PROVE HeldInv'
  <2>1. lock = t /\ lock' = NoThread /\ pc'[t] = "idle"
    BY <1>12 DEF DisconnectAllEnd, HeldInv
  <2>2. \A u \in User : u # t => pc[u] # "all" /\ pc'[u] = pc[u]
    BY <1>12, <2>1 DEF DisconnectAllEnd, HeldInv
  <2>3. QED BY <2>1, <2>2 DEF HeldInv
<1>13. ASSUME NEW s \in Sock, ReadError(s) \/ GetSocketIndex(s) PROVE HeldInv'
  BY <1>13, StillHeld DEF ReadError, GetSocketIndex
<1>14. CASE UNCHANGED vars
  BY <1>14 DEF vars, HeldInv
<1>15. QED
  BY <1>1, <1>2, <1>3, <1>4, <1>5, <1>6, <1>7, <1>8, <1>9, <1>10, <1>11, <1>12, <1>13, <1>14
     DEF Next, UserStep, AcceptorStep, ReaderStep, ConnectTo, BindAndAccept, AcceptNext,
         DisconnectAllEntry

-----------------------------------------------------------------------------
(* At most one thread is in registerSocket behind its critical section, where
   the return value is read from _socketIndex again. *)
OneReturns == \A t, u \in Worker :
  pc[t] \in {"ret", "reret"} /\ pc[u] \in {"ret", "reret"} => t = u

(* Then _socketIndex is still the index of the socket just entered, and
   connectTo carries that index on. *)
OwnInv ==
  /\ \A t \in Worker : pc[t] \in {"ret", "reret"} => socketIndex = assigned[sock[t]]
  /\ \A t \in User : pc[t] \in {"connect", "newslots", "read"} => idx[t] = assigned[sock[t]]

(* A step of one thread that registers nothing leaves the others their indexes. *)
LEMMA OthersOwn ==
  ASSUME TypeOK, OwnInv, UNCHANGED <<socketIndex, assigned>>, NEW t \in Thread,
         \A u \in Worker : u # t => pc'[u] = pc[u] /\ sock'[u] = sock[u] /\ idx'[u] = idx[u],
         t \in Worker => pc'[t] \notin {"ret", "reret"},
         t \in User /\ pc'[t] \in {"connect", "newslots", "read"} =>
           idx'[t] = assigned[sock'[t]]
  PROVE  OwnInv'
BY Apart DEF TypeOK, OwnInv

(* registerSocket alone behind its critical section reads its own index. *)
LEMMA StepOwn == RegistryInv /\ OneReturns' /\ OwnInv /\ [Next]_vars => OwnInv'
<1> SUFFICES ASSUME TypeOK, ThreadInv, OwnerInv, OneReturns', OwnInv, [Next]_vars PROVE OwnInv'
  BY DEF RegistryInv
<1> USE Apart DEF TypeOK, Goto
<1>1. ASSUME NEW t \in Worker, CreateSocket(t) PROVE OwnInv'
  BY <1>1, OthersOwn DEF CreateSocket
<1>2. ASSUME NEW t \in Worker, RegisterSocket(t) PROVE OwnInv'
  <2>1. sock[t] \in Sock /\ sock' = sock /\ idx' = idx
    BY <1>2 DEF RegisterSocket, ThreadInv
  <2>2. assigned'[sock[t]] = socketIndex' /\ pc'[t] \in {"ret", "reret"}
    BY <1>2, <2>1 DEF RegisterSocket
  <2>3. \A u \in Worker : u # t => pc'[u] = pc[u] /\ pc'[u] \notin {"ret", "reret"}
    BY <1>2, <2>2 DEF RegisterSocket, OneReturns
  <2>4. \A u \in Worker : u # t /\ sock[u] \in Sock => assigned'[sock[u]] = assigned[sock[u]]
    BY <1>2, <2>1 DEF RegisterSocket, OwnerInv
  <2>5. \A u \in User : pc[u] \in {"connect", "newslots", "read"} => sock[u] \in Sock
    BY DEF ThreadInv
  <2>6. QED BY <2>2, <2>3, <2>4, <2>5, <2>1 DEF OwnInv
<1>3. ASSUME NEW t \in Worker, RegisterReturn(t) PROVE OwnInv'
  <2>1. pc'[t] \notin {"ret", "reret"} /\ sock' = sock /\ idx'[t] = socketIndex
    BY <1>3 DEF RegisterReturn, AfterRegister
  <2>2. socketIndex = assigned[sock[t]]
    BY <1>3 DEF RegisterReturn, OwnInv
  <2>3. QED BY <1>3, <2>1, <2>2, OthersOwn DEF RegisterReturn
<1>4. ASSUME NEW t \in User, ConnectOk(t) \/ ConnectFails(t) PROVE OwnInv'
  <2>1. idx[t] = assigned[sock[t]]
    BY <1>4 DEF ConnectOk, ConnectFails, OwnInv
  <2>2. /\ UNCHANGED <<socketIndex, assigned, sock, idx>> /\ pc'[t] \in {"newslots", "dereg"}
        /\ \A u \in Worker : u # t => pc'[u] = pc[u]
    BY <1>4 DEF ConnectOk, ConnectFails
  <2>3. QED BY <2>1, <2>2, OthersOwn
<1>5. ASSUME NEW t \in User, DeregisterSocket(t) PROVE OwnInv'
  BY <1>5, OthersOwn DEF DeregisterSocket, Leave, Forget
<1>6. ASSUME NEW t \in Worker, NewConnectionSlots(t) PROVE OwnInv'
  <2>1. t \in User => idx[t] = assigned[sock[t]]
    BY <1>6 DEF NewConnectionSlots, OwnInv
  <2>2. QED BY <1>6, <2>1, OthersOwn DEF NewConnectionSlots
<1>7. ASSUME NEW t \in Worker, ReceivePacket(t) PROVE OwnInv'
  <2>1. sock[t] \in Sock
    BY <1>7 DEF ReceivePacket, ThreadInv
  <2>2. pc'[t] = IF t \in User THEN "idle" ELSE "newslots"
    BY <1>7, <2>1 DEF ReceivePacket
  <2>3. \A u \in Worker : u # t => pc'[u] = pc[u] /\ sock'[u] = sock[u] /\ idx'[u] = idx[u]
    BY <1>7, <2>1 DEF ReceivePacket, Forget
  <2>4. QED BY <1>7, <2>2, <2>3, OthersOwn DEF ReceivePacket
<1>8. CASE Bind \/ SocketAccept \/ FindAccepted
  BY <1>8, OthersOwn DEF Bind, SocketAccept, FindAccepted
<1>9. ASSUME NEW t \in User, NEW k \in Known, CallDisconnect(t, k) PROVE OwnInv'
  BY <1>9, OthersOwn DEF CallDisconnect
<1>10. ASSUME NEW t \in User \cup Sock, DisconnectSteps(t) PROVE OwnInv'
  <2>1. UNCHANGED <<socketIndex, assigned>> /\ pc'[t] \in {"idle", "getindex", "off", "discslots"}
    BY <1>10 DEF DisconnectSteps, Disconnect, DisconnectSlots, Return, Leave
  <2>2. \A u \in Worker : u # t => pc'[u] = pc[u] /\ sock'[u] = sock[u] /\ idx'[u] = idx[u]
    BY <1>10 DEF DisconnectSteps, Disconnect, DisconnectSlots, Return, Leave, Forget
  <2>3. QED BY <2>1, <2>2, OthersOwn
<1>11. ASSUME NEW t \in User, DisconnectAllBegin(t) \/ DisconnectAllEnd(t) PROVE OwnInv'
  <2>1. /\ UNCHANGED <<socketIndex, assigned, sock, idx>> /\ pc'[t] \in {"all", "idle"}
        /\ \A u \in Worker : u # t => pc'[u] = pc[u]
    BY <1>11 DEF DisconnectAllBegin, DisconnectAllEnd
  <2>2. QED BY <2>1, OthersOwn
<1>12. ASSUME NEW t \in User, NEW k \in rest[t], VisitEntry(t, k) PROVE OwnInv'
  BY <1>12 DEF VisitEntry, OwnInv
<1>13. ASSUME NEW s \in Sock, ReadError(s) \/ GetSocketIndex(s) PROVE OwnInv'
  BY <1>13, OthersOwn DEF ReadError, GetSocketIndex
<1>14. CASE UNCHANGED vars
  BY <1>14 DEF vars, OwnInv
<1>15. QED
  BY <1>1, <1>2, <1>3, <1>4, <1>5, <1>6, <1>7, <1>8, <1>9, <1>10, <1>11, <1>12, <1>13, <1>14
     DEF Next, UserStep, AcceptorStep, ReaderStep, RegisterSteps, ConnectTo, BindAndAccept,
         AcceptNext, DisconnectAllEntry

(* connectTo returns the index of its own socket as long as no two threads are
   behind the critical section of registerSocket at once: the race on
   _socketIndex there is the only way to a wrong one. *)
THEOREM OwnIndexAlone == Spec /\ []OneReturns => []OwnIndexReturned
<1>1. Init => OwnInv
  BY Apart DEF Init, OwnInv
<1>2. OwnInv => OwnIndexReturned
  BY DEF OwnInv, OwnIndexReturned
<1>3. QED BY <1>1, <1>2, Invariance, StepOwn, PTL DEF Spec

(* A program that connects on one thread and does not listen. *)
OneClient == ~Listening /\ \A t, u \in User : t = u

(* Without bind_and_accept no handler of it runs. *)
LEMMA NobodyAccepts ==
  ASSUME ~Listening, TypeOK, ThreadInv, pc[Acceptor] = "idle", [Next]_vars
  PROVE  pc'[Acceptor] = "idle"
<1> USE Apart DEF TypeOK, Goto
<1>1. ASSUME NEW t \in User, ReceivePacket(t) PROVE pc'[Acceptor] = "idle"
  <2>1. sock[t] \in Sock
    BY <1>1 DEF ReceivePacket, ThreadInv
  <2>2. QED BY <1>1, <2>1 DEF ReceivePacket
<1>2. ASSUME NEW t \in User, UserStep(t), ~ReceivePacket(t) PROVE pc'[Acceptor] = "idle"
  BY <1>2 DEF UserStep, RegisterSteps, RegisterSocket, RegisterReturn, ConnectOk, ConnectFails,
     DeregisterSocket, NewConnectionSlots, DisconnectSteps, Disconnect, DisconnectSlots, Return,
     Leave, DisconnectAllEntry, VisitEntry, DisconnectAllEnd
<1>3. ASSUME NEW t \in User,
             ConnectTo(t) \/ DisconnectAllBegin(t) \/ \E k \in Known : CallDisconnect(t, k)
      PROVE  pc'[Acceptor] = "idle"
  BY <1>3 DEF ConnectTo, CreateSocket, DisconnectAllBegin, CallDisconnect
<1>4. ~(BindAndAccept \/ SocketAccept \/ AcceptNext \/ AcceptorStep)
  BY DEF BindAndAccept, SocketAccept, AcceptNext, AcceptorStep, RegisterSteps, RegisterSocket,
     RegisterReturn, Bind, FindAccepted, ReceivePacket, NewConnectionSlots
<1>5. ASSUME NEW s \in Sock, ReadError(s) \/ ReaderStep(s) PROVE pc'[Acceptor] = "idle"
  BY <1>5 DEF ReadError, ReaderStep, GetSocketIndex, DisconnectSteps, Disconnect,
     DisconnectSlots, Return, Leave
<1>6. CASE UNCHANGED vars
  BY <1>6 DEF vars
<1>7. QED BY <1>1, <1>2, <1>3, <1>4, <1>5, <1>6 DEF Next

(* A program that connects on one thread gets the index its socket has. *)
THEOREM OneClientOwnIndex ==
  ASSUME OneClient
  PROVE  Spec => []OwnIndexReturned
<1> DEFINE NotAccepting == pc[Acceptor] = "idle"
<1>1. Init => NotAccepting
  BY Apart DEF Init
<1>2. RegistryInv /\ NotAccepting /\ [Next]_vars => NotAccepting'
  BY NobodyAccepts DEF RegistryInv, OneClient
<1>3. NotAccepting => OneReturns
  BY DEF OneClient, OneReturns, Worker
<1> HIDE DEF NotAccepting
<1>4. Spec => []OneReturns
  BY <1>1, <1>2, <1>3, Invariance, PTL DEF Spec
<1>5. QED BY <1>4, OwnIndexAlone, PTL
=============================================================================
