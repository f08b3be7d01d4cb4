------------------------ MODULE NetworkCommunicator ------------------------
(***************************************************************************)
(* CNetworkCommunicator (CNetworkCommunicator.cpp/.h): the registry that   *)
(* gives every CCommonSocket an index, and the threads that change it:     *)
(* callers of connectTo, disconnect and disconnectAll, the io_service      *)
(* thread that runs the accept handler, and one read chain per socket,     *)
(* which ends in the disconnect callback of CCommonSocket.                 *)
(*                                                                         *)
(* A section under _csMapIndexToSocket is one step that needs the lock     *)
(* free, except the two that can keep it: disconnectAll, which calls the   *)
(* disconnect slots with the lock held, and the loop of deregisterSocket.  *)
(* The slots themselves belong to the layer above; here a call is counted. *)
(***************************************************************************)
EXTENDS Integers, FiniteSets, Functions

CONSTANTS
  Sock,       \* CCommonSocket objects; |Sock| bounds how many are created
  User,       \* application threads
  Acceptor,   \* the io_service thread that runs socket_accept
  Listening,  \* whether the application calls bind_and_accept
  LongMax,    \* the largest value of a long
  NoSock, NoThread

ASSUME LongAssumption == LongMax \in Nat /\ LongMax > 1
ASSUME ThreadAssumption ==
  /\ Sock \cap User = {} /\ Acceptor \notin Sock \cup User
  /\ NoSock \notin Sock /\ NoThread \notin Sock \cup User \cup {Acceptor}
ASSUME ListeningAssumption == Listening \in BOOLEAN

(* A socket's read chain is a thread of its own, named by the socket. *)
Thread == User \cup {Acceptor} \cup Sock
LongMin == -LongMax - 1
Index == LongMin .. LongMax
NotFound == -1

VARIABLES
  map,          \* _mapIndexToSocket
  socketIndex,  \* _socketIndex
  lock,         \* the thread inside _csMapIndexToSocket between two steps
  state,        \* what each socket is
  hooks,        \* disconnect callbacks registered with each socket and not yet run
  bound,        \* _acceptor is bound and listening
  pc, sock, idx,\* where each thread is, the socket and the index it works on
  rest,         \* the entries disconnectAll has still to visit
  assigned,     \* history: the index each socket was last entered under
  regs,         \* history: how often each index was entered
  opened,       \* history: new-connection slot calls
  lost          \* history: how often each index was given to the disconnect slots

vars == <<map, socketIndex, lock, state, hooks, bound, pc, sock, idx, rest,
          assigned, regs, opened, lost>>

SocketState == {"unborn", "fresh", "connected", "closed"}
PC == {"idle", "reg", "ret", "rereg", "reret", "bind", "accepting", "find",
       "connect", "dereg", "newslots", "again", "read", "reading", "getindex",
       "disc", "discslots", "all", "off"}

Init ==
  /\ map = << >> /\ socketIndex = 0 /\ lock = NoThread
  /\ state = [s \in Sock |-> "unborn"]
  /\ hooks = [s \in Sock |-> 0] /\ bound = FALSE
  /\ pc = [t \in Thread |-> "idle"]
  /\ sock = [t \in Thread |-> IF t \in Sock THEN t ELSE NoSock]
  /\ idx = [t \in Thread |-> NotFound]
  /\ rest = [t \in Thread |-> {}]
  /\ assigned = [s \in Sock |-> NotFound]
  /\ regs = [k \in Index |-> 0] /\ lost = [k \in Index |-> 0]
  /\ opened = {}

Goto(t, l) == pc' = [pc EXCEPT ![t] = l]
(* An operation's locals end with it. *)
Forget(t) == /\ sock' = [sock EXCEPT ![t] = NoSock]
             /\ idx' = [idx EXCEPT ![t] = NotFound]
Leave(t) == Goto(t, "idle") /\ Forget(t)
Close(s) == state' = [state EXCEPT ![s] = "closed"]
IndexesOf(s) == {k \in DOMAIN map : map[k] = s}
Without(m, k) == [j \in DOMAIN m \ {k} |-> m[j]]

-----------------------------------------------------------------------------
(* createSocket: a fresh CCommonSocket, to be entered by registerSocket. *)
CreateSocket(t) ==
  \E s \in Sock :
    /\ state[s] = "unborn"
    /\ state' = [state EXCEPT ![s] = "fresh"]
    /\ sock' = [sock EXCEPT ![t] = s]
    /\ Goto(t, "reg")
    /\ UNCHANGED <<map, socketIndex, lock, hooks, bound, idx, rest, assigned,
                   regs, opened, lost>>

(* An allocator that starts again from 1 and hands out freed indexes. *)
IsNextFree_lowest(k) ==
  /\ k \in 1 .. LongMax /\ k \notin DOMAIN map
  /\ \A i \in 1 .. k - 1 : i \in DOMAIN map

(* The indexes _socketIndex passes on its way to k, wrapping as a long does. *)
PassedBy(k) ==
  IF socketIndex < k THEN socketIndex + 1 .. k - 1
  ELSE (socketIndex + 1 .. LongMax) \cup (LongMin .. k - 1)

(* k is where the increments stop: the first free index after _socketIndex. *)
IsNextFree(k) == k \notin DOMAIN map /\ PassedBy(k) \subseteq DOMAIN map

(* registerSocket under the lock: increment until the index is free, enter. *)
RegisterSocket(t) ==
  /\ pc[t] \in {"reg", "rereg"} /\ lock = NoThread
  /\ \E k \in Index :
       /\ IsNextFree(k)
       /\ socketIndex' = k
       /\ map' = [j \in DOMAIN map \cup {k} |-> IF j = k THEN sock[t] ELSE map[j]]
       /\ assigned' = [assigned EXCEPT ![sock[t]] = k]
       /\ regs' = [regs EXCEPT ![k] = @ + 1]
  /\ Goto(t, IF pc[t] = "reg" THEN "ret" ELSE "reret")
  /\ UNCHANGED <<lock, state, hooks, bound, sock, idx, rest, opened, lost>>

(* Where each caller of registerSocket goes on. *)
AfterRegister(t) ==
  IF t \in User THEN "connect"
  ELSE IF pc[t] = "reret" THEN "read"
  ELSE IF bound THEN "accepting" ELSE "bind"

(* The tail of registerSocket, after the lock: the socket's disconnect
   callback, and a return value read from _socketIndex again. *)
RegisterReturn(t) ==
  /\ pc[t] \in {"ret", "reret"}
  /\ hooks' = [hooks EXCEPT ![sock[t]] = @ + 1]
  /\ idx' = [idx EXCEPT ![t] = socketIndex]
  /\ Goto(t, AfterRegister(t))
  /\ UNCHANGED <<map, socketIndex, lock, state, bound, sock, rest, assigned,
                 regs, opened, lost>>

-----------------------------------------------------------------------------
(* connectTo. *)
ConnectTo(t) == t \in User /\ pc[t] = "idle" /\ CreateSocket(t)

(* socket().connect: a socket that somebody closed meanwhile is opened again. *)
ConnectOk(t) ==
  /\ pc[t] = "connect"
  /\ state' = [state EXCEPT ![sock[t]] = "connected"]
  /\ Goto(t, "newslots")
  /\ UNCHANGED <<map, socketIndex, lock, hooks, bound, sock, idx, rest,
                 assigned, regs, opened, lost>>

ConnectFails(t) ==
  /\ pc[t] = "connect"
  /\ Close(sock[t])
  /\ Goto(t, "dereg")
  /\ UNCHANGED <<map, socketIndex, lock, hooks, bound, sock, idx, rest,
                 assigned, regs, opened, lost>>

(* deregisterSocket: while _socketIndex is in the map, erase socketIndex. *)
DeregisterSocket(t) ==
  /\ pc[t] = "dereg" /\ lock \in {NoThread, t}
  /\ IF socketIndex \in DOMAIN map
       THEN /\ map' = Without(map, idx[t])
            /\ lock' = t
            /\ UNCHANGED <<pc, sock, idx>>
       ELSE /\ lock' = NoThread
            /\ Leave(t)
            /\ UNCHANGED map
  /\ UNCHANGED <<socketIndex, state, hooks, bound, rest, assigned, regs, opened,
                 lost>>

(* The new-connection slots: before the first read in connectTo, after it in
   socket_accept, which then waits for the next connection. *)
NewConnectionSlots(t) ==
  /\ pc[t] = "newslots"
  /\ opened' = opened \cup {<<idx[t], sock[t]>>}
  /\ Goto(t, IF t \in User THEN "read" ELSE "again")
  /\ UNCHANGED <<map, socketIndex, lock, state, hooks, bound, sock, idx, rest,
                 assigned, regs, lost>>

(* conn->receivePacket(): the socket's read chain starts. *)
ReceivePacket(t) ==
  /\ pc[t] = "read"
  /\ pc' = [pc EXCEPT ![sock[t]] = "reading",
                      ![t] = IF t \in User THEN "idle" ELSE "newslots"]
  /\ IF t \in User THEN Forget(t) ELSE UNCHANGED <<sock, idx>>
  /\ UNCHANGED <<map, socketIndex, lock, state, hooks, bound, rest, assigned,
                 regs, opened, lost>>

-----------------------------------------------------------------------------
(* bind_and_accept; a failed bind leaves the closed socket in the registry. *)
BindAndAccept ==
  Listening /\ pc[Acceptor] = "idle" /\ CreateSocket(Acceptor)

Bind ==
  /\ pc[Acceptor] = "bind"
  /\ \/ /\ bound' = TRUE
        /\ Goto(Acceptor, "accepting")
        /\ UNCHANGED state
     \/ /\ Close(sock[Acceptor])
        /\ Goto(Acceptor, "off")
        /\ UNCHANGED bound
  /\ UNCHANGED <<map, socketIndex, lock, hooks, sock, idx, rest, assigned, regs,
                 opened, lost>>

(* socket_accept without error; the pending socket is opened by the accept. *)
SocketAccept ==
  /\ pc[Acceptor] = "accepting"
  /\ state' = [state EXCEPT ![sock[Acceptor]] = "connected"]
  /\ Goto(Acceptor, "find")
  /\ UNCHANGED <<map, socketIndex, lock, hooks, bound, sock, idx, rest, assigned,
                 regs, opened, lost>>

(* An accept that enters every accepted socket. *)
FindAccepted_always ==
  /\ pc[Acceptor] = "find" /\ lock = NoThread
  /\ Goto(Acceptor, "rereg")
  /\ UNCHANGED <<map, socketIndex, lock, state, hooks, bound, sock, idx, rest,
                 assigned, regs, opened, lost>>

(* What a search of the map for s can return. *)
Lookup(s) == IF IndexesOf(s) = {} THEN {NotFound} ELSE IndexesOf(s)

(* socket_accept: look the socket up, enter it again if it is gone. *)
FindAccepted ==
  /\ pc[Acceptor] = "find" /\ lock = NoThread
  /\ \E k \in Lookup(sock[Acceptor]) :
       /\ idx' = [idx EXCEPT ![Acceptor] = k]
       /\ Goto(Acceptor, IF k = NotFound THEN "rereg" ELSE "read")
  /\ UNCHANGED <<map, socketIndex, lock, state, hooks, bound, sock, rest,
                 assigned, regs, opened, lost>>

(* The end of socket_accept, reached after the slots and after an error. *)
AcceptNext == pc[Acceptor] \in {"again", "accepting"} /\ CreateSocket(Acceptor)

-----------------------------------------------------------------------------
(* disconnect( socketIndex ), called by the application with an index it was
   given, or by a read chain with the one getSocketIndex found. *)
CallDisconnect(t, k) ==
  /\ t \in User /\ pc[t] = "idle"
  /\ idx' = [idx EXCEPT ![t] = k]
  /\ Goto(t, "disc")
  /\ UNCHANGED <<map, socketIndex, lock, state, hooks, bound, sock, rest,
                 assigned, regs, opened, lost>>

(* The end of disconnect: back in the application, or on to the socket's
   next disconnect callback. *)
Return(t) ==
  IF t \in User
    THEN Leave(t) /\ UNCHANGED hooks
    ELSE /\ hooks' = [hooks EXCEPT ![t] = @ - 1]
         /\ idx' = [idx EXCEPT ![t] = NotFound]
         /\ UNCHANGED sock
         /\ Goto(t, IF hooks[t] > 1 THEN "getindex" ELSE "off")

(* A disconnect that closes the socket and leaves its entry. *)
Disconnect_kept(t) ==
  /\ pc[t] = "disc" /\ lock = NoThread
  /\ IF idx[t] \in DOMAIN map
       THEN /\ Close(map[idx[t]])
            /\ Goto(t, "discslots")
            /\ UNCHANGED <<map, hooks, sock, idx>>
       ELSE /\ Return(t)
            /\ UNCHANGED <<map, state>>
  /\ UNCHANGED <<socketIndex, lock, bound, rest, assigned, regs, opened, lost>>

(* A disconnect that goes on to the slots without LeaveCriticalSection. *)
Disconnect_locked(t) ==
  /\ pc[t] = "disc" /\ lock = NoThread
  /\ IF idx[t] \in DOMAIN map
       THEN /\ Close(map[idx[t]])
            /\ map' = Without(map, idx[t])
            /\ lock' = t
            /\ Goto(t, "discslots")
            /\ UNCHANGED <<hooks, sock, idx>>
       ELSE /\ Return(t)
            /\ UNCHANGED <<map, lock, state>>
  /\ UNCHANGED <<socketIndex, bound, rest, assigned, regs, opened, lost>>

(* The entry and its socket under the lock; nothing if there is none. *)
Disconnect(t) ==
  /\ pc[t] = "disc" /\ lock = NoThread
  /\ IF idx[t] \in DOMAIN map
       THEN /\ Close(map[idx[t]])
            /\ map' = Without(map, idx[t])
            /\ Goto(t, "discslots")
            /\ UNCHANGED <<hooks, sock, idx>>
       ELSE /\ Return(t)
            /\ UNCHANGED <<map, state>>
  /\ UNCHANGED <<socketIndex, lock, bound, rest, assigned, regs, opened, lost>>

(* The disconnect slots, called after the lock is given up. *)
DisconnectSlots(t) ==
  /\ pc[t] = "discslots"
  /\ lost' = [lost EXCEPT ![idx[t]] = @ + 1]
  /\ Return(t)
  /\ UNCHANGED <<map, socketIndex, lock, state, bound, rest, assigned, regs,
                 opened>>

(* disconnectAll: the lock is held over all slots and closes. *)
DisconnectAllBegin(t) ==
  /\ t \in User /\ pc[t] = "idle" /\ lock = NoThread
  /\ lock' = t
  /\ rest' = [rest EXCEPT ![t] = DOMAIN map]
  /\ Goto(t, "all")
  /\ UNCHANGED <<map, socketIndex, state, hooks, bound, sock, idx, assigned, regs,
                 opened, lost>>

VisitEntry(t, k) ==
  /\ pc[t] = "all" /\ k \in rest[t]
  /\ lost' = [lost EXCEPT ![k] = @ + 1]
  /\ Close(map[k])
  /\ rest' = [rest EXCEPT ![t] = @ \ {k}]
  /\ UNCHANGED <<map, socketIndex, lock, hooks, bound, pc, sock, idx, assigned,
                 regs, opened>>

DisconnectAllEntry(t) == \E k \in rest[t] : VisitEntry(t, k)

DisconnectAllEnd(t) ==
  /\ pc[t] = "all" /\ rest[t] = {}
  /\ map' = << >>
  /\ lock' = NoThread
  /\ Goto(t, "idle")
  /\ UNCHANGED <<socketIndex, state, hooks, bound, sock, idx, rest, assigned,
                 regs, opened, lost>>

-----------------------------------------------------------------------------
(* A read of s fails: its peer is gone, or somebody here closed it. *)
ReadError(s) ==
  /\ pc[s] = "reading"
  /\ Goto(s, "getindex")
  /\ UNCHANGED <<map, socketIndex, lock, state, hooks, bound, sock, idx, rest,
                 assigned, regs, opened, lost>>

(* receiveDisconnectNotify: disconnect( getSocketIndex( connection ) ). *)
GetSocketIndex(s) ==
  /\ pc[s] = "getindex" /\ lock = NoThread
  /\ \E k \in Lookup(s) : idx' = [idx EXCEPT ![s] = k]
  /\ Goto(s, "disc")
  /\ UNCHANGED <<map, socketIndex, lock, state, hooks, bound, sock, rest,
                 assigned, regs, opened, lost>>

-----------------------------------------------------------------------------
(* Steps a thread takes by itself once it is inside an operation. *)
RegisterSteps(t) == RegisterSocket(t) \/ RegisterReturn(t)
DisconnectSteps(t) == Disconnect(t) \/ DisconnectSlots(t)
UserStep(t) ==
  \/ RegisterSteps(t) \/ ConnectOk(t) \/ ConnectFails(t) \/ DeregisterSocket(t)
  \/ NewConnectionSlots(t) \/ ReceivePacket(t) \/ DisconnectSteps(t)
  \/ DisconnectAllEntry(t) \/ DisconnectAllEnd(t)
AcceptorStep ==
  \/ RegisterSteps(Acceptor) \/ Bind \/ FindAccepted \/ ReceivePacket(Acceptor)
  \/ NewConnectionSlots(Acceptor) \/ (pc[Acceptor] = "again" /\ AcceptNext)
ReaderStep(s) == GetSocketIndex(s) \/ DisconnectSteps(s)

(* The indexes an application can know: those its slots were given. *)
Known == {o[1] : o \in opened}

Next ==
  \/ \E t \in User :
       \/ ConnectTo(t) \/ UserStep(t) \/ DisconnectAllBegin(t)
       \/ \E k \in Known : CallDisconnect(t, k)
  \/ BindAndAccept \/ SocketAccept \/ AcceptNext \/ AcceptorStep
  \/ \E s \in Sock : ReadError(s) \/ ReaderStep(s)

Spec == Init /\ [][Next]_vars

(* A thread inside an operation goes on; one that waits for the critical
   section gets it if it is free again and again; a read of a socket closed
   on this side completes.  Nobody is obliged to call, connect or hang up. *)
Fairness ==
  /\ \A t \in User : SF_vars(UserStep(t))
  /\ SF_vars(AcceptorStep)
  /\ \A s \in Sock : SF_vars(ReaderStep(s)) /\ WF_vars(state[s] = "closed" /\ ReadError(s))

FairSpec == Spec /\ Fairness

-----------------------------------------------------------------------------
(* Types; the lock is kept between steps only by disconnectAll and by the
   loop of deregisterSocket. *)
TypeOK ==
  /\ map \in [DOMAIN map -> Sock] /\ DOMAIN map \subseteq Index
  /\ socketIndex \in Index
  /\ lock \in User \cup {NoThread}
  /\ state \in [Sock -> SocketState]
  /\ hooks \in [Sock -> Nat] /\ bound \in BOOLEAN
  /\ pc \in [Thread -> PC]
  /\ sock \in [Thread -> Sock \cup {NoSock}]
  /\ idx \in [Thread -> Index]
  /\ rest \in [Thread -> SUBSET Index]
  /\ assigned \in [Sock -> Index]
  /\ regs \in [Index -> Nat] /\ lost \in [Index -> Nat]
  /\ opened \subseteq Index \X Sock

(* _socketIndex has not run past the largest long. *)
NotWrapped == regs[LongMin] = 0

(* However accepting, disconnectAll and re-registration interleave, a socket
   is never in the registry under two indexes. *)
OneIndexPerSocket == NotWrapped => IsInjective(map)

(* receiveDisconnectNotify looks its index up in one critical section and
   disconnects it in another; the index it carries over never names another
   connection by then. *)
ReaderClosesOwn ==
  NotWrapped => \A s \in Sock :
    pc[s] = "disc" /\ idx[s] \in DOMAIN map => map[idx[s]] = s

(* The disconnect slots hear of each registration at most once, whoever wins
   between disconnect, disconnectAll and the broken connection's read chain. *)
NotifiedAtMostOnce == \A k \in Index : lost[k] <= regs[k]

(* connectTo hands the application the index its socket is registered under
   (`@return > 0, index of the socket', CNetworkCommunicator.h). *)
OwnIndexReturned ==
  \A t \in User : pc[t] \in {"newslots", "read"} => idx[t] = assigned[sock[t]]

(* A broken connection leaves the registry and its read chain ends. *)
BrokenIsDropped ==
  \A s \in Sock : pc[s] = "getindex" ~> (IndexesOf(s) = {} /\ pc[s] = "off")

-----------------------------------------------------------------------------
(* The parts of the inductive invariant behind OneIndexPerSocket and
   ReaderClosesOwn. *)
Worker == User \cup {Acceptor}

UserPC == {"idle", "reg", "ret", "connect", "dereg", "newslots", "read", "disc",
           "discslots", "all"}
AcceptorPC == {"idle", "reg", "ret", "rereg", "reret", "bind", "accepting", "find",
               "read", "newslots", "again", "off"}
ReaderPC == {"idle", "reading", "getindex", "disc", "discslots", "off"}

(* Which operations a thread can be in, and which of them have a socket. *)
ThreadInv ==
  /\ \A t \in User : pc[t] \in UserPC
  /\ pc[Acceptor] \in AcceptorPC
  /\ \A s \in Sock : pc[s] \in ReaderPC /\ sock[s] = s
  /\ \A t \in Worker :
       pc[t] \notin {"idle", "disc", "discslots", "all", "off"} => sock[t] \in Sock

(* Two threads never work on the same new socket, and a socket that was not
   created is nowhere. *)
OwnerInv ==
  /\ \A t, u \in Worker : sock[t] = sock[u] /\ sock[t] \in Sock => t = u
  /\ \A s \in Sock : state[s] = "unborn" =>
       IndexesOf(s) = {} /\ pc[s] = "idle" /\ \A t \in Worker : sock[t] # s

(* t is still opening its socket: nothing reads from it yet. *)
Opening(t) ==
  \/ pc[t] \in {"reg", "ret", "rereg", "reret", "bind", "accepting", "find",
                "connect", "read"}
  \/ pc[t] = "newslots" /\ t \in User

(* A socket that is being read has a disconnect callback left to run. *)
HookInv ==
  /\ \A t \in Worker : Opening(t) =>
       pc[sock[t]] = "idle" /\ (pc[t] \notin {"reg", "ret"} => hooks[sock[t]] > 0)
  /\ \A s \in Sock : pc[s] \notin {"idle", "off"} => hooks[s] > 0

(* Indexes only grow, so one that was looked up is never given out again. *)
IndexInv ==
  /\ socketIndex \in Nat /\ DOMAIN map \subseteq 1 .. socketIndex
  /\ IsInjective(map)
  /\ \A t \in Worker : pc[t] \in {"reg", "rereg"} => IndexesOf(sock[t]) = {}
  /\ \A s \in Sock : pc[s] = "disc" =>
       /\ idx[s] \in {NotFound} \cup 1 .. socketIndex
       /\ idx[s] \in DOMAIN map => map[idx[s]] = s

(* The inductive invariant: who owns which socket, and, until _socketIndex
   wraps, which indexes are in use. *)
RegistryInv == TypeOK /\ ThreadInv /\ OwnerInv /\ HookInv /\ (NotWrapped => IndexInv)
=============================================================================
