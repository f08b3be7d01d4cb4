--------------------------- MODULE GPBConnections ---------------------------
(***************************************************************************)
(* CGPBManagerV2's bookkeeping of connections on top of the communicator:  *)
(* the slots it registers (receiveNewConnection, receiveDisconnection) run *)
(* inside the communicator's operations, on whatever thread those run on,  *)
(* and take the manager's own lock _lckSockets; the broadcasting           *)
(* sendPacket takes the two locks in the other order than disconnectAll.   *)
(*                                                                         *)
(* The communicator's step that calls a slot is taken jointly with the     *)
(* slot's last step.  _lckSendQueue and _lckQueue are only ever held over  *)
(* one map access, which is one step here.                                 *)
(***************************************************************************)
EXTENDS NetworkCommunicator

CONSTANT MayDisconnectAll   \* whether the application calls disconnectAll

ASSUME MayAssumption == MayDisconnectAll \in BOOLEAN

VARIABLES
  setLock,    \* the thread inside _lckSockets between two steps
  connected,  \* _setConnectionedSockets
  sentMap,    \* the indexes with an entry in _mapSocketToSendedPacket
  resMap,     \* the indexes with an entry in _mapSocketToResPacket
  spc,        \* where each thread is in a slot or in a broadcast
  cur,        \* the index a disconnect slot was called with
  todo,       \* the sockets a broadcast has still to send to
  answering,  \* the index a dispatcher is about to store a response under
  matching    \* the index a reader is about to look a packet's request up under

gvars == <<setLock, connected, sentMap, resMap, spc, cur, todo, answering, matching>>
allvars == <<vars, gvars>>

GInit ==
  /\ Init
  /\ setLock = NoThread /\ connected = {} /\ sentMap = {} /\ resMap = {}
  /\ spc = [t \in Thread |-> "out"]
  /\ cur = [t \in Thread |-> NotFound]
  /\ todo = [t \in Thread |-> {}]
  /\ answering = NotFound /\ matching = [s \in Sock |-> NotFound]

At(t, l) == spc' = [spc EXCEPT ![t] = l]

-----------------------------------------------------------------------------
(* receiveNewConnection: into the connected set under _lckSockets ... *)
NewInsert(t) ==
  /\ pc[t] = "newslots" /\ spc[t] = "out" /\ setLock = NoThread
  /\ connected' = connected \cup {sock[t]}
  /\ At(t, "inserted")
  /\ UNCHANGED <<vars, setLock, sentMap, resMap, cur, todo, answering, matching>>

(* A slot that registers the read callback and makes no map. *)
NewSentMap_forgotten(t) ==
  /\ spc[t] = "inserted"
  /\ NewConnectionSlots(t)
  /\ At(t, "out")
  /\ UNCHANGED <<setLock, connected, sentMap, resMap, cur, todo, answering, matching>>

(* ... then the read callback and an empty map of sent packets. *)
NewSentMap(t) ==
  /\ spc[t] = "inserted"
  /\ NewConnectionSlots(t)
  /\ sentMap' = sentMap \cup {idx[t]}
  /\ At(t, "out")
  /\ UNCHANGED <<setLock, connected, resMap, cur, todo, answering, matching>>

-----------------------------------------------------------------------------
(* receiveDisconnection( k ) takes _lckSockets ... *)
LostEnter(t, k) ==
  /\ \/ pc[t] = "discslots" /\ k = idx[t]
     \/ pc[t] = "all" /\ k \in rest[t]
  /\ spc[t] = "out" /\ setLock = NoThread
  /\ setLock' = t
  /\ cur' = [cur EXCEPT ![t] = k]
  /\ At(t, "erasing")
  /\ UNCHANGED <<vars, connected, sentMap, resMap, todo, answering, matching>>

(* A slot that leaves without giving _lckSockets back. *)
LostErase_locked(t) ==
  /\ spc[t] = "erasing" /\ lock \in {NoThread, t}
  /\ connected' = IF cur[t] \in DOMAIN map THEN connected \ {map[cur[t]]} ELSE connected
  /\ At(t, "erased")
  /\ UNCHANGED <<vars, setLock, sentMap, resMap, cur, todo, answering, matching>>

(* A getSocket that reads _mapIndexToSocket[ k ] without looking first, which
   enters an empty pointer. *)
LostErase_inserting(t) ==
  /\ spc[t] = "erasing" /\ lock \in {NoThread, t}
  /\ map' = [j \in DOMAIN map \cup {cur[t]} |-> IF j \in DOMAIN map THEN map[j] ELSE NoSock]
  /\ connected' = connected \ {map'[cur[t]]}
  /\ setLock' = NoThread
  /\ At(t, "erased")
  /\ UNCHANGED <<socketIndex, lock, state, hooks, bound, pc, sock, idx, rest, assigned,
                 regs, opened, lost, sentMap, resMap, cur, todo, answering, matching>>

(* ... erases getSocket( k ), which waits for the registry's lock and is a
   new socket nobody knows when k is no longer registered ... *)
LostErase(t) ==
  /\ spc[t] = "erasing" /\ lock \in {NoThread, t}
  /\ connected' = IF cur[t] \in DOMAIN map THEN connected \ {map[cur[t]]} ELSE connected
  /\ setLock' = NoThread
  /\ At(t, "erased")
  /\ UNCHANGED <<vars, sentMap, resMap, cur, todo, answering, matching>>

(* A slot that leaves the sent packets. *)
LostSentMap_forgotten(t) ==
  /\ spc[t] = "erased"
  /\ DisconnectSlots(t) \/ VisitEntry(t, cur[t])
  /\ cur' = [cur EXCEPT ![t] = NotFound]
  /\ At(t, "out")
  /\ UNCHANGED <<setLock, connected, sentMap, resMap, todo, answering, matching>>

(* ... and deletes what was sent to k. *)
LostSentMap(t) ==
  /\ spc[t] = "erased"
  /\ DisconnectSlots(t) \/ VisitEntry(t, cur[t])
  /\ sentMap' = sentMap \ {cur[t]}
  /\ cur' = [cur EXCEPT ![t] = NotFound]
  /\ At(t, "out")
  /\ UNCHANGED <<setLock, connected, resMap, todo, answering, matching>>

-----------------------------------------------------------------------------
(* sendPacket to every connected socket, under _lckSockets; getSocketIndex
   needs the registry's lock for each. *)
BroadcastBegin(t) ==
  /\ pc[t] = "idle" /\ spc[t] = "out" /\ setLock = NoThread
  /\ setLock' = t
  /\ todo' = [todo EXCEPT ![t] = connected]
  /\ At(t, "broadcast")
  /\ UNCHANGED <<vars, connected, sentMap, resMap, cur, answering, matching>>

BroadcastEach(t) ==
  /\ spc[t] = "broadcast" /\ lock = NoThread
  /\ \E s \in todo[t] : todo' = [todo EXCEPT ![t] = @ \ {s}]
  /\ UNCHANGED <<vars, setLock, connected, sentMap, resMap, spc, cur, answering, matching>>

BroadcastEnd(t) ==
  /\ spc[t] = "broadcast" /\ todo[t] = {}
  /\ setLock' = NoThread
  /\ At(t, "out")
  /\ UNCHANGED <<vars, connected, sentMap, resMap, cur, todo, answering, matching>>

(* dispatchReceiveMessage with a response no slot wants: look the index up,
   then store under it. *)
StoreBegin(s) ==
  /\ answering = NotFound /\ lock = NoThread /\ pc[s] # "idle"
  /\ \E k \in IndexesOf(s) : k > 0 /\ answering' = k
  /\ UNCHANGED <<vars, setLock, connected, sentMap, resMap, spc, cur, todo, matching>>

StoreEnd ==
  /\ answering # NotFound
  /\ resMap' = resMap \cup {answering}
  /\ answering' = NotFound
  /\ UNCHANGED <<vars, setLock, connected, sentMap, spc, cur, todo, matching>>

(* queuePacketFromDataBuffer with the busy protocol: the reader looks its
   index up; a socket without one, or an index that is an error code, ends
   there... *)
MatchBegin(s) ==
  /\ pc[s] = "reading" /\ state[s] # "closed"
  /\ matching[s] = NotFound /\ lock = NoThread
  /\ \E k \in IndexesOf(s) : k > 0 /\ matching' = [matching EXCEPT ![s] = k]
  /\ UNCHANGED <<vars, setLock, connected, sentMap, resMap, spc, cur, todo, answering>>

(* ...and dereferences the sent packets it finds under it, or does not find. *)
MatchEnd(s) ==
  /\ matching[s] # NotFound
  /\ matching' = [matching EXCEPT ![s] = NotFound]
  /\ UNCHANGED <<vars, setLock, connected, sentMap, resMap, spc, cur, todo, answering>>

-----------------------------------------------------------------------------
SlotStep(t) == NewInsert(t) \/ NewSentMap(t) \/ LostErase(t) \/ LostSentMap(t)
               \/ \E k \in Index : LostEnter(t, k)

(* The communicator's own steps, those that call no slot. *)
GUserStep(t) ==
  \/ SlotStep(t) \/ BroadcastEach(t) \/ BroadcastEnd(t)
  \/ /\ \/ RegisterSteps(t) \/ ConnectOk(t) \/ ConnectFails(t)
        \/ DeregisterSocket(t) \/ ReceivePacket(t) \/ Disconnect(t)
        \/ DisconnectAllEnd(t)
     /\ UNCHANGED gvars
GAcceptorStep ==
  \/ SlotStep(Acceptor)
  \/ /\ \/ RegisterSteps(Acceptor) \/ Bind \/ FindAccepted \/ ReceivePacket(Acceptor)
        \/ pc[Acceptor] = "again" /\ AcceptNext
     /\ UNCHANGED gvars
GReaderStep(s) ==
  \/ SlotStep(s) \/ MatchEnd(s)
  \/ (GetSocketIndex(s) \/ Disconnect(s)) /\ UNCHANGED gvars

(* The next read begins when the packet has been looked at. *)
GReadError(s) == matching[s] = NotFound /\ ReadError(s) /\ UNCHANGED gvars

Call(t) ==
  /\ spc[t] = "out"
  /\ \/ ConnectTo(t)
     \/ MayDisconnectAll /\ DisconnectAllBegin(t)
     \/ \E k \in Known : CallDisconnect(t, k)
  /\ UNCHANGED gvars

GNext ==
  \/ \E t \in User : Call(t) \/ BroadcastBegin(t) \/ GUserStep(t)
  \/ GAcceptorStep
  \/ (BindAndAccept \/ SocketAccept \/ AcceptNext) /\ UNCHANGED gvars
  \/ \E s \in Sock :
       \/ GReaderStep(s) \/ StoreBegin(s) \/ MatchBegin(s)
       \/ GReadError(s)
  \/ StoreEnd

GSpec == GInit /\ [][GNext]_allvars

GFairness ==
  /\ \A t \in User : SF_allvars(GUserStep(t))
  /\ SF_allvars(GAcceptorStep)
  /\ \A s \in Sock : SF_allvars(GReaderStep(s))
                     /\ WF_allvars(state[s] = "closed" /\ GReadError(s))

GFairSpec == GSpec /\ GFairness

-----------------------------------------------------------------------------
(* Types of the manager's own state. *)
GTypeOK ==
  /\ setLock \in Thread \cup {NoThread}
  /\ connected \subseteq Sock
  /\ sentMap \subseteq Index /\ resMap \subseteq Index
  /\ spc \in [Thread -> {"out", "inserted", "erasing", "erased", "broadcast"}]
  /\ cur \in [Thread -> Index] /\ todo \in [Thread -> SUBSET Sock]
  /\ answering \in Index /\ matching \in [Sock -> Index]

(* _lckSockets has one owner, which is in a disconnect slot or a broadcast,
   and a thread inside a slot stays in the call that runs it, with the index
   it was called with, until the slot returns. *)
SlotInv ==
  /\ GTypeOK
  /\ \A t \in Thread : spc[t] \in {"erasing", "broadcast"} <=> setLock = t
  /\ \A t \in Thread :
       /\ spc[t] = "broadcast" => t \in User /\ pc[t] = "idle"
       /\ spc[t] = "inserted" => pc[t] = "newslots"
       /\ spc[t] \in {"erasing", "erased"} =>
            \/ pc[t] = "discslots" /\ cur[t] = idx[t]
            \/ pc[t] = "all" /\ cur[t] \in rest[t]

(* The manager's slots only ever interleave with the communicator, they never
   make it do what it could not do by itself. *)
CommunicatorSpec == Spec

(* The connection that t is about to tell the slots of may be told lost already:
   it was accepted, so that its reads began first; or the index is not its own,
   for another connection was registered before registerSocket returned; or
   another application thread has disconnected it. *)
MayBeLate(t) == t = Acceptor \/ idx[t] # assigned[sock[t]] \/ User # {t}

(* The disconnect slot leaves nothing in the sent map for its index, and what was
   told lost gets a sent map back only from a new-connection slot that ran late,
   never from that of a connectTo alone.  An index that comes round again when
   _socketIndex wraps gets a new map. *)
SentMapForgotten ==
  [][NotWrapped' => \A k \in sentMap' : lost'[k] > 0 =>
       \/ k \in sentMap /\ lost'[k] = lost[k]
       \/ \E t \in Worker : pc[t] = "newslots" /\ idx[t] = k /\ MayBeLate(t)]_allvars

(* A reader that looks for the request of a packet misses the sent packets of
   its connection only if somebody disconnected it after the lookup, or if it
   was accepted, whose reading starts before the slots run. *)
ReaderFindsSentMap ==
  \A s \in Sock : matching[s] # NotFound /\ matching[s] \notin sentMap =>
    \/ lost[matching[s]] > 0
    \/ Listening /\ <<matching[s], s>> \notin opened

(* disconnectAll returns with every managed connection closed. *)
DisconnectAllReturns == \A t \in User : pc[t] = "all" ~> pc[t] = "idle"

(* A broadcast gets through, however connections come and go meanwhile. *)
BroadcastReturns == \A t \in User : spc[t] = "broadcast" ~> spc[t] = "out"
=============================================================================
