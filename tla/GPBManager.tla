----------------------------- MODULE GPBManager -----------------------------
(***************************************************************************)
(* The packet pipeline of CGPBManagerV2 (CGPBManagerV2.h) on established   *)
(* connections: application threads that send a request and wait for the   *)
(* packet with its message number, the one dispatchSendMessage thread, the *)
(* read callback of each connection (queuePacketFromDataBuffer), the       *)
(* dispatchReceiveMessage threads, and the `server busy' protocol between  *)
(* them.  The two queues are the atomic FIFOs that module ConcurrentQueue  *)
(* is shown to implement.  The server is external: it answers a request    *)
(* when it likes, with a result or with the busy code, and may push        *)
(* packets of its own.  It runs the same code and numbers those itself, so *)
(* a push may bear the number of a request of this side.                   *)
(***************************************************************************)
EXTENDS Naturals, Sequences, FiniteSets, SequencesExt

CONSTANTS
  Conn,        \* connected sockets
  App,         \* application threads
  Dispatcher,  \* dispatchReceiveMessage threads
  MaxMsg,      \* bound on requests
  MaxBusy,     \* bound on busy answers
  MaxPush,     \* bound on packets the peers send of their own accord
  None         \* no packet in hand

ASSUME BoundAssumption ==
  MaxMsg \in Nat /\ MaxBusy \in Nat /\ MaxPush \in Nat

VARIABLES
  useBusy,         \* _isUseWaitingWhenServerBusy
  slots,           \* the codes in _mapRequestToSlot and _mapResponseToSlot
  globalMessageID, \* _globalMessageID
  outgoing,        \* _outgoingQueue
  incoming,        \* _incomingQueue
  isBusy,          \* _isBusy
  sent,            \* the packets in _mapSocketToSendedPacket, per connection
  responses,       \* _mapSocketToResPacket
  apc, apkt,       \* application threads: place, request
  spc, spkt,       \* dispatchSendMessage
  rpc, rpkt,       \* read callbacks
  dpkt,            \* dispatchReceiveMessage threads: the packet popped
  atServer,        \* requests the server has and has not answered
  wire,            \* answers on their way back, per connection
  busies,          \* how often the server answered busy
  pushed,          \* the numbers of the packets each peer sent of its own accord
  received         \* history: packets that a slot or receivePacket gave the application

vars == <<useBusy, slots, globalMessageID, outgoing, incoming, isBusy, sent, responses, apc,
          apkt, spc, spkt, rpc, rpkt, dpkt, atServer, wire, busies, pushed, received>>

Id == 1 .. MaxMsg
Code == {"request", "result", "busy", "push", "reply"}
Packet == [conn : Conn, id : Id, code : Code]

ASSUME NoneAssumption == None \notin Packet

(* The application switches the busy protocol on or off, and registers its
   slots, before it connects. *)
Init ==
  /\ useBusy \in BOOLEAN /\ slots \in SUBSET {"push", "result"}
  /\ globalMessageID = 0
  /\ outgoing = << >> /\ incoming = << >> /\ isBusy = FALSE
  /\ sent = [c \in Conn |-> {}] /\ responses = {}
  /\ apc = [a \in App |-> "idle"] /\ apkt = [a \in App |-> None]
  /\ spc = "loop" /\ spkt = None
  /\ rpc = [c \in Conn |-> "idle"] /\ rpkt = [c \in Conn |-> None]
  /\ dpkt = [d \in Dispatcher |-> None]
  /\ atServer = << >> /\ wire = [c \in Conn |-> << >>]
  /\ busies = 0 /\ pushed = {} /\ received = {}

-----------------------------------------------------------------------------
(* sendPacket: InterlockedIncrement of the message number, then the push;
   another sender can get in between. *)
AssignMsgId(a, c) ==
  /\ apc[a] = "idle" /\ globalMessageID < MaxMsg
  /\ globalMessageID' = globalMessageID + 1
  /\ apkt' = [apkt EXCEPT ![a] = [conn |-> c, id |-> globalMessageID + 1,
                                  code |-> "request"]]
  /\ apc' = [apc EXCEPT ![a] = "push"]
  /\ UNCHANGED <<useBusy, slots, outgoing, incoming, isBusy, sent, responses, spc, spkt, rpc, rpkt,
                 dpkt, atServer, wire, busies, pushed, received>>

PushOutgoing(a) ==
  /\ apc[a] = "push"
  /\ outgoing' = Append(outgoing, apkt[a])
  /\ apc' = [apc EXCEPT ![a] = "wait"]
  /\ UNCHANGED <<useBusy, slots, globalMessageID, incoming, isBusy, sent, responses, apkt, spc, spkt,
                 rpc, rpkt, dpkt, atServer, wire, busies, pushed, received>>

(* receivePacketWait: one try of receivePacket, which takes the stored packet. *)
ReceivePacket(a) ==
  /\ apc[a] = "wait"
  /\ \E r \in responses :
       /\ r.conn = apkt[a].conn /\ r.id = apkt[a].id
       /\ responses' = responses \ {r}
       /\ received' = received \cup {r}
  /\ apc' = [apc EXCEPT ![a] = "idle"]
  /\ apkt' = [apkt EXCEPT ![a] = None]
  /\ UNCHANGED <<useBusy, slots, globalMessageID, outgoing, incoming, isBusy, sent, spc, spkt, rpc,
                 rpkt, dpkt, atServer, wire, busies, pushed>>

(* The tries of receivePacketWait are used up; the answer may still come. *)
GiveUp(a) ==
  /\ apc[a] = "wait"
  /\ apc' = [apc EXCEPT ![a] = "idle"]
  /\ apkt' = [apkt EXCEPT ![a] = None]
  /\ UNCHANGED <<useBusy, slots, globalMessageID, outgoing, incoming, isBusy, sent, responses, spc,
                 spkt, rpc, rpkt, dpkt, atServer, wire, busies, pushed, received>>

-----------------------------------------------------------------------------
(* dispatchSendMessage: sleep and look again while busy. *)
SenderLoop ==
  /\ spc = "loop"
  /\ ~(useBusy /\ isBusy)
  /\ spc' = "pop"
  /\ UNCHANGED <<useBusy, slots, globalMessageID, outgoing, incoming, isBusy, sent, responses,
                 apc, apkt, spkt, rpc, rpkt, dpkt, atServer, wire, busies, pushed, received>>

SenderPop ==
  /\ spc = "pop" /\ outgoing # << >>
  /\ spkt' = Head(outgoing)
  /\ outgoing' = Tail(outgoing)
  /\ spc' = IF useBusy THEN "check" ELSE "send"
  /\ UNCHANGED <<useBusy, slots, globalMessageID, incoming, isBusy, sent, responses, apc, apkt, rpc,
                 rpkt, dpkt, atServer, wire, busies, pushed, received>>

(* The second look at _isBusy: `continue' with the packet already popped. *)
SenderCheck ==
  /\ spc = "check"
  /\ IF isBusy
       THEN spc' = "loop" /\ spkt' = None
       ELSE spc' = "record" /\ UNCHANGED spkt
  /\ UNCHANGED <<useBusy, slots, globalMessageID, outgoing, incoming, isBusy, sent, responses,
                 apc, apkt, rpc, rpkt, dpkt, atServer, wire, busies, pushed, received>>

(* A sender that keeps no copy of what it sends. *)
SenderRecord_skipped ==
  /\ spc = "record"
  /\ spc' = "send"
  /\ UNCHANGED <<useBusy, slots, globalMessageID, outgoing, incoming, isBusy, sent, responses,
                 apc, apkt, spkt, rpc, rpkt, dpkt, atServer, wire, busies, pushed, received>>

(* insert keeps an earlier packet of the same number. *)
SenderRecord ==
  /\ spc = "record"
  /\ sent' = IF \E p \in sent[spkt.conn] : p.id = spkt.id
             THEN sent ELSE [sent EXCEPT ![spkt.conn] = @ \cup {spkt}]
  /\ spc' = "send"
  /\ UNCHANGED <<useBusy, slots, globalMessageID, outgoing, incoming, isBusy, responses, apc, apkt,
                 spkt, rpc, rpkt, dpkt, atServer, wire, busies, pushed, received>>

(* CCommonSocket::sendPacket; what the server does with a reply is its own. *)
SenderSend ==
  /\ spc = "send"
  /\ atServer' = IF spkt.code = "request" THEN Append(atServer, spkt) ELSE atServer
  /\ spc' = "loop" /\ spkt' = None
  /\ UNCHANGED <<useBusy, slots, globalMessageID, outgoing, incoming, isBusy, sent, responses,
                 apc, apkt, rpc, rpkt, dpkt, wire, busies, pushed, received>>

-----------------------------------------------------------------------------
(* The server (external). *)
Answer(k, code) ==
  /\ atServer' = RemoveAt(atServer, k)
  /\ LET r == atServer[k] IN
       wire' = [wire EXCEPT ![r.conn] = Append(@, [r EXCEPT !.code = code])]
  /\ UNCHANGED <<useBusy, slots, globalMessageID, outgoing, incoming, isBusy, sent, responses,
                 apc, apkt, spc, spkt, rpc, rpkt, dpkt, pushed, received>>

ServerAnswers(k) == Answer(k, "result") /\ UNCHANGED busies

ServerBusy(k) == busies < MaxBusy /\ Answer(k, "busy") /\ busies' = busies + 1

(* The peer's _globalMessageID also counts from 1: any number, each once. *)
ServerPushes(c, i) ==
  /\ <<c, i>> \notin pushed /\ Cardinality(pushed) < MaxPush
  /\ pushed' = pushed \cup {<<c, i>>}
  /\ wire' = [wire EXCEPT ![c] = Append(@, [conn |-> c, id |-> i, code |-> "push"])]
  /\ UNCHANGED <<useBusy, slots, globalMessageID, outgoing, incoming, isBusy, sent, responses,
                 apc, apkt, spc, spkt, rpc, rpkt, dpkt, atServer, busies, received>>

-----------------------------------------------------------------------------
(* queuePacketFromDataBuffer: without the busy protocol straight into the
   incoming queue. *)
Read(c) ==
  /\ rpc[c] = "idle" /\ wire[c] # << >>
  /\ wire' = [wire EXCEPT ![c] = Tail(@)]
  /\ IF useBusy
       THEN /\ rpkt' = [rpkt EXCEPT ![c] = Head(wire[c])]
            /\ rpc' = [rpc EXCEPT ![c] = "flag"]
            /\ UNCHANGED incoming
       ELSE /\ incoming' = Append(incoming, Head(wire[c]))
            /\ UNCHANGED <<rpc, rpkt>>
  /\ UNCHANGED <<useBusy, slots, globalMessageID, outgoing, isBusy, sent, responses, apc, apkt, spc,
                 spkt, dpkt, atServer, busies, pushed, received>>

(* _isBusy follows the packet's code, before _lckSendQueue is taken. *)
ReaderFlag(c) ==
  /\ rpc[c] = "flag"
  /\ isBusy' = (rpkt[c].code = "busy")
  /\ rpc' = [rpc EXCEPT ![c] = "match"]
  /\ UNCHANGED <<useBusy, slots, globalMessageID, outgoing, incoming, sent, responses, apc, apkt, spc,
                 spkt, rpkt, dpkt, atServer, wire, busies, pushed, received>>

(* Under _lckSendQueue: only a packet whose number is in the sent map goes
   anywhere, and _isBusy is read again to decide where: the packet to the
   dispatchers, or what was sent under its number to the sender. *)
ReaderMatch(c) ==
  /\ rpc[c] = "match"
  /\ \/ \E p \in sent[c] :
          /\ p.id = rpkt[c].id
          /\ IF isBusy THEN outgoing' = Append(outgoing, p) /\ UNCHANGED incoming
                       ELSE incoming' = Append(incoming, rpkt[c]) /\ UNCHANGED outgoing
          /\ sent' = [sent EXCEPT ![c] = @ \ {p}]
     \/ /\ \A p \in sent[c] : p.id # rpkt[c].id
        /\ UNCHANGED <<outgoing, incoming, sent>>
  /\ rpc' = [rpc EXCEPT ![c] = "idle"]
  /\ rpkt' = [rpkt EXCEPT ![c] = None]
  /\ UNCHANGED <<useBusy, slots, globalMessageID, isBusy, responses, apc, apkt, spc, spkt, dpkt,
                 atServer, wire, busies, pushed, received>>

-----------------------------------------------------------------------------
(* front() without pop(). *)
DispatcherPop_peek(d) ==
  /\ dpkt[d] = None /\ incoming # << >>
  /\ dpkt' = [dpkt EXCEPT ![d] = Head(incoming)]
  /\ UNCHANGED <<useBusy, slots, globalMessageID, outgoing, incoming, isBusy, sent, responses,
                 apc, apkt, spc, spkt, rpc, rpkt, atServer, wire, busies, pushed, received>>

(* dispatchReceiveMessage. *)
DispatcherPop(d) ==
  /\ dpkt[d] = None /\ incoming # << >>
  /\ dpkt' = [dpkt EXCEPT ![d] = Head(incoming)]
  /\ incoming' = Tail(incoming)
  /\ UNCHANGED <<useBusy, slots, globalMessageID, outgoing, isBusy, sent, responses, apc, apkt, spc,
                 spkt, rpc, rpkt, atServer, wire, busies, pushed, received>>

(* A packet with a slot: its handler runs and may answer, on the packet's
   connection and with its message number. *)
DispatchToSlot(d) ==
  /\ dpkt[d] # None /\ dpkt[d].code \in slots
  /\ \/ outgoing' = Append(outgoing, [dpkt[d] EXCEPT !.code = "reply"])
     \/ UNCHANGED outgoing
  /\ received' = received \cup {dpkt[d]}
  /\ dpkt' = [dpkt EXCEPT ![d] = None]
  /\ UNCHANGED <<useBusy, slots, globalMessageID, incoming, isBusy, sent, responses, apc, apkt,
                 spc, spkt, rpc, rpkt, atServer, wire, busies, pushed>>

(* A store that keeps a packet only for a thread already waiting for it. *)
DispatchToStore_waiting(d) ==
  /\ dpkt[d] # None /\ dpkt[d].code \notin slots
  /\ responses' =
       IF \E a \in App : apc[a] = "wait" /\ apkt[a].id = dpkt[d].id
       THEN responses \cup {dpkt[d]} ELSE responses
  /\ dpkt' = [dpkt EXCEPT ![d] = None]
  /\ UNCHANGED <<useBusy, slots, globalMessageID, outgoing, incoming, isBusy, sent, apc, apkt, spc,
                 spkt, rpc, rpkt, atServer, wire, busies, pushed, received>>

(* A packet without one is stored; insert keeps an earlier packet. *)
DispatchToStore(d) ==
  /\ dpkt[d] # None /\ dpkt[d].code \notin slots
  /\ responses' =
       IF \E r \in responses : r.conn = dpkt[d].conn /\ r.id = dpkt[d].id
       THEN responses ELSE responses \cup {dpkt[d]}
  /\ dpkt' = [dpkt EXCEPT ![d] = None]
  /\ UNCHANGED <<useBusy, slots, globalMessageID, outgoing, incoming, isBusy, sent, apc, apkt, spc,
                 spkt, rpc, rpkt, atServer, wire, busies, pushed, received>>

-----------------------------------------------------------------------------
SenderStep == SenderLoop \/ SenderPop \/ SenderCheck \/ SenderRecord \/ SenderSend
ReaderStep(c) == Read(c) \/ ReaderFlag(c) \/ ReaderMatch(c)
DispatcherStep(d) == DispatcherPop(d) \/ DispatchToSlot(d) \/ DispatchToStore(d)

Next ==
  \/ \E a \in App :
       \/ PushOutgoing(a) \/ ReceivePacket(a) \/ GiveUp(a)
       \/ \E c \in Conn : AssignMsgId(a, c)
  \/ SenderStep
  \/ \E c \in Conn : ReaderStep(c) \/ \E i \in Id : ServerPushes(c, i)
  \/ \E k \in DOMAIN atServer : ServerAnswers(k) \/ ServerBusy(k)
  \/ \E d \in Dispatcher : DispatcherStep(d)

Spec == Init /\ [][Next]_vars

(* The manager's own threads and a sendPacket under way go on; the server
   answers in the end (its busy answers are bounded by MaxBusy). *)
Fairness ==
  /\ \A a \in App : WF_vars(PushOutgoing(a))
  /\ WF_vars(SenderStep)
  /\ WF_vars(\E k \in DOMAIN atServer : ServerAnswers(k))
  /\ \A c \in Conn : WF_vars(ReaderStep(c))
  /\ \A d \in Dispatcher : WF_vars(DispatcherStep(d))

FairSpec == Spec /\ Fairness

-----------------------------------------------------------------------------
(* The types of the pipeline's state: an application thread, dispatchSendMessage
   and the read callback hold a packet at every step between taking one and
   being done with it. *)
TypeOK ==
  /\ useBusy \in BOOLEAN /\ slots \subseteq {"push", "result"}
  /\ globalMessageID \in 0 .. MaxMsg
  /\ outgoing \in Seq(Packet) /\ incoming \in Seq(Packet) /\ atServer \in Seq(Packet)
  /\ wire \in [Conn -> Seq(Packet)]
  /\ isBusy \in BOOLEAN
  /\ sent \in [Conn -> SUBSET Packet]
  /\ responses \subseteq Packet /\ received \subseteq Packet
  /\ apc \in [App -> {"idle", "push", "wait"}]
  /\ apkt \in [App -> Packet \cup {None}]
  /\ \A a \in App : apc[a] = "idle" <=> apkt[a] = None
  /\ spc \in {"loop", "pop", "check", "record", "send"}
  /\ IF spc \in {"loop", "pop"} THEN spkt = None ELSE spkt \in Packet
  /\ rpc \in [Conn -> {"idle", "flag", "match"}]
  /\ rpkt \in [Conn -> Packet \cup {None}]
  /\ \A c \in Conn : rpc[c] = "idle" <=> rpkt[c] = None
  /\ dpkt \in [Dispatcher -> Packet \cup {None}]
  /\ busies \in 0 .. MaxBusy /\ pushed \subseteq Conn \X Id

(* The request a packet belongs to: none for what the peer began. *)
Num(p) == IF p.code \in {"request", "result", "busy"} THEN p.id ELSE 0
Has(p, i) == p # None /\ Num(p) = i
At(q, i) == {k \in DOMAIN q : Num(q[k]) = i}

(* Everywhere request i, or the answer to it, is. *)
Places(i) ==
  (({"outgoing"} \X At(outgoing, i)) \cup ({"incoming"} \X At(incoming, i))
    \cup ({"server"} \X At(atServer, i)))
  \cup (UNION {{c} \X At(wire[c], i) : c \in Conn})
  \cup {<<"app", a>> : a \in {a \in App : apc[a] = "push" /\ Has(apkt[a], i)}}
  \cup {<<"sender", p>> : p \in {p \in {spkt} : Has(p, i)}}
  \cup {<<"reader", c>> : c \in {c \in Conn : Has(rpkt[c], i)}}
  \cup {<<"dispatcher", d>> : d \in {d \in Dispatcher : Has(dpkt[d], i)}}
  \cup {<<"stored", r>> : r \in {r \in responses \cup received : Has(r, i)}}

(* No peer has used the number i for a packet of its own. *)
Clean(i) == \A c \in Conn : <<c, i>> \notin pushed

(* A request is never in two places: it is not sent again while an answer to
   it is under way, and no two threads get an answer to it.  A push that bears
   its number is taken for its answer, and when another connection raises
   _isBusy meanwhile the request is sent again while the server has it. *)
OneCopy == \A i \in Id : Clean(i) => Cardinality(Places(i)) <= 1

(* Without the busy protocol a request that sendPacket took is somewhere until
   its answer is fetched, unless a push without a slot took its place in the
   response map. *)
NothingLost ==
  ~useBusy => \A i \in 1 .. globalMessageID : Clean(i) => Places(i) # {}

(* The request is in the sent map, and not a reply under its number, when its
   answer is read: recording it comes before writing it to the socket, and
   nothing but a push that bears its number removes it before its answer. *)
AnswerMatched ==
  \A c \in Conn : rpkt[c] # None =>
    \/ \E p \in sent[c] : p.id = rpkt[c].id /\ p.code = "request"
    \/ ~Clean(rpkt[c].id)

(* `If the code is RES_SERVER_BUSY the packet is discarded': a busy packet
   never reaches a handler or a caller of receivePacket. *)
BusyDiscarded ==
  useBusy => /\ \A k \in DOMAIN incoming : incoming[k].code # "busy"
             /\ \A r \in responses \cup received : r.code # "busy"

(* `When the server answers SERVER_BUSY the packet is sent again after resting
   for the interval': a request that waits in the outgoing queue while the
   sender rests reaches the server. *)
ResentAfterRest ==
  \A i \in Id : (useBusy /\ isBusy /\ At(outgoing, i) # {}) ~> (At(atServer, i) # {})

(* The sender rests, and no packet is under way that would lower the flag. *)
Resting ==
  /\ useBusy /\ isBusy /\ spc = "loop" /\ atServer = << >>
  /\ \A c \in Conn : wire[c] = << >> /\ rpc[c] = "idle"

(* Once the server has turned down everything it was sent, the manager never
   sends again of its own accord: the interval of dispatchSendMessage ends only
   when a peer sends a packet unasked. *)
OnlyAPushResumes == [][Resting => Resting' \/ pushed' # pushed]_vars

(* Without the busy protocol an answer that arrived is stored for receivePacket
   or given to its slot, unless a push without a slot was stored in its place. *)
AnswerStored ==
  \A i \in Id : (\E c \in Conn : ~useBusy /\ At(wire[c], i) # {})
    ~> (~Clean(i) \/ \E r \in responses \cup received : Num(r) = i)
=============================================================================
