-------------------------- MODULE GPBManager_proofs --------------------------
(***************************************************************************)
(* The packet pipeline for any number of connections, application threads, *)
(* dispatchers and requests: a request is never in two places, without the *)
(* busy protocol it is always in one, with it its answer always finds it   *)
(* in the sent map, and a manager that rests is woken only by the server.  *)
(***************************************************************************)
EXTENDS GPBManager, FiniteSetTheorems, SequenceTheorems, TLAPS

(* Numbers begin at 1. *)
LEMMA IdFacts == Id \subseteq Nat \ {0} /\ 0 \notin Id
BY BoundAssumption DEF Id

(* RemoveAt closes the gap. *)
LEMMA Removed ==
  ASSUME NEW S, NEW q \in Seq(S), NEW k \in DOMAIN q
  PROVE  /\ RemoveAt(q, k) \in Seq(S) /\ Len(RemoveAt(q, k)) = Len(q) - 1
         /\ \A j \in 1 .. Len(q) - 1 : RemoveAt(q, k)[j] = IF j < k THEN q[j] ELSE q[j + 1]
<1>1. k \in 1 .. Len(q) /\ Len(q) \in Nat
  OBVIOUS
<1>2. PICK a : a = SubSeq(q, 1, k - 1)
  OBVIOUS
<1>3. PICK b : b = SubSeq(q, k + 1, Len(q))
  OBVIOUS
<1>4. a \in Seq(S) /\ Len(a) = k - 1 /\ \A j \in 1 .. k - 1 : a[j] = q[j]
  BY <1>1, <1>2
<1>5. b \in Seq(S) /\ Len(b) = Len(q) - k /\ \A j \in 1 .. Len(q) - k : b[j] = q[k + j]
  BY <1>1, <1>3
<1>6. RemoveAt(q, k) = a \o b
  BY <1>2, <1>3 DEF RemoveAt
<1>7. QED BY <1>1, <1>4, <1>5, <1>6

(* What an answer, a request sent again and a reply are. *)
LEMMA Recoded ==
  ASSUME NEW p \in Packet, NEW x \in Code
  PROVE  /\ [p EXCEPT !.code = x] \in Packet
         /\ [p EXCEPT !.code = x].id = p.id /\ [p EXCEPT !.code = x].code = x
BY DEF Packet

(* Where a packet belongs, and what it is called. *)
LEMMA Fields ==
  ASSUME NEW p \in Packet
  PROVE  p.conn \in Conn /\ p.id \in Id /\ p.code \in Code
BY DEF Packet

(* The numbers in use and the packets handed over only grow. *)
LEMMA Grows == [Next]_vars => pushed \subseteq pushed' /\ received \subseteq received' /\ slots' = slots
BY DEF Next, vars, AssignMsgId, PushOutgoing, ReceivePacket, GiveUp, SenderStep, SenderLoop, SenderPop,
   SenderCheck, SenderRecord, SenderSend, ServerAnswers, ServerBusy, Answer, ServerPushes, ReaderStep,
   Read, ReaderFlag, ReaderMatch, DispatcherStep, DispatcherPop, DispatchToSlot, DispatchToStore

(* A packet entered in a connection's sent map. *)
LEMMA Entered ==
  ASSUME NEW S, NEW f \in [Conn -> SUBSET S], NEW c \in Conn, NEW p \in S
  PROVE  [f EXCEPT ![c] = @ \cup {p}] \in [Conn -> SUBSET S]
<1>1. f[c] \cup {p} \in SUBSET S
  OBVIOUS
<1>2. QED BY <1>1

(* A packet put on a connection's way back. *)
LEMMA WireAppend ==
  ASSUME NEW w \in [Conn -> Seq(Packet)], NEW c \in Conn, NEW p \in Packet
  PROVE  [w EXCEPT ![c] = Append(@, p)] \in [Conn -> Seq(Packet)]
<1>1. Append(w[c], p) \in Seq(Packet)
  OBVIOUS
<1>2. QED BY <1>1

(* Every step keeps the types. *)
LEMMA TypeStep == TypeOK /\ [Next]_vars => TypeOK'
<1> SUFFICES ASSUME TypeOK, [Next]_vars PROVE TypeOK'
  OBVIOUS
<1> USE NoneAssumption, BoundAssumption DEF TypeOK
<1>a. CASE UNCHANGED vars
  BY <1>a DEF vars
<1>1. ASSUME NEW a \in App, NEW c \in Conn, AssignMsgId(a, c) PROVE TypeOK'
  <2>1. PICK p : p = [conn |-> c, id |-> globalMessageID + 1, code |-> "request"]
    OBVIOUS
  <2>2. p \in Packet
    BY <1>1, <2>1 DEF AssignMsgId, Packet, Id, Code
  <2>3. apkt' = [apkt EXCEPT ![a] = p] /\ globalMessageID' \in 0 .. MaxMsg
    BY <1>1, <2>1 DEF AssignMsgId
  <2>4. QED BY <1>1, <2>2, <2>3 DEF AssignMsgId
<1>2. ASSUME NEW a \in App, PushOutgoing(a) PROVE TypeOK'
  BY <1>2 DEF PushOutgoing
<1>3. ASSUME NEW a \in App, ReceivePacket(a) PROVE TypeOK'
  BY <1>3 DEF ReceivePacket
<1>4. ASSUME NEW a \in App, GiveUp(a) PROVE TypeOK'
  BY <1>4 DEF GiveUp
<1>5. CASE SenderLoop \/ SenderCheck
  BY <1>5 DEF SenderLoop, SenderCheck
<1>6. CASE SenderPop
  BY <1>6 DEF SenderPop
<1>7. CASE SenderRecord
  <2>1. spkt \in Packet /\ spkt.conn \in Conn
    BY <1>7, Fields DEF SenderRecord
  <2>2. sent' = sent \/ sent' = [sent EXCEPT ![spkt.conn] = @ \cup {spkt}]
    BY <1>7 DEF SenderRecord
  <2>b. sent' \in [Conn -> SUBSET Packet]
    <3>1. sent \in [Conn -> SUBSET Packet]
      OBVIOUS
    <3> HIDE DEF TypeOK
    <3>2. QED BY <2>1, <2>2, <3>1, Entered
  <2>3. QED BY <1>7, <2>b DEF SenderRecord
<1>8. CASE SenderSend
  BY <1>8 DEF SenderSend
<1>9. ASSUME NEW k \in DOMAIN atServer, NEW x \in {"result", "busy"}, Answer(k, x),
             busies' \in 0 .. MaxBusy
      PROVE  TypeOK'
  <2>1. PICK r \in Packet : r = atServer[k]
    OBVIOUS
  <2>2. PICK p \in Packet : p = [r EXCEPT !.code = x]
    BY Recoded DEF Code
  <2>3. wire' = [wire EXCEPT ![r.conn] = Append(@, p)] /\ atServer' = RemoveAt(atServer, k)
    BY <1>9, <2>1, <2>2 DEF Answer
  <2>4. wire' \in [Conn -> Seq(Packet)] /\ atServer' \in Seq(Packet)
    BY <2>3, Removed, Fields, WireAppend
  <2>5. QED BY <1>9, <2>4 DEF Answer
<1>10. ASSUME NEW c \in Conn, NEW i \in Id, ServerPushes(c, i) PROVE TypeOK'
  <2>1. PICK p : p = [conn |-> c, id |-> i, code |-> "push"]
    OBVIOUS
  <2>2. p \in Packet
    BY <2>1 DEF Packet, Code
  <2>3. wire' = [wire EXCEPT ![c] = Append(@, p)]
    BY <1>10, <2>1 DEF ServerPushes
  <2>4. wire' \in [Conn -> Seq(Packet)] /\ pushed' \subseteq Conn \X Id
    BY <1>10, <2>2, <2>3, WireAppend DEF ServerPushes
  <2>5. QED BY <1>10, <2>4 DEF ServerPushes
<1>11. ASSUME NEW c \in Conn, Read(c) PROVE TypeOK'
  <2>1. Head(wire[c]) \in Packet /\ Tail(wire[c]) \in Seq(Packet)
    BY <1>11 DEF Read
  <2>2. wire' \in [Conn -> Seq(Packet)]
    BY <1>11, <2>1 DEF Read
  <2>3. CASE useBusy
    BY <1>11, <2>1, <2>2, <2>3, ZenonT(60) DEF Read
  <2>4. CASE ~useBusy
    <3>1. PICK p \in Packet : p = Head(wire[c])
      BY <2>1
    <3>2. incoming' = Append(incoming, p) /\ rpc' = rpc /\ rpkt' = rpkt
      BY <1>11, <2>4, <3>1 DEF Read
    <3>3. incoming' \in Seq(Packet)
      BY <3>2
    <3>4. QED BY <1>11, <2>2, <3>2, <3>3 DEF Read
  <2>5. QED BY <2>3, <2>4
<1>12. ASSUME NEW c \in Conn, ReaderFlag(c) PROVE TypeOK'
  BY <1>12 DEF ReaderFlag
<1>13. ASSUME NEW c \in Conn, ReaderMatch(c) PROVE TypeOK'
  <2>1. rpkt[c] \in Packet
    BY <1>13 DEF ReaderMatch
  <2>2. PICK q \in Packet : q = rpkt[c]
    BY <2>1
  <2>3. PICK p \in Packet :
          /\ outgoing' = outgoing \/ outgoing' = Append(outgoing, p)
          /\ incoming' = incoming \/ incoming' = Append(incoming, q)
          /\ sent' = sent \/ sent' = [sent EXCEPT ![c] = @ \ {p}]
    BY <1>13, <2>2 DEF ReaderMatch
  <2>4. outgoing' \in Seq(Packet) /\ incoming' \in Seq(Packet)
    <3>1. Append(outgoing, p) \in Seq(Packet) /\ Append(incoming, q) \in Seq(Packet)
      BY AppendProperties
    <3>2. QED BY <2>3, <3>1
  <2>5. sent' \in [Conn -> SUBSET Packet]
    <3>1. sent[c] \ {p} \in SUBSET Packet
      OBVIOUS
    <3>2. QED BY <2>3, <3>1
  <2>6. QED BY <1>13, <2>4, <2>5 DEF ReaderMatch
<1>14. ASSUME NEW d \in Dispatcher, DispatcherPop(d) PROVE TypeOK'
  BY <1>14 DEF DispatcherPop
<1>15. ASSUME NEW d \in Dispatcher, DispatchToSlot(d) PROVE TypeOK'
  <2>1. dpkt[d] \in Packet
    BY <1>15 DEF DispatchToSlot
  <2>2. PICK p \in Packet : p = [dpkt[d] EXCEPT !.code = "reply"]
    BY <2>1, Recoded DEF Code
  <2>3. outgoing' = outgoing \/ outgoing' = Append(outgoing, p)
    BY <1>15, <2>2 DEF DispatchToSlot
  <2>4. outgoing' \in Seq(Packet)
    <3>1. Append(outgoing, p) \in Seq(Packet)
      BY AppendProperties
    <3>2. QED BY <2>3, <3>1
  <2>5. QED BY <1>15, <2>4 DEF DispatchToSlot
<1>16. ASSUME NEW d \in Dispatcher, DispatchToStore(d) PROVE TypeOK'
  BY <1>16 DEF DispatchToStore
<1>17. ASSUME NEW k \in DOMAIN atServer, ServerAnswers(k) \/ ServerBusy(k) PROVE TypeOK'
  BY <1>9, <1>17 DEF ServerAnswers, ServerBusy
<1>18. QED
  BY <1>a, <1>1, <1>2, <1>3, <1>4, <1>5, <1>6, <1>7, <1>8, <1>10, <1>11, <1>12, <1>13, <1>14,
     <1>15, <1>16, <1>17
     DEF Next, SenderStep, ReaderStep, DispatcherStep

-----------------------------------------------------------------------------
(* At most one. *)
Lone(S) == \A x, y \in S : x = y

(* T is as empty as S, and single if S is. *)
Like(S, T) == (S = {} <=> T = {}) /\ (Lone(S) => Lone(T))

(* A packet at the end of a queue. *)
LEMMA AtAppend ==
  ASSUME NEW q \in Seq(Packet), NEW p \in Packet, NEW i
  PROVE  At(Append(q, p), i) = IF Num(p) = i THEN At(q, i) \cup {Len(q) + 1} ELSE At(q, i)
BY DEF At

(* Taking the first packet of a queue leaves the others. *)
LEMMA AtTail ==
  ASSUME NEW q \in Seq(Packet), q # << >>, NEW i
  PROVE  /\ Num(Head(q)) # i => Like(At(q, i), At(Tail(q), i))
         /\ Num(Head(q)) = i => At(q, i) # {} /\ (Lone(At(q, i)) => At(Tail(q), i) = {})
<1>1. /\ Tail(q) \in Seq(Packet) /\ Len(Tail(q)) = Len(q) - 1 /\ Len(q) \in Nat \ {0}
      /\ Head(q) = q[1] /\ \A k \in 1 .. Len(q) - 1 : Tail(q)[k] = q[k + 1]
  BY HeadTailProperties
<1>2. \A k \in 1 .. Len(q) - 1 : k \in At(Tail(q), i) <=> k + 1 \in At(q, i)
  BY <1>1 DEF At
<1>3. At(Tail(q), i) \subseteq 1 .. Len(q) - 1 /\ At(q, i) \subseteq 1 .. Len(q)
  BY <1>1 DEF At
<1>4. ASSUME Lone(At(q, i)) PROVE Lone(At(Tail(q), i))
  <2> SUFFICES ASSUME NEW k \in At(Tail(q), i), NEW m \in At(Tail(q), i) PROVE k = m
    BY DEF Lone
  <2>1. k + 1 \in At(q, i) /\ m + 1 \in At(q, i) /\ k \in Int /\ m \in Int
    BY <1>2, <1>3
  <2>2. k + 1 = m + 1
    BY <1>4, <2>1 DEF Lone
  <2>3. QED BY <2>1, <2>2
<1>5. ASSUME Num(Head(q)) # i PROVE Like(At(q, i), At(Tail(q), i))
  <2>1. 1 \notin At(q, i)
    BY <1>1, <1>5 DEF At
  <2>2. ASSUME NEW k \in At(q, i) PROVE At(Tail(q), i) # {}
    <3>1. k \in 2 .. Len(q)
      BY <1>3, <2>1, <2>2
    <3>2. k - 1 \in 1 .. Len(q) - 1 /\ (k - 1) + 1 = k
      BY <1>1, <3>1
    <3>3. QED BY <1>2, <3>2, <2>2
  <2>3. QED BY <1>2, <1>3, <1>4, <2>2 DEF Like
<1>6. ASSUME Num(Head(q)) = i PROVE 1 \in At(q, i) /\ (Lone(At(q, i)) => At(Tail(q), i) = {})
  <2>1. 1 \in At(q, i)
    BY <1>1, <1>6 DEF At
  <2>2. ASSUME Lone(At(q, i)), NEW k \in At(Tail(q), i) PROVE FALSE
    <3>1. k \in 1 .. Len(q) - 1 /\ k + 1 \in At(q, i)
      BY <1>2, <1>3
    <3>2. k + 1 = 1
      BY <2>1, <2>2, <3>1 DEF Lone
    <3>3. QED BY <1>1, <3>1, <3>2
  <2>3. QED BY <2>1, <2>2
<1>7. QED BY <1>5, <1>6

(* And so does taking another one. *)
LEMMA AtRemoved ==
  ASSUME NEW q \in Seq(Packet), NEW n \in DOMAIN q, NEW i
  PROVE  /\ Num(q[n]) # i => Like(At(q, i), At(RemoveAt(q, n), i))
         /\ Num(q[n]) = i => At(q, i) # {} /\ (Lone(At(q, i)) => At(RemoveAt(q, n), i) = {})
<1>1. PICK r : r = RemoveAt(q, n)
  OBVIOUS
<1>2. /\ r \in Seq(Packet) /\ Len(r) = Len(q) - 1 /\ Len(q) \in Nat /\ n \in 1 .. Len(q)
      /\ \A k \in 1 .. Len(q) - 1 : r[k] = IF k < n THEN q[k] ELSE q[k + 1]
  BY <1>1, Removed
<1>3. At(r, i) \subseteq 1 .. Len(q) - 1 /\ At(q, i) \subseteq 1 .. Len(q)
  BY <1>2 DEF At
<1>4. \A k \in 1 .. Len(q) - 1 : k \in At(r, i) <=> (IF k < n THEN k ELSE k + 1) \in At(q, i)
  BY <1>2 DEF At
<1>5. ASSUME Lone(At(q, i)) PROVE Lone(At(r, i))
  <2> SUFFICES ASSUME NEW k \in At(r, i), NEW m \in At(r, i) PROVE k = m
    BY DEF Lone
  <2>1. k \in 1 .. Len(q) - 1 /\ m \in 1 .. Len(q) - 1
    BY <1>3
  <2>2. (IF k < n THEN k ELSE k + 1) = (IF m < n THEN m ELSE m + 1)
    BY <1>4, <1>5, <2>1 DEF Lone
  <2>3. QED BY <1>2, <2>1, <2>2
<1>6. ASSUME Num(q[n]) # i PROVE Like(At(q, i), At(r, i))
  <2>1. n \notin At(q, i)
    BY <1>2, <1>6 DEF At
  <2>2. ASSUME NEW k \in At(q, i) PROVE At(r, i) # {}
    <3>1. k \in 1 .. Len(q) /\ k # n
      BY <1>3, <2>1, <2>2
    <3>2. CASE k < n
      <4>1. k \in 1 .. Len(q) - 1
        BY <1>2, <3>1, <3>2
      <4>2. QED BY <1>4, <2>2, <3>2, <4>1
    <3>3. CASE k > n
      <4>1. k - 1 \in 1 .. Len(q) - 1 /\ ~(k - 1 < n) /\ (k - 1) + 1 = k
        BY <1>2, <3>1, <3>3
      <4>2. QED BY <1>4, <2>2, <4>1
    <3>4. QED BY <1>2, <3>1, <3>2, <3>3
  <2>3. QED BY <1>3, <1>4, <1>5, <2>2 DEF Like
<1>7. ASSUME Num(q[n]) = i PROVE n \in At(q, i) /\ (Lone(At(q, i)) => At(r, i) = {})
  <2>1. n \in At(q, i)
    BY <1>2, <1>7 DEF At
  <2>2. ASSUME Lone(At(q, i)), NEW k \in At(r, i) PROVE FALSE
    <3>1. k \in 1 .. Len(q) - 1
      BY <1>3
    <3>2. (IF k < n THEN k ELSE k + 1) = n
      BY <1>4, <2>1, <2>2, <3>1 DEF Lone
    <3>3. QED BY <1>2, <3>1, <3>2
  <2>3. QED BY <2>1, <2>2
<1>8. QED BY <1>1, <1>6, <1>7

-----------------------------------------------------------------------------
(* Where a packet can be, as Places names it; "wire" are the ways back. *)
Stage == {"outgoing", "incoming", "server", "wire", "app", "sender", "reader", "dispatcher",
          "stored"}

OnWire(w, i) == {ck \in Conn \X Nat : ck[2] \in At(w[ck[1]], i)}
Pushing(pc, f, i) == {a \in App : pc[a] = "push" /\ Has(f[a], i)}
Holding(S, f, i) == {x \in S : Has(f[x], i)}
Kept(R, i) == {r \in R : Has(r, i)}

(* The places of message i, stage by stage. *)
Where(i) ==
  [s \in Stage |->
     CASE s = "outgoing" -> At(outgoing, i)
       [] s = "incoming" -> At(incoming, i)
       [] s = "server" -> At(atServer, i)
       [] s = "wire" -> OnWire(wire, i)
       [] s = "app" -> Pushing(apc, apkt, i)
       [] s = "sender" -> Kept({spkt}, i)
       [] s = "reader" -> Holding(Conn, rpkt, i)
       [] s = "dispatcher" -> Holding(Dispatcher, dpkt, i)
       [] s = "stored" -> Kept(responses \cup received, i)]

(* At one stage at most, and once there; at none. *)
Single(P) ==
  /\ \A s \in Stage : Lone(P[s])
  /\ \A s, t \in Stage : P[s] # {} /\ P[t] # {} => s = t
Nowhere(P) == \A s \in Stage : P[s] = {}

(* A number not yet assigned is nowhere; an assigned one can be missing only
   when the busy protocol is in use. *)
MsgInv ==
  \A i \in Id : Clean(i) => /\ Single(Where(i))
                            /\ i > globalMessageID => Nowhere(Where(i))
                            /\ i <= globalMessageID /\ ~useBusy => ~Nowhere(Where(i))

(* What this side queues are requests and replies, the server holds requests,
   and what comes back is on its own connection; U are the numbers the peers
   have used for packets of their own. *)
Own == {p \in Packet : p.code \in {"request", "reply"}}
Asked == {p \in Packet : p.code = "request"}
Foreign(U) == {p \in Packet : /\ p.code \in {"result", "busy", "push"}
                              /\ p.code = "push" => <<p.conn, p.id>> \in U}
Back(U, c) == {p \in Foreign(U) : p.conn = c}
CodeInv ==
  /\ apkt \in [App -> Asked \cup {None}] /\ outgoing \in Seq(Own) /\ spkt \in Own \cup {None}
  /\ sent \in [Conn -> SUBSET Own] /\ atServer \in Seq(Asked)
  /\ \A c \in Conn : wire[c] \in Seq(Back(pushed, c)) /\ rpkt[c] \in Back(pushed, c) \cup {None}
  /\ incoming \in Seq(Foreign(pushed)) /\ dpkt \in [Dispatcher -> Foreign(pushed) \cup {None}]
  /\ responses \subseteq Foreign(pushed)

(* A reply under a request's number comes after the request's answer, unless
   it is one to a push of that number; R are the packets handed over. *)
Settled(U, R) ==
  {p \in Packet : p.code = "reply" /\ (\A c \in Conn : <<c, p.id>> \notin U)
                    => \E r \in R : Num(r) = p.id}
ReplyInv ==
  /\ outgoing \in Seq(Settled(pushed, received))
  /\ spkt \in Settled(pushed, received) \cup {None}
  /\ sent \in [Conn -> SUBSET Settled(pushed, received)]

(* The steps that only the busy protocol takes. *)
ModeInv ==
  ~useBusy => spc \notin {"check", "record"} /\ \A c \in Conn : rpc[c] = "idle"

(* With the busy protocol every request between the sender's write and the
   read callback is in the sent map of its connection. *)
Recorded(p, S) ==
  Num(p) # 0 /\ Clean(p.id) => \E e \in S[p.conn] : e.id = p.id /\ e.code = "request"
SentInv ==
  useBusy =>
    /\ spc = "send" => Recorded(spkt, sent)
    /\ \A k \in DOMAIN atServer : Recorded(atServer[k], sent)
    /\ \A c \in Conn : rpkt[c] # None => Recorded(rpkt[c], sent)
    /\ \A c \in Conn : \A k \in DOMAIN wire[c] : Recorded(wire[c][k], sent)

(* What the pipeline carries, from step to step. *)
LEMMA CodeStep ==
  ASSUME TypeOK, CodeInv, Next
  PROVE  CodeInv'
<1> USE NoneAssumption
<1>0. /\ Own \subseteq Packet /\ Asked \subseteq Packet /\ Foreign(pushed) \subseteq Packet
      /\ \A c \in Conn : Back(pushed, c) \subseteq Foreign(pushed)
  BY DEF Own, Asked, Foreign, Back
<1>1. ASSUME NEW a \in App, NEW c \in Conn, AssignMsgId(a, c) PROVE CodeInv'
  <2>1. PICK p : p = [conn |-> c, id |-> globalMessageID + 1, code |-> "request"]
    OBVIOUS
  <2>2. p \in Asked
    BY <1>1, <2>1, BoundAssumption DEF AssignMsgId, TypeOK, Packet, Id, Code, Asked
  <2>3. apkt' = [apkt EXCEPT ![a] = p]
    BY <1>1, <2>1 DEF AssignMsgId
  <2>4. QED BY <1>1, <2>2, <2>3 DEF AssignMsgId, CodeInv
<1>2. ASSUME NEW a \in App, PushOutgoing(a) PROVE CodeInv'
  <2>1. apkt[a] \in Own
    BY <1>2 DEF PushOutgoing, CodeInv, TypeOK, Own, Asked
  <2>2. outgoing' \in Seq(Own)
    BY <1>2, <2>1 DEF PushOutgoing, CodeInv
  <2>3. QED BY <1>2, <2>2 DEF PushOutgoing, CodeInv
<1>3. ASSUME NEW a \in App, ReceivePacket(a) \/ GiveUp(a) PROVE CodeInv'
  BY <1>3 DEF ReceivePacket, GiveUp, CodeInv
<1>4. CASE SenderLoop \/ SenderCheck
  BY <1>4 DEF SenderLoop, SenderCheck, CodeInv
<1>5. CASE SenderPop
  BY <1>5 DEF SenderPop, CodeInv
<1>a. CASE SenderRecord
  <2>1. PICK p \in Own : p = spkt
    BY <1>a, NoneAssumption DEF SenderRecord, TypeOK, CodeInv
  <2>2. sent' = sent \/ sent' = [sent EXCEPT ![p.conn] = @ \cup {p}]
    BY <1>a, <2>1 DEF SenderRecord
  <2>3. sent' \in [Conn -> SUBSET Own]
    <3>1. p.conn \in Conn
      BY Fields DEF Own
    <3>2. sent \in [Conn -> SUBSET Own]
      BY DEF CodeInv
    <3>3. QED BY <2>2, <3>1, <3>2, Entered
  <2>4. QED BY <1>a, <2>3 DEF SenderRecord, CodeInv
<1>b. CASE SenderSend
  <2>1. PICK p \in Own : p = spkt
    BY <1>b, NoneAssumption DEF SenderSend, TypeOK, CodeInv
  <2>2. atServer' = IF p.code = "request" THEN Append(atServer, p) ELSE atServer
    BY <1>b, <2>1 DEF SenderSend
  <2>3. p.code = "request" => p \in Asked
    BY DEF Own, Asked
  <2>4. atServer' \in Seq(Asked)
    BY <2>2, <2>3 DEF CodeInv
  <2>5. QED BY <1>b, <2>4 DEF SenderSend, CodeInv
<1>6. ASSUME NEW c \in Conn, NEW p \in Back(pushed', c), wire' = [wire EXCEPT ![c] = Append(@, p)],
             pushed \subseteq pushed', atServer' \in Seq(Asked),
             UNCHANGED <<apkt, outgoing, spkt, sent, rpkt, incoming, dpkt, responses>>
      PROVE  CodeInv'
  <2>1. Foreign(pushed) \subseteq Foreign(pushed') /\ \A e \in Conn : Back(pushed, e) \subseteq Back(pushed', e)
    BY <1>6 DEF Foreign, Back
  <2>2. \A e \in Conn : wire[e] \in Seq(Back(pushed', e))
    BY <2>1 DEF CodeInv
  <2>3. Append(wire[c], p) \in Seq(Back(pushed', c))
    BY <1>6, <2>2
  <2>4. \A e \in Conn : wire'[e] \in Seq(Back(pushed', e))
    BY <1>6, <2>2, <2>3 DEF TypeOK
  <2>5. incoming \in Seq(Foreign(pushed'))
    BY <2>1 DEF CodeInv
  <2>6. QED BY <1>6, <2>1, <2>4, <2>5 DEF CodeInv
<1>7. ASSUME NEW k \in DOMAIN atServer, ServerAnswers(k) \/ ServerBusy(k) PROVE CodeInv'
  <2>1. PICK r \in Packet : r = atServer[k]
    BY DEF TypeOK
  <2>2. PICK x \in {"result", "busy"} : Answer(k, x)
    BY <1>7 DEF ServerAnswers, ServerBusy
  <2>3. PICK p : p = [r EXCEPT !.code = x]
    OBVIOUS
  <2>4. p \in Back(pushed, r.conn) /\ r.conn \in Conn
    BY <2>3 DEF Back, Foreign, Packet, Code
  <2>5. wire' = [wire EXCEPT ![r.conn] = Append(@, p)] /\ atServer' = RemoveAt(atServer, k)
    BY <2>1, <2>2, <2>3 DEF Answer
  <2>6. atServer' \in Seq(Asked)
    <3>1. atServer \in Seq(Asked)
      BY DEF CodeInv
    <3>2. QED BY <2>5, <3>1, Removed
  <2>7. pushed' = pushed /\ UNCHANGED <<apkt, outgoing, spkt, sent, rpkt, incoming, dpkt, responses>>
    BY <2>2 DEF Answer
  <2>8. QED BY <1>6, <2>4, <2>5, <2>6, <2>7
<1>8. ASSUME NEW c \in Conn, NEW i \in Id, ServerPushes(c, i) PROVE CodeInv'
  <2>1. PICK p : p = [conn |-> c, id |-> i, code |-> "push"]
    OBVIOUS
  <2>2. p \in Back(pushed', c) /\ pushed \subseteq pushed'
    BY <1>8, <2>1 DEF ServerPushes, Back, Foreign, Packet, Code
  <2>3. wire' = [wire EXCEPT ![c] = Append(@, p)]
    BY <1>8, <2>1 DEF ServerPushes
  <2>4. QED BY <1>6, <1>8, <2>2, <2>3 DEF ServerPushes, CodeInv
<1>9. ASSUME NEW c \in Conn, Read(c) PROVE CodeInv'
  <2>1. PICK p \in Back(pushed, c) : p = Head(wire[c])
    BY <1>9 DEF Read, CodeInv
  <2>2. Tail(wire[c]) \in Seq(Back(pushed, c))
    BY <1>9 DEF Read, CodeInv
  <2>3. \A e \in Conn : wire'[e] \in Seq(Back(pushed, e))
    BY <1>9, <2>2 DEF Read, CodeInv, TypeOK
  <2>4. Append(incoming, p) \in Seq(Foreign(pushed))
    BY <1>0 DEF CodeInv
  <2>5. incoming' \in Seq(Foreign(pushed))
    BY <1>9, <2>1, <2>4 DEF Read, CodeInv
  <2>6. \A e \in Conn : rpkt'[e] \in Back(pushed, e) \cup {None}
    BY <1>9, <2>1 DEF Read, CodeInv, TypeOK
  <2>7. QED BY <1>9, <2>3, <2>5, <2>6 DEF Read, CodeInv
<1>10. ASSUME NEW c \in Conn, ReaderFlag(c) PROVE CodeInv'
  BY <1>10 DEF ReaderFlag, CodeInv
<1>11. ASSUME NEW c \in Conn, ReaderMatch(c) PROVE CodeInv'
  <2>1. PICK q \in Back(pushed, c) : q = rpkt[c]
    BY <1>11 DEF ReaderMatch, CodeInv, TypeOK
  <2>2. /\ outgoing' = outgoing \/ \E p \in sent[c] : outgoing' = Append(outgoing, p)
        /\ incoming' = incoming \/ incoming' = Append(incoming, q)
        /\ sent' = sent \/ \E p \in sent[c] : sent' = [sent EXCEPT ![c] = @ \ {p}]
    BY <1>11, <2>1 DEF ReaderMatch
  <2>3. outgoing' \in Seq(Own)
    <3>1. \A p \in Own : Append(outgoing, p) \in Seq(Own)
      BY DEF CodeInv
    <3>2. sent[c] \subseteq Own
      BY DEF CodeInv
    <3>3. QED BY <2>2, <3>1, <3>2 DEF CodeInv
  <2>4. incoming' \in Seq(Foreign(pushed))
    <3>1. Append(incoming, q) \in Seq(Foreign(pushed))
      BY <1>0 DEF CodeInv
    <3>2. QED BY <2>2, <3>1 DEF CodeInv
  <2>5. sent' \in [Conn -> SUBSET Own]
    BY <2>2 DEF CodeInv
  <2>6. \A e \in Conn : rpkt'[e] \in Back(pushed, e) \cup {None}
    BY <1>11 DEF ReaderMatch, CodeInv, TypeOK
  <2>7. QED BY <1>11, <2>3, <2>4, <2>5, <2>6 DEF ReaderMatch, CodeInv
<1>12. ASSUME NEW d \in Dispatcher, DispatcherPop(d) PROVE CodeInv'
  BY <1>12 DEF DispatcherPop, CodeInv
<1>13. ASSUME NEW d \in Dispatcher, DispatchToSlot(d) PROVE CodeInv'
  <2>1. PICK q \in Foreign(pushed) : q = dpkt[d]
    BY <1>13 DEF DispatchToSlot, CodeInv
  <2>2. PICK p : p = [q EXCEPT !.code = "reply"]
    OBVIOUS
  <2>3. p \in Own
    BY <2>2 DEF Own, Foreign, Packet, Code
  <2>4. Append(outgoing, p) \in Seq(Own)
    BY <2>3 DEF CodeInv
  <2>5. outgoing' = outgoing \/ outgoing' = Append(outgoing, p)
    BY <1>13, <2>1, <2>2 DEF DispatchToSlot
  <2>6. QED BY <1>13, <2>4, <2>5 DEF DispatchToSlot, CodeInv
<1>14. ASSUME NEW d \in Dispatcher, DispatchToStore(d) PROVE CodeInv'
  <2>1. dpkt[d] \in Foreign(pushed)
    BY <1>14 DEF DispatchToStore, CodeInv
  <2>2. QED BY <1>14, <2>1 DEF DispatchToStore, CodeInv
<1>q. QED
  BY <1>1, <1>2, <1>3, <1>4, <1>5, <1>a, <1>b, <1>7, <1>8, <1>9, <1>10, <1>11, <1>12, <1>13, <1>14
     DEF Next, SenderStep, ReaderStep, DispatcherStep

(* A handler's reply to an answer comes when the answer has been handed over. *)
LEMMA ReplyStep ==
  ASSUME TypeOK, CodeInv, ReplyInv, Next
  PROVE  ReplyInv'
<1> USE NoneAssumption
<1>1. PICK F : F = Settled(pushed, received)'
  OBVIOUS
<1>2. Settled(pushed, received) \subseteq F
  BY <1>1, Grows DEF Settled
<1>3. outgoing \in Seq(F) /\ spkt \in F \cup {None} /\ sent \in [Conn -> SUBSET F]
  BY <1>2 DEF ReplyInv
<1>4. ASSUME outgoing' \in Seq(F), spkt' \in F \cup {None}, sent' \in [Conn -> SUBSET F]
      PROVE  ReplyInv'
  BY <1>1, <1>4 DEF ReplyInv
<1>a. ASSUME NEW a \in App, NEW c \in Conn, AssignMsgId(a, c) PROVE ReplyInv'
  BY <1>3, <1>4, <1>a DEF AssignMsgId
<1>5. ASSUME NEW a \in App, ReceivePacket(a) \/ GiveUp(a) PROVE ReplyInv'
  BY <1>3, <1>4, <1>5 DEF ReceivePacket, GiveUp
<1>6. ASSUME NEW a \in App, PushOutgoing(a) PROVE ReplyInv'
  <2>1. apkt[a] \in Packet /\ apkt[a].code = "request"
    BY <1>6 DEF PushOutgoing, TypeOK, CodeInv, Asked
  <2>2. apkt[a] \in F
    BY <1>1, <2>1 DEF Settled
  <2>3. QED BY <1>3, <1>4, <1>6, <2>2 DEF PushOutgoing
<1>7. CASE SenderLoop \/ SenderCheck \/ SenderSend
  BY <1>3, <1>4, <1>7 DEF SenderLoop, SenderCheck, SenderSend
<1>8. CASE SenderPop
  <2>1. Head(outgoing) \in F /\ Tail(outgoing) \in Seq(F)
    BY <1>3, <1>8 DEF SenderPop
  <2>2. QED BY <1>3, <1>4, <1>8, <2>1 DEF SenderPop
<1>9. CASE SenderRecord
  <2>1. spkt \in F /\ spkt.conn \in Conn
    BY <1>3, <1>9, Fields DEF SenderRecord, TypeOK
  <2>2. sent' = sent \/ sent' = [sent EXCEPT ![spkt.conn] = @ \cup {spkt}]
    BY <1>9 DEF SenderRecord
  <2>3. sent' \in [Conn -> SUBSET F]
    BY <1>3, <2>1, <2>2
  <2>4. QED BY <1>3, <1>4, <1>9, <2>3 DEF SenderRecord
<1>10. ASSUME NEW k \in DOMAIN atServer, ServerAnswers(k) \/ ServerBusy(k) PROVE ReplyInv'
  BY <1>3, <1>4, <1>10 DEF ServerAnswers, ServerBusy, Answer
<1>11. ASSUME NEW c \in Conn, NEW i \in Id, ServerPushes(c, i) PROVE ReplyInv'
  BY <1>3, <1>4, <1>11 DEF ServerPushes
<1>12. ASSUME NEW c \in Conn, Read(c) \/ ReaderFlag(c) PROVE ReplyInv'
  BY <1>3, <1>4, <1>12 DEF Read, ReaderFlag
<1>13. ASSUME NEW c \in Conn, ReaderMatch(c) PROVE ReplyInv'
  <2>1. /\ outgoing' = outgoing \/ \E p \in sent[c] : outgoing' = Append(outgoing, p)
        /\ sent' = sent \/ \E p : sent' = [sent EXCEPT ![c] = @ \ {p}]
        /\ spkt' = spkt
    BY <1>13 DEF ReaderMatch
  <2>2. outgoing' \in Seq(F)
    BY <1>3, <2>1
  <2>3. sent' \in [Conn -> SUBSET F]
    BY <1>3, <2>1
  <2>4. QED BY <1>3, <1>4, <2>1, <2>2, <2>3
<1>14. ASSUME NEW d \in Dispatcher, DispatcherPop(d) \/ DispatchToStore(d) PROVE ReplyInv'
  BY <1>3, <1>4, <1>14 DEF DispatcherPop, DispatchToStore
<1>15. ASSUME NEW d \in Dispatcher, DispatchToSlot(d) PROVE ReplyInv'
  <2>1. PICK q \in Foreign(pushed) : q = dpkt[d]
    BY <1>15 DEF DispatchToSlot, CodeInv
  <2>2. PICK p : p = [q EXCEPT !.code = "reply"]
    OBVIOUS
  <2>3. p \in Packet /\ p.id = q.id /\ p.conn = q.conn /\ q.conn \in Conn
    BY <2>2 DEF Foreign, Packet, Code
  <2>4. /\ q \in received' /\ pushed' = pushed /\ UNCHANGED <<spkt, sent>>
        /\ outgoing' = outgoing \/ outgoing' = Append(outgoing, p)
    BY <1>15, <2>1, <2>2 DEF DispatchToSlot
  <2>5. (q.code = "push" /\ <<q.conn, q.id>> \in pushed') \/ Num(q) = q.id
    BY <2>4 DEF Foreign, Num
  <2>6. p \in F
    BY <1>1, <2>3, <2>4, <2>5 DEF Settled
  <2>7. Append(outgoing, p) \in Seq(F)
    BY <1>3, <2>6
  <2>8. outgoing' \in Seq(F) /\ spkt' \in F \cup {None} /\ sent' \in [Conn -> SUBSET F]
    BY <1>3, <2>4, <2>7
  <2>9. QED BY <1>4, <2>8
<1>q. QED
  BY <1>a, <1>5, <1>6, <1>7, <1>8, <1>9, <1>10, <1>11, <1>12, <1>13, <1>14, <1>15
     DEF Next, SenderStep, ReaderStep, DispatcherStep

(* Without the busy protocol the sender never looks twice and the read
   callback keeps nothing. *)
LEMMA ModeStep ==
  ASSUME TypeOK, ModeInv, Next
  PROVE  ModeInv' /\ useBusy' = useBusy
<1>1. ASSUME NEW a \in App, NEW c \in Conn,
             AssignMsgId(a, c) \/ PushOutgoing(a) \/ ReceivePacket(a) \/ GiveUp(a)
      PROVE  ModeInv' /\ useBusy' = useBusy
  BY <1>1 DEF AssignMsgId, PushOutgoing, ReceivePacket, GiveUp, ModeInv
<1>2. CASE SenderStep
  BY <1>2 DEF SenderStep, SenderLoop, SenderPop, SenderCheck, SenderRecord, SenderSend, ModeInv
<1>3. ASSUME NEW c \in Conn, NEW i \in Id, ServerPushes(c, i)
      PROVE  ModeInv' /\ useBusy' = useBusy
  BY <1>3 DEF ServerPushes, ModeInv
<1>b. ASSUME NEW c \in Conn, ReaderFlag(c) \/ ReaderMatch(c)
      PROVE  ModeInv' /\ useBusy' = useBusy
  BY <1>b DEF ReaderFlag, ReaderMatch, ModeInv, TypeOK
<1>4. ASSUME NEW c \in Conn, Read(c) PROVE ModeInv' /\ useBusy' = useBusy
  BY <1>4 DEF Read, ModeInv, TypeOK
<1>5. ASSUME NEW k \in DOMAIN atServer, ServerAnswers(k) \/ ServerBusy(k)
      PROVE  ModeInv' /\ useBusy' = useBusy
  BY <1>5 DEF ServerAnswers, ServerBusy, Answer, ModeInv
<1>6. ASSUME NEW d \in Dispatcher, DispatcherStep(d) PROVE ModeInv' /\ useBusy' = useBusy
  BY <1>6 DEF DispatcherStep, DispatcherPop, DispatchToSlot, DispatchToStore, ModeInv
<1>a. ASSUME NEW a \in App, PushOutgoing(a) \/ ReceivePacket(a) \/ GiveUp(a)
      PROVE  ModeInv' /\ useBusy' = useBusy
  BY <1>a DEF PushOutgoing, ReceivePacket, GiveUp, ModeInv
<1>q. QED BY <1>1, <1>a, <1>b, <1>2, <1>3, <1>4, <1>5, <1>6 DEF Next, ReaderStep

-----------------------------------------------------------------------------
(* The ways back, seen connection by connection. *)
LEMMA WireShape ==
  ASSUME NEW w \in [Conn -> Seq(Packet)], NEW i
  PROVE  /\ OnWire(w, i) = {} <=> \A c \in Conn : At(w[c], i) = {}
         /\ Lone(OnWire(w, i)) <=>
              /\ \A c \in Conn : Lone(At(w[c], i))
              /\ \A c, d \in Conn : At(w[c], i) # {} /\ At(w[d], i) # {} => c = d
<1>1. \A c \in Conn : At(w[c], i) \subseteq Nat
  BY DEF At
<1>2. \A c \in Conn, k \in Nat : <<c, k>> \in OnWire(w, i) <=> k \in At(w[c], i)
  BY DEF OnWire
<1>3. \A x \in OnWire(w, i) : \E c \in Conn, k \in Nat : x = <<c, k>> /\ k \in At(w[c], i)
  BY DEF OnWire
<1>4. OnWire(w, i) = {} <=> \A c \in Conn : At(w[c], i) = {}
  BY <1>1, <1>2, <1>3
<1>5. ASSUME Lone(OnWire(w, i)), NEW c \in Conn, NEW d \in Conn,
             NEW k \in At(w[c], i), NEW m \in At(w[d], i)
      PROVE  c = d /\ k = m
  BY <1>1, <1>2, <1>5 DEF Lone
<1>6. ASSUME \A c \in Conn : Lone(At(w[c], i)),
             \A c, d \in Conn : At(w[c], i) # {} /\ At(w[d], i) # {} => c = d,
             NEW x \in OnWire(w, i), NEW y \in OnWire(w, i)
      PROVE  x = y
  <2>1. PICK c \in Conn, k \in Nat : x = <<c, k>> /\ k \in At(w[c], i)
    BY <1>3
  <2>2. PICK d \in Conn, m \in Nat : y = <<d, m>> /\ m \in At(w[d], i)
    BY <1>3
  <2>3. c = d
    BY <1>6, <2>1, <2>2
  <2>4. k = m
    BY <1>6, <2>1, <2>2, <2>3 DEF Lone
  <2>5. QED BY <2>1, <2>2, <2>3, <2>4
<1>7. Lone(OnWire(w, i)) =>
        /\ \A c \in Conn : Lone(At(w[c], i))
        /\ \A c, d \in Conn : At(w[c], i) # {} /\ At(w[d], i) # {} => c = d
  BY <1>5 DEF Lone
<1>8. QED BY <1>4, <1>6, <1>7 DEF Lone

(* An answer is put on the way back, or read. *)
LEMMA WireGrows ==
  ASSUME NEW w \in [Conn -> Seq(Packet)], NEW c \in Conn, NEW p \in Packet, NEW i, NEW v,
         v = [w EXCEPT ![c] = Append(@, p)]
  PROVE  /\ Num(p) # i => Like(OnWire(w, i), OnWire(v, i))
         /\ Num(p) = i /\ OnWire(w, i) = {} => OnWire(v, i) # {} /\ Lone(OnWire(v, i))
<1>1. v \in [Conn -> Seq(Packet)]
  BY WireAppend
<1>2. /\ \A d \in Conn \ {c} : At(v[d], i) = At(w[d], i)
      /\ At(v[c], i) = IF Num(p) = i THEN At(w[c], i) \cup {Len(w[c]) + 1} ELSE At(w[c], i)
  BY AtAppend
<1>3. ASSUME Num(p) # i PROVE Like(OnWire(w, i), OnWire(v, i))
  <2>1. \A d \in Conn : At(v[d], i) = At(w[d], i)
    BY <1>2, <1>3
  <2>2. OnWire(v, i) = OnWire(w, i)
    BY <2>1 DEF OnWire
  <2>3. QED BY <2>2 DEF Like
<1>4. ASSUME Num(p) = i, OnWire(w, i) = {} PROVE OnWire(v, i) # {} /\ Lone(OnWire(v, i))
  <2>1. \A d \in Conn : At(w[d], i) = {}
    BY <1>4, WireShape
  <2>2. At(v[c], i) = {Len(w[c]) + 1} /\ \A d \in Conn \ {c} : At(v[d], i) = {}
    BY <1>2, <1>4, <2>1
  <2>3. /\ \A d \in Conn : Lone(At(v[d], i))
        /\ \A d, e \in Conn : At(v[d], i) # {} /\ At(v[e], i) # {} => d = e
    BY <2>2 DEF Lone
  <2>4. QED BY <1>1, <2>2, <2>3, WireShape
<1>5. QED BY <1>3, <1>4

LEMMA WireShrinks ==
  ASSUME NEW w \in [Conn -> Seq(Packet)], NEW c \in Conn, w[c] # << >>, NEW i, NEW v,
         v = [w EXCEPT ![c] = Tail(@)]
  PROVE  /\ Num(Head(w[c])) # i => Like(OnWire(w, i), OnWire(v, i))
         /\ Num(Head(w[c])) = i =>
              OnWire(w, i) # {} /\ (Lone(OnWire(w, i)) => OnWire(v, i) = {})
<1>0. w[c] \in Seq(Packet) /\ Tail(w[c]) \in Seq(Packet)
  OBVIOUS
<1>1. v \in [Conn -> Seq(Packet)]
  BY <1>0
<1>2. v[c] = Tail(w[c]) /\ \A d \in Conn \ {c} : v[d] = w[d]
  OBVIOUS
<1>3. ASSUME Num(Head(w[c])) # i PROVE Like(OnWire(w, i), OnWire(v, i))
  <2>1. \A d \in Conn : Like(At(w[d], i), At(v[d], i))
    <3>1. Like(At(w[c], i), At(v[c], i))
      BY <1>0, <1>2, <1>3, AtTail
    <3>2. QED BY <1>2, <3>1 DEF Like
  <2>2. OnWire(w, i) = {} <=> OnWire(v, i) = {}
    BY <1>1, <2>1, WireShape DEF Like
  <2>3. Lone(OnWire(w, i)) => Lone(OnWire(v, i))
    BY <1>1, <2>1, WireShape DEF Like
  <2>4. QED BY <2>2, <2>3 DEF Like
<1>4. ASSUME Num(Head(w[c])) = i
      PROVE  OnWire(w, i) # {} /\ (Lone(OnWire(w, i)) => OnWire(v, i) = {})
  <2>1. At(w[c], i) # {} /\ (Lone(At(w[c], i)) => At(v[c], i) = {})
    BY <1>0, <1>2, <1>4, AtTail
  <2>2. OnWire(w, i) # {}
    BY <2>1, WireShape
  <2>3. ASSUME Lone(OnWire(w, i)) PROVE \A d \in Conn : At(v[d], i) = {}
    <3>1. Lone(At(w[c], i)) /\ \A d \in Conn \ {c} : At(w[d], i) = {}
      BY <2>1, <2>3, WireShape
    <3>2. QED BY <1>2, <2>1, <3>1
  <2>4. QED BY <1>1, <2>2, <2>3, WireShape
<1>5. QED BY <1>3, <1>4

(* The request a packet belongs to, by its code. *)
LEMMA Numbers ==
  ASSUME NEW p \in Packet
  PROVE  /\ p.code \in {"request", "result", "busy"} => Num(p) = p.id
         /\ p.code \in {"push", "reply"} => Num(p) = 0
         /\ Num(p) # 0 => Num(p) = p.id /\ p.code \in {"request", "result", "busy"}
BY DEF Num

(* The packet the sender has in hand. *)
LEMMA KeptOne ==
  ASSUME NEW i
  PROVE  /\ Kept({None}, i) = {}
         /\ \A p \in Packet : Kept({p}, i) = IF Num(p) = i THEN {p} ELSE {}
BY NoneAssumption DEF Kept, Has

-----------------------------------------------------------------------------
(* Between a step's two states, P and Q, a message stays where it is, goes from
   one stage to another, or is dropped. *)
Still(P, Q) == \A s \in Stage : Like(P[s], Q[s])
Moves(P, Q, a, b) ==
  /\ a \in Stage /\ b \in Stage /\ a # b
  /\ P[a] # {} /\ Q[a] = {} /\ Q[b] # {} /\ Lone(Q[b])
  /\ \A s \in Stage \ {a, b} : Like(P[s], Q[s])
Drops(P, Q, a) ==
  /\ a \in Stage /\ P[a] # {} /\ Q[a] = {}
  /\ \A s \in Stage \ {a} : Like(P[s], Q[s])

(* None of the three makes a second copy, and only the last loses one. *)
LEMMA Carried ==
  ASSUME NEW P, NEW Q, Single(P), Still(P, Q) \/ \E a, b \in Stage : Moves(P, Q, a, b)
  PROVE  Single(Q) /\ (Nowhere(P) <=> Nowhere(Q))
<1>1. CASE Still(P, Q)
  BY <1>1 DEF Single, Still, Like, Nowhere
<1>2. ASSUME NEW a \in Stage, NEW b \in Stage, Moves(P, Q, a, b)
      PROVE  Single(Q) /\ ~Nowhere(P) /\ ~Nowhere(Q)
  <2>1. \A s \in Stage : s # a => P[s] = {}
    BY <1>2 DEF Single, Moves
  <2>2. \A s \in Stage : s # b => Q[s] = {}
    BY <1>2, <2>1 DEF Moves, Like
  <2>3. \A s \in Stage : Lone(Q[s])
    BY <1>2, <2>2 DEF Moves, Lone
  <2>4. QED BY <1>2, <2>2, <2>3 DEF Single, Moves, Nowhere
<1>3. QED BY <1>1, <1>2

LEMMA Dropped ==
  ASSUME NEW P, NEW Q, Single(P), NEW a \in Stage, Drops(P, Q, a)
  PROVE  Single(Q) /\ ~Nowhere(P)
<1>1. \A s \in Stage : Q[s] = {}
  BY DEF Single, Drops, Like
<1>2. QED BY <1>1 DEF Single, Drops, Nowhere, Lone

(* P says where message i is now. *)
Now(P, i) ==
  /\ P["outgoing"] = At(outgoing, i) /\ P["incoming"] = At(incoming, i)
  /\ P["server"] = At(atServer, i) /\ P["wire"] = OnWire(wire, i)
  /\ P["app"] = Pushing(apc, apkt, i) /\ P["sender"] = Kept({spkt}, i)
  /\ P["reader"] = Holding(Conn, rpkt, i) /\ P["dispatcher"] = Holding(Dispatcher, dpkt, i)
  /\ P["stored"] = Kept(responses \cup received, i)

LEMMA WhereIs ==
  ASSUME NEW i
  PROVE  Now(Where(i), i)
BY DEF Now, Where, Stage

LEMMA WhereThen ==
  ASSUME NEW i
  PROVE  \E Q : Q = Where(i)' /\ Now(Q, i)'
<1>1. PICK Q : Q = Where(i)'
  OBVIOUS
<1>2. Now(Q, i)'
  BY <1>1 DEF Now, Where, Stage
<1>3. QED BY <1>1, <1>2

(* Like is reflexive. *)
LEMMA LikeSame == \A S : Like(S, S)
BY DEF Like

(* The application's steps: only sendPacket's push moves a packet. *)
LEMMA AppMsg ==
  ASSUME TypeOK, NEW i \in Id, NEW a \in App, NEW P, NEW Q, Now(P, i), Now(Q, i)',
         Single(P), PushOutgoing(a) \/ ReceivePacket(a) \/ GiveUp(a)
  PROVE  Still(P, Q) \/ Moves(P, Q, "app", "outgoing")
<1>1. CASE PushOutgoing(a)
  <2>1. PICK p \in Packet : p = apkt[a]
    BY <1>1 DEF PushOutgoing, TypeOK
  <2>2. \A s \in Stage \ {"app", "outgoing"} : Q[s] = P[s]
    BY <1>1 DEF Now, PushOutgoing, Stage
  <2>3. Q["outgoing"] = IF Num(p) = i THEN P["outgoing"] \cup {Len(outgoing) + 1} ELSE P["outgoing"]
    BY <1>1, <2>1, AtAppend DEF Now, PushOutgoing, TypeOK
  <2>4. Q["app"] = P["app"] \ {a} /\ (Num(p) = i <=> a \in P["app"])
    <3>1. P["app"] = Pushing(apc, apkt, i) /\ Q["app"] = Pushing(apc', apkt, i)
      BY <1>1 DEF Now, PushOutgoing
    <3>2. QED BY <1>1, <2>1, <3>1, NoneAssumption DEF PushOutgoing, Pushing, Has, TypeOK
  <2>5. CASE Num(p) = i
    <3>1. Q["app"] = {} /\ P["app"] # {}
      BY <2>4, <2>5 DEF Single, Lone, Stage
    <3>2. P["outgoing"] = {}
      BY <3>1 DEF Single, Stage
    <3>3. Q["outgoing"] # {} /\ Lone(Q["outgoing"])
      BY <2>3, <2>5, <3>2 DEF Lone
    <3>4. QED BY <2>2, <3>1, <3>3, LikeSame DEF Moves, Stage
  <2>6. CASE Num(p) # i
    BY <2>2, <2>3, <2>4, <2>6, LikeSame DEF Still
  <2>7. QED BY <2>5, <2>6
<1>2. CASE ReceivePacket(a) \/ GiveUp(a)
  <2>1. responses' \cup received' = responses \cup received
    BY <1>2 DEF ReceivePacket, GiveUp
  <2>2. \A s \in Stage \ {"app"} : Q[s] = P[s]
    BY <1>2, <2>1 DEF Now, ReceivePacket, GiveUp, Stage
  <2>3. Pushing(apc', apkt', i) = Pushing(apc, apkt, i)
    BY <1>2 DEF ReceivePacket, GiveUp, Pushing, TypeOK
  <2>4. QED BY <2>2, <2>3, LikeSame DEF Still, Now
<1>3. QED BY <1>1, <1>2

(* A new number, and only that one, begins at its sender. *)
LEMMA AssignMsg ==
  ASSUME TypeOK, NEW i \in Id, NEW a \in App, NEW c \in Conn, NEW P, NEW Q, Now(P, i), Now(Q, i)',
         AssignMsgId(a, c)
  PROVE  /\ i # globalMessageID + 1 => Still(P, Q)
         /\ i = globalMessageID + 1 /\ Nowhere(P) => Single(Q) /\ ~Nowhere(Q)
<1>1. \A s \in Stage \ {"app"} : Q[s] = P[s]
  BY DEF AssignMsgId, Now, Stage
<1>2. PICK p : p = [conn |-> c, id |-> globalMessageID + 1, code |-> "request"]
  OBVIOUS
<1>3. p \in Packet /\ Num(p) = globalMessageID + 1
  <2>1. p \in Packet /\ p.id = globalMessageID + 1 /\ p.code = "request"
    BY <1>2, BoundAssumption DEF AssignMsgId, TypeOK, Packet, Id, Code
  <2>2. QED BY <2>1, Numbers
<1>4. apkt' = [apkt EXCEPT ![a] = p] /\ apc' = [apc EXCEPT ![a] = "push"] /\ apc[a] = "idle"
  BY <1>2 DEF AssignMsgId
<1>5. Q["app"] = IF Num(p) = i THEN P["app"] \cup {a} ELSE P["app"]
  BY <1>3, <1>4, NoneAssumption DEF Now, Pushing, Has, TypeOK
<1>6. ASSUME i # globalMessageID + 1 PROVE Still(P, Q)
  BY <1>1, <1>3, <1>5, <1>6, LikeSame DEF Still
<1>7. ASSUME i = globalMessageID + 1, Nowhere(P) PROVE Single(Q) /\ ~Nowhere(Q)
  <2>1. Q["app"] = {a} /\ \A s \in Stage \ {"app"} : Q[s] = {}
    BY <1>1, <1>3, <1>5, <1>7 DEF Nowhere, Stage
  <2>2. \A s \in Stage : Lone(Q[s])
    BY <2>1 DEF Lone
  <2>3. QED BY <2>1, <2>2 DEF Single, Nowhere, Stage
<1>8. QED BY <1>6, <1>7

(* dispatchSendMessage: out of the queue and to the server, or dropped by the
   second look at _isBusy. *)
LEMMA SenderMsg ==
  ASSUME TypeOK, CodeInv, ModeInv, NEW i \in Id, NEW P, NEW Q, Now(P, i), Now(Q, i)', Single(P),
         SenderStep
  PROVE  \/ Still(P, Q) \/ Moves(P, Q, "outgoing", "sender") \/ Moves(P, Q, "sender", "server")
         \/ useBusy /\ Drops(P, Q, "sender")
<1>0. i # 0
  BY IdFacts
<1>1. CASE SenderLoop \/ SenderRecord
  <2>1. \A s \in Stage : Q[s] = P[s]
    BY <1>1 DEF SenderLoop, SenderRecord, Now, Stage
  <2>2. QED BY <2>1, LikeSame DEF Still
<1>2. CASE SenderPop
  <2>1. \A s \in Stage \ {"outgoing", "sender"} : Q[s] = P[s]
    BY <1>2 DEF SenderPop, Now, Stage
  <2>2. PICK p \in Packet : p = Head(outgoing)
    BY <1>2 DEF SenderPop, TypeOK
  <2>3. P["sender"] = {} /\ Q["sender"] = IF Num(p) = i THEN {p} ELSE {}
    <3>1. spkt = None /\ spkt' = p
      BY <1>2, <2>2 DEF SenderPop, TypeOK
    <3>2. P["sender"] = Kept({None}, i) /\ Q["sender"] = Kept({p}, i)
      BY <3>1 DEF Now
    <3>3. QED BY <3>2, KeptOne
  <2>4. /\ Num(p) # i => Like(P["outgoing"], Q["outgoing"])
        /\ Num(p) = i => P["outgoing"] # {} /\ (Lone(P["outgoing"]) => Q["outgoing"] = {})
    <3>1. P["outgoing"] = At(outgoing, i) /\ Q["outgoing"] = At(Tail(outgoing), i)
      BY <1>2 DEF SenderPop, Now
    <3>2. outgoing \in Seq(Packet) /\ outgoing # << >>
      BY <1>2 DEF SenderPop, TypeOK
    <3>3. /\ Num(Head(outgoing)) # i => Like(At(outgoing, i), At(Tail(outgoing), i))
          /\ Num(Head(outgoing)) = i => /\ At(outgoing, i) # {}
                                        /\ Lone(At(outgoing, i)) => At(Tail(outgoing), i) = {}
      BY <3>2, AtTail
    <3>4. QED BY <2>2, <3>1, <3>3
  <2>5. CASE Num(p) = i
    <3>1. P["outgoing"] # {} /\ Q["outgoing"] = {}
      BY <2>4, <2>5 DEF Single, Stage
    <3>2. Q["sender"] # {} /\ Lone(Q["sender"])
      BY <2>3, <2>5 DEF Lone
    <3>3. QED BY <2>1, <3>1, <3>2, LikeSame DEF Moves, Stage
  <2>6. CASE Num(p) # i
    BY <2>1, <2>3, <2>4, <2>6, LikeSame DEF Still
  <2>7. QED BY <2>5, <2>6
<1>3. CASE SenderCheck
  <2>1. \A s \in Stage \ {"sender"} : Q[s] = P[s]
    BY <1>3 DEF SenderCheck, Now, Stage
  <2>2. useBusy
    BY <1>3 DEF SenderCheck, ModeInv
  <2>3. Q["sender"] = P["sender"] \/ Q["sender"] = {}
    BY <1>3, KeptOne DEF SenderCheck, Now
  <2>4. QED BY <2>1, <2>2, <2>3, LikeSame DEF Still, Drops, Stage
<1>4. CASE SenderSend
  <2>1. \A s \in Stage \ {"sender", "server"} : Q[s] = P[s]
    BY <1>4 DEF SenderSend, Now, Stage
  <2>2. PICK p \in Own : p = spkt
    BY <1>4, NoneAssumption DEF SenderSend, TypeOK, CodeInv
  <2>3. p \in Packet /\ (Num(p) = i => p.code = "request")
    BY <1>0, <2>2, Numbers DEF Own
  <2>4. Q["sender"] = {} /\ P["sender"] = IF Num(p) = i THEN {p} ELSE {}
    BY <1>4, <2>2, <2>3, KeptOne DEF SenderSend, Now
  <2>5. Q["server"] = IF Num(p) = i THEN P["server"] \cup {Len(atServer) + 1} ELSE P["server"]
    <3>1. P["server"] = At(atServer, i) /\ atServer \in Seq(Packet)
      BY DEF Now, TypeOK
    <3>2. Q["server"] = IF p.code = "request" THEN At(Append(atServer, p), i) ELSE P["server"]
      BY <1>4, <2>2 DEF SenderSend, Now
    <3>3. At(Append(atServer, p), i) =
            IF Num(p) = i THEN At(atServer, i) \cup {Len(atServer) + 1} ELSE At(atServer, i)
      BY <2>3, <3>1, AtAppend
    <3>4. QED BY <2>3, <3>1, <3>2, <3>3
  <2>6. CASE Num(p) = i
    <3>1. P["server"] = {}
      BY <2>4, <2>6 DEF Single, Stage
    <3>2. Q["server"] # {} /\ Lone(Q["server"])
      BY <2>5, <2>6, <3>1 DEF Lone
    <3>3. QED BY <2>1, <2>4, <2>6, <3>2, LikeSame DEF Moves, Stage
  <2>7. CASE Num(p) # i
    BY <2>1, <2>4, <2>5, <2>7, LikeSame DEF Still
  <2>8. QED BY <2>6, <2>7
<1>q. QED BY <1>1, <1>2, <1>3, <1>4 DEF SenderStep

(* The server answers a request, or pushes a packet of its own. *)
LEMMA ServerMsg ==
  ASSUME TypeOK, CodeInv, NEW i \in Id, NEW P, NEW Q, Now(P, i), Now(Q, i)', Single(P),
         \/ \E k \in DOMAIN atServer : ServerAnswers(k) \/ ServerBusy(k)
         \/ \E c \in Conn, j \in Id : ServerPushes(c, j)
  PROVE  Still(P, Q) \/ Moves(P, Q, "server", "wire")
<1>1. ASSUME NEW k \in DOMAIN atServer, ServerAnswers(k) \/ ServerBusy(k)
      PROVE  Still(P, Q) \/ Moves(P, Q, "server", "wire")
  <2>1. PICK r \in Packet : r = atServer[k] /\ r.code = "request"
    BY DEF CodeInv, Asked
  <2>2. PICK x \in {"result", "busy"} : Answer(k, x)
    BY <1>1 DEF ServerAnswers, ServerBusy
  <2>3. PICK p : p = [r EXCEPT !.code = x]
    OBVIOUS
  <2>4. p \in Packet /\ Num(p) = Num(r) /\ r.conn \in Conn
    <3>1. x \in Code
      BY DEF Code
    <3>2. p \in Packet /\ p.id = r.id /\ p.code = x /\ r.conn \in Conn
      BY <2>1, <2>3, <3>1, Recoded, Fields
    <3>3. Num(p) = p.id /\ Num(r) = r.id
      BY <2>1, <3>2, Numbers
    <3>4. QED BY <3>2, <3>3
  <2>5. wire' = [wire EXCEPT ![r.conn] = Append(@, p)] /\ atServer' = RemoveAt(atServer, k)
    BY <2>1, <2>2, <2>3 DEF Answer
  <2>6. \A s \in Stage \ {"server", "wire"} : Q[s] = P[s]
    BY <2>2 DEF Answer, Now, Stage
  <2>7. /\ Num(p) # i => Like(P["wire"], Q["wire"])
        /\ Num(p) = i /\ P["wire"] = {} => Q["wire"] # {} /\ Lone(Q["wire"])
    <3>1. P["wire"] = OnWire(wire, i) /\ Q["wire"] = OnWire(wire', i)
      BY DEF Now
    <3>2. wire \in [Conn -> Seq(Packet)]
      BY DEF TypeOK
    <3>3. QED BY <2>4, <2>5, <3>1, <3>2, WireGrows, ZenonT(30)
  <2>8. /\ Num(r) # i => Like(P["server"], Q["server"])
        /\ Num(r) = i => P["server"] # {} /\ (Lone(P["server"]) => Q["server"] = {})
    <3>1. P["server"] = At(atServer, i) /\ Q["server"] = At(RemoveAt(atServer, k), i)
      BY <2>5 DEF Now
    <3>2. atServer \in Seq(Packet)
      BY DEF TypeOK
    <3>3. /\ Num(r) # i => Like(At(atServer, i), At(RemoveAt(atServer, k), i))
          /\ Num(r) = i => /\ At(atServer, i) # {}
                           /\ Lone(At(atServer, i)) => At(RemoveAt(atServer, k), i) = {}
      BY <2>1, <3>2, AtRemoved, Zenon
    <3>4. QED BY <3>1, <3>3
  <2>9. CASE Num(r) = i
    <3>1. P["server"] # {} /\ Q["server"] = {} /\ P["wire"] = {}
      BY <2>8, <2>9 DEF Single, Stage
    <3>2. QED BY <2>4, <2>6, <2>7, <2>9, <3>1, LikeSame DEF Moves, Stage
  <2>10. CASE Num(r) # i
    BY <2>4, <2>6, <2>7, <2>8, <2>10, LikeSame DEF Still
  <2>q. QED BY <2>9, <2>10
<1>2. ASSUME NEW c \in Conn, NEW j \in Id, ServerPushes(c, j) PROVE Still(P, Q)
  <2>1. PICK p : p = [conn |-> c, id |-> j, code |-> "push"]
    OBVIOUS
  <2>2. p \in Packet /\ Num(p) # i
    BY <2>1, IdFacts, Numbers DEF Packet, Code
  <2>3. wire' = [wire EXCEPT ![c] = Append(@, p)]
    BY <1>2, <2>1 DEF ServerPushes
  <2>4. Like(P["wire"], Q["wire"])
    <3>1. P["wire"] = OnWire(wire, i) /\ Q["wire"] = OnWire(wire', i)
      BY DEF Now
    <3>2. wire \in [Conn -> Seq(Packet)]
      BY DEF TypeOK
    <3>3. QED BY <2>2, <2>3, <3>1, <3>2, WireGrows
  <2>5. \A s \in Stage \ {"wire"} : Q[s] = P[s]
    BY <1>2 DEF ServerPushes, Now, Stage
  <2>6. QED BY <2>4, <2>5, LikeSame DEF Still
<1>q. QED BY <1>1, <1>2

(* queuePacketFromDataBuffer: into the incoming queue, or, with the busy
   protocol, by way of the sent map into one of the queues or nowhere. *)
LEMMA ReaderMsg ==
  ASSUME TypeOK, CodeInv, ReplyInv, ModeInv, NEW i \in Id, Clean(i), NEW P, NEW Q, Now(P, i),
         Now(Q, i)', Single(P), NEW c \in Conn, ReaderStep(c)
  PROVE  \/ Still(P, Q)
         \/ useBusy /\ Drops(P, Q, "reader")
         \/ \E a, b \in {"wire", "reader", "incoming", "outgoing"} : Moves(P, Q, a, b)
<1>1. CASE Read(c)
  <2>0. wire \in [Conn -> Seq(Packet)] /\ wire[c] # << >> /\ wire' = [wire EXCEPT ![c] = Tail(@)]
    BY <1>1 DEF Read, TypeOK
  <2>1. PICK p \in Packet : p = Head(wire[c])
    BY <2>0
  <2>2. /\ Num(p) # i => Like(P["wire"], Q["wire"])
        /\ Num(p) = i => P["wire"] # {} /\ (Lone(P["wire"]) => Q["wire"] = {})
    <3>1. P["wire"] = OnWire(wire, i) /\ Q["wire"] = OnWire(wire', i)
      BY DEF Now
    <3>2. /\ Num(Head(wire[c])) # i => Like(OnWire(wire, i), OnWire(wire', i))
          /\ Num(Head(wire[c])) = i =>
               OnWire(wire, i) # {} /\ (Lone(OnWire(wire, i)) => OnWire(wire', i) = {})
      BY <2>0, WireShrinks
    <3>3. QED BY <2>1, <3>1, <3>2
  <2>3. \A b \in Stage \ {"wire"} : Num(p) = i => P["wire"] # {} /\ Q["wire"] = {} /\ P[b] = {}
    BY <2>2 DEF Single, Stage
  <2>4. CASE useBusy
    <3>1. \A s \in Stage \ {"wire", "reader"} : Q[s] = P[s]
      BY <1>1, <2>4 DEF Read, Now, Stage
    <3>2. rpkt' = [rpkt EXCEPT ![c] = p] /\ rpkt[c] = None
      BY <1>1, <2>1, <2>4 DEF Read, TypeOK
    <3>3. P["reader"] = Holding(Conn, rpkt, i) /\ Q["reader"] = Holding(Conn, rpkt', i)
      BY DEF Now
    <3>4. Q["reader"] = IF Num(p) = i THEN P["reader"] \cup {c} ELSE P["reader"]
      <4>1. rpkt \in [Conn -> Packet \cup {None}]
        BY DEF TypeOK
      <4>2. Holding(Conn, rpkt', i) =
              IF Num(p) = i THEN Holding(Conn, rpkt, i) \cup {c} ELSE Holding(Conn, rpkt, i)
        BY <3>2, <4>1, NoneAssumption DEF Holding, Has
      <4>3. QED BY <3>3, <4>2
    <3>5. CASE Num(p) = i
      <4>1. Q["reader"] = {c}
        BY <2>3, <3>4, <3>5 DEF Stage
      <4>2. Q["reader"] # {} /\ Lone(Q["reader"])
        BY <4>1 DEF Lone
      <4>3. Moves(P, Q, "wire", "reader")
        BY <2>3, <3>1, <3>5, <4>2, LikeSame DEF Moves, Stage
      <4>4. QED BY <4>3
    <3>6. CASE Num(p) # i
      <4>1. Still(P, Q)
        BY <2>2, <3>1, <3>4, <3>6, LikeSame DEF Still
      <4>2. QED BY <4>1
    <3>7. QED BY <3>5, <3>6
  <2>5. CASE ~useBusy
    <3>1. \A s \in Stage \ {"wire", "incoming"} : Q[s] = P[s]
      BY <1>1, <2>5 DEF Read, Now, Stage
    <3>2. P["incoming"] = At(incoming, i) /\ Q["incoming"] = At(Append(incoming, p), i)
      BY <1>1, <2>1, <2>5 DEF Read, Now
    <3>3. Q["incoming"] = IF Num(p) = i THEN P["incoming"] \cup {Len(incoming) + 1} ELSE P["incoming"]
      BY <3>2, AtAppend DEF TypeOK
    <3>4. CASE Num(p) = i
      <4>1. Q["incoming"] = {Len(incoming) + 1}
        BY <2>3, <3>3, <3>4 DEF Stage
      <4>2. Q["incoming"] # {} /\ Lone(Q["incoming"])
        BY <4>1 DEF Lone
      <4>3. Moves(P, Q, "wire", "incoming")
        BY <2>3, <3>1, <3>4, <4>2, LikeSame DEF Moves, Stage
      <4>4. QED BY <4>3
    <3>5. CASE Num(p) # i
      <4>1. Still(P, Q)
        BY <2>2, <3>1, <3>3, <3>5, LikeSame DEF Still
      <4>2. QED BY <4>1
    <3>6. QED BY <3>4, <3>5
  <2>6. QED BY <2>4, <2>5
<1>2. CASE ReaderFlag(c)
  <2>1. \A s \in Stage : Q[s] = P[s]
    BY <1>2 DEF ReaderFlag, Now, Stage
  <2>2. Still(P, Q)
    BY <2>1, LikeSame DEF Still
  <2>3. QED BY <2>2
<1>3. CASE ReaderMatch(c)
  <2>1. useBusy
    BY <1>3 DEF ReaderMatch, ModeInv
  <2>2. PICK q \in Packet : q = rpkt[c] /\ q \in Back(pushed, c)
    BY <1>3 DEF ReaderMatch, TypeOK, CodeInv
  <2>4. Q["reader"] = P["reader"] \ {c} /\ (Num(q) = i <=> c \in P["reader"])
    <3>1. P["reader"] = Holding(Conn, rpkt, i) /\ Q["reader"] = Holding(Conn, rpkt', i)
      BY DEF Now
    <3>2. rpkt' = [rpkt EXCEPT ![c] = None] /\ rpkt \in [Conn -> Packet \cup {None}]
      BY <1>3 DEF ReaderMatch, TypeOK
    <3>3. /\ Holding(Conn, rpkt', i) = Holding(Conn, rpkt, i) \ {c}
          /\ Num(rpkt[c]) = i <=> c \in Holding(Conn, rpkt, i)
      BY <2>2, <3>2, NoneAssumption DEF Holding, Has
    <3>4. QED BY <2>2, <3>1, <3>3
  <2>5. Num(q) = i => P["reader"] # {} /\ Q["reader"] = {}
    BY <2>4 DEF Single, Stage, Lone
  <2>a. ASSUME NEW p \in sent[c], p.id = q.id PROVE p \in Packet /\ (Num(p) = i <=> Num(q) = i)
    <3>1. p \in Own /\ p \in Packet /\ p \in Settled(pushed, received)
      BY DEF CodeInv, ReplyInv, Own
    <3>2. i # 0
      BY IdFacts
    <3>3. q.id = i => q.code # "push"
      BY <2>2 DEF Back, Foreign, Clean
    <3>4. q.id = i => Num(q) = i
      BY <2>2, <3>3, Numbers DEF Back, Foreign
    <3>5. ASSUME Num(q) = i, p.code = "reply" PROVE FALSE
      <4>1. PICK r \in received : Num(r) = i
        BY <2>a, <3>1, <3>2, <3>5, Numbers DEF Settled, Clean
      <4>2. r \in P["stored"]
        BY <4>1, NoneAssumption DEF Now, Kept, Has, TypeOK
      <4>3. QED BY <2>5, <3>5, <4>2 DEF Single, Stage
    <3>6. QED BY <2>a, <3>1, <3>2, <3>4, <3>5, Numbers DEF Own
  <2>6. \A b \in Stage \ {"reader"} : Num(q) = i => P[b] = {}
    BY <2>5 DEF Single, Stage
  <2>7. \A s \in Stage \ {"outgoing", "incoming", "reader"} : Q[s] = P[s]
    BY <1>3 DEF ReaderMatch, Now, Stage
  <2>3. PICK p \in Packet :
          /\ Num(p) = i <=> Num(q) = i
          /\ \/ outgoing' = outgoing /\ incoming' = incoming
             \/ outgoing' = Append(outgoing, p) /\ incoming' = incoming
             \/ outgoing' = outgoing /\ incoming' = Append(incoming, q)
    <3>1. CASE outgoing' = outgoing /\ incoming' = incoming
      BY <3>1
    <3>2. CASE outgoing' = outgoing /\ incoming' = Append(incoming, q)
      BY <3>2
    <3>3. ASSUME NEW p \in sent[c], p.id = q.id, outgoing' = Append(outgoing, p), incoming' = incoming
          PROVE  \E x \in Packet : /\ Num(x) = i <=> Num(q) = i
                                   /\ outgoing' = Append(outgoing, x) /\ incoming' = incoming
      BY <2>a, <3>3
    <3>4. \/ outgoing' = outgoing /\ incoming' = incoming
          \/ outgoing' = outgoing /\ incoming' = Append(incoming, q)
          \/ \E x \in sent[c] : x.id = q.id /\ outgoing' = Append(outgoing, x) /\ incoming' = incoming
      BY <1>3, <2>2 DEF ReaderMatch
    <3>5. QED BY <3>1, <3>2, <3>3, <3>4
  <2>8. \/ outgoing' = outgoing /\ incoming' = incoming
        \/ outgoing' = Append(outgoing, p) /\ incoming' = incoming
        \/ outgoing' = outgoing /\ incoming' = Append(incoming, q)
    BY <2>3
  <2>9. /\ At(Append(outgoing, p), i) =
             IF Num(q) = i THEN At(outgoing, i) \cup {Len(outgoing) + 1} ELSE At(outgoing, i)
        /\ At(Append(incoming, q), i) =
             IF Num(q) = i THEN At(incoming, i) \cup {Len(incoming) + 1} ELSE At(incoming, i)
    <3>1. outgoing \in Seq(Packet) /\ incoming \in Seq(Packet)
      BY DEF TypeOK
    <3>2. At(Append(outgoing, p), i) =
            IF Num(p) = i THEN At(outgoing, i) \cup {Len(outgoing) + 1} ELSE At(outgoing, i)
      BY <3>1, AtAppend
    <3>3. At(Append(incoming, q), i) =
            IF Num(q) = i THEN At(incoming, i) \cup {Len(incoming) + 1} ELSE At(incoming, i)
      BY <3>1, AtAppend
    <3>4. QED BY <2>3, <3>2, <3>3
  <2>10. /\ P["outgoing"] = At(outgoing, i) /\ Q["outgoing"] = At(outgoing', i)
         /\ P["incoming"] = At(incoming, i) /\ Q["incoming"] = At(incoming', i)
    BY DEF Now
  <2>11. CASE Num(q) # i
    <3>1. \A s \in Stage : Q[s] = P[s]
      BY <2>4, <2>7, <2>8, <2>9, <2>10, <2>11 DEF Stage
    <3>2. Still(P, Q)
      BY <3>1, LikeSame DEF Still
    <3>3. QED BY <3>2
  <2>12. CASE Num(q) = i /\ outgoing' = outgoing /\ incoming' = incoming
    BY <2>1, <2>5, <2>7, <2>10, <2>12, LikeSame DEF Drops, Stage
  <2>13. CASE Num(q) = i /\ outgoing' = Append(outgoing, p) /\ incoming' = incoming
    <3>1. Q["outgoing"] = {Len(outgoing) + 1}
      BY <2>6, <2>9, <2>10, <2>13 DEF Stage
    <3>2. Q["outgoing"] # {} /\ Lone(Q["outgoing"])
      BY <3>1 DEF Lone
    <3>3. Moves(P, Q, "reader", "outgoing")
      BY <2>5, <2>7, <2>10, <2>13, <3>2, LikeSame DEF Moves, Stage
    <3>4. QED BY <3>3
  <2>14. CASE Num(q) = i /\ outgoing' = outgoing /\ incoming' = Append(incoming, q)
    <3>1. Q["incoming"] = {Len(incoming) + 1}
      BY <2>6, <2>9, <2>10, <2>14 DEF Stage
    <3>2. Q["incoming"] # {} /\ Lone(Q["incoming"])
      BY <3>1 DEF Lone
    <3>3. Moves(P, Q, "reader", "incoming")
      BY <2>5, <2>7, <2>10, <2>14, <3>2, LikeSame DEF Moves, Stage
    <3>4. QED BY <3>3
  <2>q. QED BY <2>8, <2>11, <2>12, <2>13, <2>14
<1>q. QED BY <1>1, <1>2, <1>3 DEF ReaderStep

(* dispatchReceiveMessage: a numbered packet goes from the queue to the store. *)
LEMMA DispatcherMsg ==
  ASSUME TypeOK, CodeInv, NEW i \in Id, Clean(i), NEW P, NEW Q, Now(P, i), Now(Q, i)', Single(P),
         NEW d \in Dispatcher, DispatcherStep(d)
  PROVE  \/ Still(P, Q) \/ Moves(P, Q, "incoming", "dispatcher")
         \/ Moves(P, Q, "dispatcher", "stored")
<1>0. i # 0
  BY IdFacts
<1>1. P["dispatcher"] = Holding(Dispatcher, dpkt, i) /\ Q["dispatcher"] = Holding(Dispatcher, dpkt', i)
  BY DEF Now
<1>2. CASE DispatcherPop(d)
  <2>1. \A s \in Stage \ {"incoming", "dispatcher"} : Q[s] = P[s]
    BY <1>2 DEF DispatcherPop, Now, Stage
  <2>2. incoming \in Seq(Packet) /\ incoming # << >>
    BY <1>2 DEF DispatcherPop, TypeOK
  <2>3. PICK p \in Packet : p = Head(incoming)
    BY <2>2
  <2>4. /\ Num(p) # i => Like(P["incoming"], Q["incoming"])
        /\ Num(p) = i => P["incoming"] # {} /\ (Lone(P["incoming"]) => Q["incoming"] = {})
    <3>1. P["incoming"] = At(incoming, i) /\ Q["incoming"] = At(Tail(incoming), i)
      BY <1>2 DEF DispatcherPop, Now
    <3>2. /\ Num(Head(incoming)) # i => Like(At(incoming, i), At(Tail(incoming), i))
          /\ Num(Head(incoming)) = i =>
               At(incoming, i) # {} /\ (Lone(At(incoming, i)) => At(Tail(incoming), i) = {})
      BY <2>2, AtTail
    <3>3. QED BY <2>3, <3>1, <3>2
  <2>5. Q["dispatcher"] = IF Num(p) = i THEN P["dispatcher"] \cup {d} ELSE P["dispatcher"]
    <3>1. dpkt' = [dpkt EXCEPT ![d] = p] /\ dpkt[d] = None
      BY <1>2, <2>3 DEF DispatcherPop
    <3>2. dpkt \in [Dispatcher -> Packet \cup {None}]
      BY DEF TypeOK
    <3>3. Holding(Dispatcher, dpkt', i) =
            IF Num(p) = i THEN Holding(Dispatcher, dpkt, i) \cup {d}
            ELSE Holding(Dispatcher, dpkt, i)
      BY <3>1, <3>2, NoneAssumption DEF Holding, Has
    <3>4. QED BY <1>1, <3>3
  <2>6. CASE Num(p) = i
    <3>1. P["incoming"] # {} /\ Q["incoming"] = {} /\ P["dispatcher"] = {}
      BY <2>4, <2>6 DEF Single, Stage
    <3>2. Q["dispatcher"] # {} /\ Lone(Q["dispatcher"])
      BY <2>5, <2>6, <3>1 DEF Lone
    <3>3. QED BY <2>1, <3>1, <3>2, LikeSame DEF Moves, Stage
  <2>7. CASE Num(p) # i
    BY <2>1, <2>4, <2>5, <2>7, LikeSame DEF Still
  <2>8. QED BY <2>6, <2>7
<1>3. ASSUME DispatchToSlot(d) \/ DispatchToStore(d)
      PROVE  /\ dpkt[d] \in Foreign(pushed) /\ dpkt[d] \in Packet
             /\ Q["dispatcher"] = P["dispatcher"] \ {d}
             /\ Num(dpkt[d]) = i <=> d \in P["dispatcher"]
  <2>1. dpkt[d] \in Foreign(pushed) /\ dpkt' = [dpkt EXCEPT ![d] = None]
    BY <1>3 DEF DispatchToSlot, DispatchToStore, CodeInv
  <2>2. dpkt[d] \in Packet
    BY <2>1 DEF Foreign
  <2>3. dpkt \in [Dispatcher -> Packet \cup {None}]
    BY DEF TypeOK
  <2>4. /\ Holding(Dispatcher, dpkt', i) = Holding(Dispatcher, dpkt, i) \ {d}
        /\ Num(dpkt[d]) = i <=> d \in Holding(Dispatcher, dpkt, i)
    BY <2>1, <2>2, <2>3, NoneAssumption DEF Holding, Has
  <2>5. QED BY <1>1, <2>1, <2>2, <2>4
<1>4. CASE DispatchToSlot(d)
  <2>1. PICK q \in Packet : q = dpkt[d] /\ q # None
    BY <1>3, <1>4, NoneAssumption
  <2>2. PICK p \in Packet : p = [q EXCEPT !.code = "reply"] /\ Num(p) = 0
    <3>1. "reply" \in Code
      BY DEF Code
    <3>2. PICK r \in Packet : r = [q EXCEPT !.code = "reply"] /\ r.code = "reply"
      BY <3>1, Recoded
    <3>3. QED BY <3>2, Numbers
  <2>3. \A s \in Stage \ {"outgoing", "dispatcher", "stored"} : Q[s] = P[s]
    BY <1>4 DEF DispatchToSlot, Now, Stage
  <2>4. Q["outgoing"] = P["outgoing"]
    <3>0. outgoing \in Seq(Packet)
      BY DEF TypeOK
    <3>1. At(Append(outgoing, p), i) = At(outgoing, i)
      BY <1>0, <2>2, <3>0, AtAppend
    <3>2. outgoing' = outgoing \/ outgoing' = Append(outgoing, p)
      BY <1>4, <2>1, <2>2 DEF DispatchToSlot
    <3>3. QED BY <3>1, <3>2 DEF Now
  <2>5. Q["stored"] = IF Num(q) = i THEN P["stored"] \cup {q} ELSE P["stored"]
    <3>1. /\ P["stored"] = Kept(responses \cup received, i)
          /\ Q["stored"] = Kept(responses \cup (received \cup {q}), i)
      BY <1>4, <2>1 DEF DispatchToSlot, Now
    <3>2. QED BY <2>1, <3>1 DEF Kept, Has
  <2>6. CASE Num(q) = i
    <3>1. P["dispatcher"] # {} /\ Q["dispatcher"] = {}
      BY <1>3, <1>4, <2>1, <2>6 DEF Single, Lone, Stage
    <3>2. P["stored"] = {}
      BY <3>1 DEF Single, Stage
    <3>3. Q["stored"] # {} /\ Lone(Q["stored"])
      BY <2>5, <2>6, <3>2 DEF Lone
    <3>4. QED BY <2>3, <2>4, <3>1, <3>3, LikeSame DEF Moves, Stage
  <2>7. CASE Num(q) # i
    <3>1. Q["dispatcher"] = P["dispatcher"]
      BY <1>3, <1>4, <2>1, <2>7
    <3>2. QED BY <2>3, <2>4, <2>5, <2>7, <3>1, LikeSame DEF Still
  <2>8. QED BY <2>6, <2>7
<1>5. CASE DispatchToStore(d)
  <2>1. \A s \in Stage \ {"dispatcher", "stored"} : Q[s] = P[s]
    BY <1>5 DEF DispatchToStore, Now, Stage
  <2>2. PICK q \in Packet : q = dpkt[d] /\ q # None
    BY <1>3, <1>5, NoneAssumption
  <2>3. /\ P["stored"] = Kept(responses \cup received, i)
        /\ Q["stored"] = Kept(responses' \cup received, i)
    BY <1>5 DEF DispatchToStore, Now
  <2>4. CASE Num(q) = i
    <3>1. P["dispatcher"] # {} /\ Q["dispatcher"] = {}
      BY <1>3, <1>5, <2>2, <2>4 DEF Single, Lone, Stage
    <3>2. P["stored"] = {}
      BY <3>1 DEF Single, Stage
    <3>3. \A r \in responses : Num(r) # i
      BY <2>3, <3>2, NoneAssumption DEF Kept, Has, TypeOK
    <3>a. q.id = i
      BY <1>0, <2>2, <2>4, Numbers
    <3>b. \A r \in responses : r.id # i
      <4> SUFFICES ASSUME NEW r \in responses, r.id = i PROVE FALSE
        OBVIOUS
      <4>1. r \in Foreign(pushed) /\ r \in Packet
        BY DEF CodeInv, Foreign
      <4>2. r.code # "push"
        BY <4>1, Fields DEF Foreign, Clean
      <4>3. QED BY <3>3, <4>1, <4>2, Numbers DEF Foreign
    <3>4. responses' = responses \cup {q}
      BY <1>5, <2>2, <3>a, <3>b DEF DispatchToStore
    <3>5. Q["stored"] = {q}
      BY <2>2, <2>3, <2>4, <3>2, <3>4 DEF Kept, Has
    <3>6. Q["stored"] # {} /\ Lone(Q["stored"])
      BY <3>5 DEF Lone
    <3>7. QED BY <2>1, <3>1, <3>6, LikeSame DEF Moves, Stage
  <2>5. CASE Num(q) # i
    <3>1. Q["dispatcher"] = P["dispatcher"]
      BY <1>3, <1>5, <2>2, <2>5
    <3>2. responses' = responses \/ responses' = responses \cup {q}
      BY <1>5, <2>2 DEF DispatchToStore
    <3>3. Q["stored"] = P["stored"]
      BY <2>3, <2>5, <3>2 DEF Kept, Has
    <3>4. QED BY <2>1, <3>1, <3>3, LikeSame DEF Still
  <2>6. QED BY <2>4, <2>5
<1>q. QED BY <1>2, <1>4, <1>5 DEF DispatcherStep

(* Every step keeps a message in one place, and numbers begin only in
   sendPacket. *)
LEMMA MsgStep ==
  ASSUME TypeOK, CodeInv, ReplyInv, ModeInv, MsgInv, Next
  PROVE  MsgInv'
<1> SUFFICES ASSUME NEW i \in Id, Clean(i)'
             PROVE  /\ Single(Where(i)')
                    /\ i > globalMessageID' => Nowhere(Where(i)')
                    /\ i <= globalMessageID' /\ ~useBusy' => ~Nowhere(Where(i)')
  BY DEF MsgInv
<1>0. Clean(i)
  BY Grows DEF Clean
<1>1. PICK P : P = Where(i) /\ Now(P, i)
  BY WhereIs
<1>2. PICK Q : Q = Where(i)' /\ Now(Q, i)'
  BY WhereThen
<1>3. /\ Single(P)
      /\ i > globalMessageID => Nowhere(P)
      /\ i <= globalMessageID /\ ~useBusy => ~Nowhere(P)
  BY <1>0, <1>1 DEF MsgInv
<1>4. useBusy' = useBusy /\ i \in Nat /\ globalMessageID \in Nat
  BY ModeStep, IdFacts, BoundAssumption DEF TypeOK
<1>5. ASSUME NEW a \in App, NEW c \in Conn, AssignMsgId(a, c)
      PROVE  /\ Single(Q)
             /\ i > globalMessageID' => Nowhere(Q)
             /\ i <= globalMessageID' /\ ~useBusy' => ~Nowhere(Q)
  <2>1. globalMessageID' = globalMessageID + 1
    BY <1>5 DEF AssignMsgId
  <2>2. CASE i = globalMessageID + 1
    <3>1. Nowhere(P)
      BY <1>3, <1>4, <2>2
    <3>2. Single(Q) /\ ~Nowhere(Q)
      BY <1>1, <1>2, <1>5, <2>2, <3>1, AssignMsg
    <3>3. QED BY <1>4, <2>1, <2>2, <3>2
  <2>3. CASE i # globalMessageID + 1
    <3>1. Still(P, Q)
      BY <1>1, <1>2, <1>5, <2>3, AssignMsg
    <3>2. Single(Q) /\ (Nowhere(P) <=> Nowhere(Q))
      BY <1>3, <3>1, Carried
    <3>3. QED BY <1>3, <1>4, <2>1, <2>3, <3>2
  <2>4. QED BY <2>2, <2>3
<1>6. ASSUME globalMessageID' = globalMessageID,
             \/ Still(P, Q)
             \/ \E a, b \in Stage : Moves(P, Q, a, b)
             \/ useBusy /\ \E a \in Stage : Drops(P, Q, a)
      PROVE  /\ Single(Q)
             /\ i > globalMessageID' => Nowhere(Q)
             /\ i <= globalMessageID' /\ ~useBusy' => ~Nowhere(Q)
  <2>1. CASE Still(P, Q) \/ \E a, b \in Stage : Moves(P, Q, a, b)
    <3>1. Single(Q) /\ (Nowhere(P) <=> Nowhere(Q))
      BY <1>3, <2>1, Carried
    <3>2. QED BY <1>3, <1>4, <1>6, <3>1
  <2>2. ASSUME useBusy, NEW a \in Stage, Drops(P, Q, a)
        PROVE  Single(Q) /\ ~Nowhere(P)
    BY <1>3, <2>2, Dropped
  <2>3. QED BY <1>3, <1>4, <1>6, <2>1, <2>2
<1>7. ASSUME NEW a \in App, PushOutgoing(a) \/ ReceivePacket(a) \/ GiveUp(a)
      PROVE  /\ globalMessageID' = globalMessageID
             /\ Still(P, Q) \/ \E x, y \in Stage : Moves(P, Q, x, y)
  <2>1. globalMessageID' = globalMessageID
    BY <1>7 DEF PushOutgoing, ReceivePacket, GiveUp
  <2>2. Still(P, Q) \/ Moves(P, Q, "app", "outgoing")
    BY <1>1, <1>2, <1>3, <1>7, AppMsg
  <2>3. QED BY <2>1, <2>2 DEF Stage
<1>8. ASSUME SenderStep
      PROVE  /\ globalMessageID' = globalMessageID
             /\ \/ Still(P, Q)
                \/ \E x, y \in Stage : Moves(P, Q, x, y)
                \/ useBusy /\ \E x \in Stage : Drops(P, Q, x)
  <2>1. globalMessageID' = globalMessageID
    BY <1>8 DEF SenderStep, SenderLoop, SenderPop, SenderCheck, SenderRecord, SenderSend
  <2>2. \/ Still(P, Q) \/ Moves(P, Q, "outgoing", "sender") \/ Moves(P, Q, "sender", "server")
        \/ useBusy /\ Drops(P, Q, "sender")
    BY <1>1, <1>2, <1>3, <1>8, SenderMsg
  <2>3. QED BY <2>1, <2>2 DEF Stage
<1>9. ASSUME \/ \E k \in DOMAIN atServer : ServerAnswers(k) \/ ServerBusy(k)
             \/ \E c \in Conn, j \in Id : ServerPushes(c, j)
      PROVE  /\ globalMessageID' = globalMessageID
             /\ Still(P, Q) \/ \E x, y \in Stage : Moves(P, Q, x, y)
  <2>1. globalMessageID' = globalMessageID
    BY <1>9 DEF ServerAnswers, ServerBusy, Answer, ServerPushes
  <2>2. Still(P, Q) \/ Moves(P, Q, "server", "wire")
    BY <1>1, <1>2, <1>3, <1>9, ServerMsg
  <2>3. QED BY <2>1, <2>2 DEF Stage
<1>10. ASSUME NEW c \in Conn, ReaderStep(c)
       PROVE  /\ globalMessageID' = globalMessageID
              /\ \/ Still(P, Q)
                 \/ \E x, y \in Stage : Moves(P, Q, x, y)
                 \/ useBusy /\ \E x \in Stage : Drops(P, Q, x)
  <2>1. globalMessageID' = globalMessageID
    BY <1>10 DEF ReaderStep, Read, ReaderFlag, ReaderMatch
  <2>2. \/ Still(P, Q)
        \/ useBusy /\ Drops(P, Q, "reader")
        \/ \E a, b \in {"wire", "reader", "incoming", "outgoing"} : Moves(P, Q, a, b)
    BY <1>0, <1>1, <1>2, <1>3, <1>10, ReaderMsg
  <2>3. QED BY <2>1, <2>2 DEF Stage
<1>11. ASSUME NEW d \in Dispatcher, DispatcherStep(d)
       PROVE  /\ globalMessageID' = globalMessageID
              /\ Still(P, Q) \/ \E x, y \in Stage : Moves(P, Q, x, y)
  <2>1. globalMessageID' = globalMessageID
    BY <1>11 DEF DispatcherStep, DispatcherPop, DispatchToSlot, DispatchToStore
  <2>2. \/ Still(P, Q) \/ Moves(P, Q, "incoming", "dispatcher")
        \/ Moves(P, Q, "dispatcher", "stored")
    BY <1>0, <1>1, <1>2, <1>3, <1>11, DispatcherMsg
  <2>3. QED BY <2>1, <2>2 DEF Stage
<1>12. \/ \E a \in App, c \in Conn : AssignMsgId(a, c)
       \/ \E a \in App : PushOutgoing(a) \/ ReceivePacket(a) \/ GiveUp(a)
       \/ SenderStep
       \/ \E k \in DOMAIN atServer : ServerAnswers(k) \/ ServerBusy(k)
       \/ \E c \in Conn, j \in Id : ServerPushes(c, j)
       \/ \E c \in Conn : ReaderStep(c)
       \/ \E d \in Dispatcher : DispatcherStep(d)
  BY DEF Next
<1>13. /\ Single(Q)
       /\ i > globalMessageID' => Nowhere(Q)
       /\ i <= globalMessageID' /\ ~useBusy' => ~Nowhere(Q)
  BY <1>5, <1>6, <1>7, <1>8, <1>9, <1>10, <1>11, <1>12, Zenon
<1>q. QED BY <1>2, <1>13

-----------------------------------------------------------------------------
(* Between the sender and the read callback a request stays recorded: it is
   entered before it is written, and removed only with the answer in hand, when
   it is nowhere else. *)
LEMMA SentStep ==
  ASSUME TypeOK, CodeInv, ReplyInv, ModeInv, MsgInv, SentInv, Next
  PROVE  SentInv'
<1> SUFFICES ASSUME useBusy, useBusy' PROVE SentInv'
  BY ModeStep DEF SentInv
<1>0. /\ spc = "send" => Recorded(spkt, sent)
      /\ \A k \in DOMAIN atServer : Recorded(atServer[k], sent)
      /\ \A c \in Conn : rpkt[c] # None => Recorded(rpkt[c], sent)
      /\ \A c \in Conn : \A k \in DOMAIN wire[c] : Recorded(wire[c][k], sent)
  BY DEF SentInv
<1> DEFINE Goal == /\ spc' = "send" => Recorded(spkt', sent')
                   /\ \A k \in DOMAIN atServer' : Recorded(atServer'[k], sent')
                   /\ \A c \in Conn : rpkt'[c] # None => Recorded(rpkt'[c], sent')
                   /\ \A c \in Conn : \A k \in DOMAIN wire'[c] : Recorded(wire'[c][k], sent')
<1>1. ASSUME UNCHANGED <<sent, spkt, atServer, rpkt, wire>>, spc' = spc \/ spc' # "send" PROVE Goal
  BY <1>0, <1>1
<1>2. ASSUME NEW a \in App, PushOutgoing(a) \/ ReceivePacket(a) \/ GiveUp(a)
      PROVE  UNCHANGED <<sent, spc, spkt, atServer, rpkt, wire>>
  BY <1>2 DEF PushOutgoing, ReceivePacket, GiveUp
<1>3. ASSUME NEW a \in App, NEW c \in Conn, AssignMsgId(a, c)
      PROVE  UNCHANGED <<sent, spc, spkt, atServer, rpkt, wire>>
  BY <1>3 DEF AssignMsgId
<1>4. ASSUME NEW d \in Dispatcher, DispatcherStep(d)
      PROVE  UNCHANGED <<sent, spc, spkt, atServer, rpkt, wire>>
  BY <1>4 DEF DispatcherStep, DispatcherPop, DispatchToSlot, DispatchToStore
<1>5. ASSUME SenderLoop \/ SenderPop \/ SenderCheck PROVE Goal
  <2>1. UNCHANGED <<sent, atServer, rpkt, wire>> /\ spc' # "send"
    BY <1>5 DEF SenderLoop, SenderPop, SenderCheck
  <2>2. QED BY <1>0, <2>1
<1>6. ASSUME SenderRecord PROVE Goal
  <2>1. PICK p \in Packet : p = spkt /\ p \in Own /\ p # None
    BY <1>6, NoneAssumption DEF SenderRecord, TypeOK, CodeInv
  <2>2. p.conn \in Conn /\ sent \in [Conn -> SUBSET Packet]
    BY <2>1, Fields DEF TypeOK
  <2>3. \/ sent' = sent /\ \E e \in sent[p.conn] : e.id = p.id
        \/ sent' = [sent EXCEPT ![p.conn] = @ \cup {p}]
    BY <1>6, <2>1 DEF SenderRecord
  <2>4. \A c \in Conn : sent[c] \subseteq sent'[c]
    BY <2>2, <2>3
  <2>5. \A q \in Packet : Recorded(q, sent) => Recorded(q, sent')
    BY <2>4, Fields DEF Recorded
  <2>a. Recorded(p, sent')
    <3> SUFFICES ASSUME Num(p) # 0, Clean(p.id)
                 PROVE  \E e \in sent'[p.conn] : e.id = p.id /\ e.code = "request"
      BY DEF Recorded
    <3>1. p.code = "request" /\ Num(p) = p.id /\ p.id \in Id
      BY <2>1, Numbers, Fields DEF Own
    <3>2. CASE sent' = [sent EXCEPT ![p.conn] = @ \cup {p}]
      BY <2>2, <3>1, <3>2
    <3>3. ASSUME sent' = sent, NEW e \in sent[p.conn], e.id = p.id
          PROVE  e.code = "request"
      <4>1. e \in Own /\ e \in Settled(pushed, received)
        BY <2>2 DEF CodeInv, ReplyInv
      <4>2. ASSUME e.code = "reply" PROVE FALSE
        <5>1. PICK r \in received : Num(r) = p.id
          BY <3>3, <4>1, <4>2 DEF Settled, Clean
        <5>2. PICK P : P = Where(p.id) /\ Now(P, p.id)
          BY WhereIs
        <5>3. Single(P)
          BY <3>1, <5>2 DEF MsgInv
        <5>4. r \in P["stored"]
          BY <5>1, <5>2, NoneAssumption DEF Now, Kept, Has, TypeOK
        <5>5. p \in P["sender"]
          BY <2>1, <3>1, <5>2 DEF Now, Kept, Has
        <5>6. QED BY <5>3, <5>4, <5>5 DEF Single, Stage
      <4>3. QED BY <4>1, <4>2 DEF Own
    <3>4. QED BY <2>3, <3>2, <3>3
  <2>6. UNCHANGED <<spkt, atServer, rpkt, wire>>
    BY <1>6 DEF SenderRecord
  <2>7. \A k \in DOMAIN atServer : Recorded(atServer[k], sent')
    BY <1>0, <2>5 DEF TypeOK
  <2>8. \A c \in Conn : rpkt[c] # None => Recorded(rpkt[c], sent')
    BY <1>0, <2>5 DEF TypeOK
  <2>9. \A c \in Conn : \A k \in DOMAIN wire[c] : Recorded(wire[c][k], sent')
    BY <1>0, <2>5 DEF TypeOK
  <2>q. QED BY <2>1, <2>a, <2>6, <2>7, <2>8, <2>9
<1>7. ASSUME SenderSend PROVE Goal
  <2>1. PICK p \in Packet : p = spkt /\ Recorded(p, sent)
    BY <1>0, <1>7 DEF SenderSend, TypeOK
  <2>2. UNCHANGED <<sent, rpkt, wire>> /\ spc' = "loop"
    BY <1>7 DEF SenderSend
  <2>3. atServer' = atServer \/ atServer' = Append(atServer, p)
    BY <1>7, <2>1 DEF SenderSend
  <2>4. \A k \in DOMAIN Append(atServer, p) : Recorded(Append(atServer, p)[k], sent)
    BY <1>0, <2>1 DEF TypeOK
  <2>5. QED BY <1>0, <2>2, <2>3, <2>4
<1>8. ASSUME NEW c \in Conn, NEW p \in Packet, Recorded(p, sent), UNCHANGED <<sent, spc, spkt, rpkt>>,
             wire' = [wire EXCEPT ![c] = Append(@, p)],
             \A k \in DOMAIN atServer' : Recorded(atServer'[k], sent)
      PROVE  Goal
  <2>1. wire[c] \in Seq(Packet) /\ wire'[c] = Append(wire[c], p)
    BY <1>8 DEF TypeOK
  <2>2. \A k \in DOMAIN wire'[c] : Recorded(wire'[c][k], sent)
    BY <1>0, <1>8, <2>1
  <2>3. \A d \in Conn \ {c} : wire'[d] = wire[d]
    BY <1>8 DEF TypeOK
  <2>4. QED BY <1>0, <1>8, <2>2, <2>3
<1>9. ASSUME NEW k \in DOMAIN atServer, ServerAnswers(k) \/ ServerBusy(k) PROVE Goal
  <2>1. PICK r \in Packet : r = atServer[k] /\ Recorded(r, sent)
    BY <1>0 DEF TypeOK
  <2>2. PICK x \in {"result", "busy"} : Answer(k, x)
    BY <1>9 DEF ServerAnswers, ServerBusy
  <2>3. PICK p : p = [r EXCEPT !.code = x]
    OBVIOUS
  <2>4. p \in Packet /\ p.id = r.id /\ p.conn = r.conn /\ r.conn \in Conn
    BY <2>3 DEF Packet, Code
  <2>5. Recorded(p, sent)
    <3>1. r.code = "request" /\ Num(r) = r.id
      BY <2>1, Numbers DEF CodeInv, Asked
    <3>2. r.id # 0
      BY IdFacts, Fields
    <3>3. QED BY <2>1, <2>4, <3>1, <3>2 DEF Recorded
  <2>6. /\ wire' = [wire EXCEPT ![r.conn] = Append(@, p)] /\ atServer' = RemoveAt(atServer, k)
        /\ UNCHANGED <<sent, spc, spkt, rpkt>>
    BY <2>1, <2>2, <2>3 DEF Answer
  <2>7. atServer \in Seq(Packet)
    BY DEF TypeOK
  <2>8. \A j \in DOMAIN atServer' : \E m \in DOMAIN atServer : atServer'[j] = atServer[m]
    <3>1. PICK t : t = atServer'
      OBVIOUS
    <3>2. /\ t \in Seq(Packet) /\ Len(t) = Len(atServer) - 1
          /\ \A j \in 1 .. Len(atServer) - 1 : t[j] = IF j < k THEN atServer[j] ELSE atServer[j + 1]
      BY <2>6, <2>7, <3>1, Removed
    <3>3. \A j \in DOMAIN t : j \in DOMAIN atServer /\ j + 1 \in DOMAIN atServer
      BY <2>7, <3>2
    <3>4. QED BY <2>7, <3>1, <3>2, <3>3
  <2>9. \A j \in DOMAIN atServer' : Recorded(atServer'[j], sent)
    BY <1>0, <2>8
  <2>q. QED BY <1>8, <2>4, <2>5, <2>6, <2>9
<1>10. ASSUME NEW c \in Conn, NEW i \in Id, ServerPushes(c, i) PROVE Goal
  <2>1. PICK p : p = [conn |-> c, id |-> i, code |-> "push"]
    OBVIOUS
  <2>2. p \in Packet /\ Recorded(p, sent)
    BY <2>1 DEF Packet, Code, Recorded, Num
  <2>3. wire' = [wire EXCEPT ![c] = Append(@, p)] /\ UNCHANGED <<sent, spc, spkt, rpkt, atServer>>
    BY <1>10, <2>1 DEF ServerPushes
  <2>4. QED BY <1>0, <1>8, <2>2, <2>3
<1>11. ASSUME NEW c \in Conn, Read(c) PROVE Goal
  <2>1. /\ wire \in [Conn -> Seq(Packet)] /\ wire[c] # << >> /\ wire' = [wire EXCEPT ![c] = Tail(@)]
        /\ rpkt' = [rpkt EXCEPT ![c] = Head(wire[c])] /\ rpkt \in [Conn -> Packet \cup {None}]
        /\ UNCHANGED <<sent, spc, spkt, atServer>>
    BY <1>11 DEF Read, TypeOK
  <2>2. PICK q \in Seq(Packet) : q = wire[c]
    BY <2>1
  <2>3. /\ Head(q) = q[1] /\ 1 \in DOMAIN q
        /\ \A k \in DOMAIN Tail(q) : Tail(q)[k] = q[k + 1] /\ k + 1 \in DOMAIN q
    BY <2>1, <2>2
  <2>4. \A k \in DOMAIN q : Recorded(q[k], sent)
    BY <1>0, <2>2
  <2>5. Recorded(Head(q), sent) /\ \A k \in DOMAIN Tail(q) : Recorded(Tail(q)[k], sent)
    BY <2>3, <2>4
  <2>6. /\ wire'[c] = Tail(q) /\ \A d \in Conn \ {c} : wire'[d] = wire[d]
        /\ rpkt'[c] = Head(q) /\ \A d \in Conn \ {c} : rpkt'[d] = rpkt[d]
    BY <2>1, <2>2
  <2>7. QED BY <1>0, <2>1, <2>5, <2>6
<1>12. ASSUME NEW c \in Conn, ReaderFlag(c) PROVE Goal
  BY <1>0, <1>12 DEF ReaderFlag
<1>13. ASSUME NEW c \in Conn, ReaderMatch(c) PROVE Goal
  <2>1. PICK q \in Packet : q = rpkt[c] /\ q \in Back(pushed, c) /\ q # None
    BY <1>13, NoneAssumption DEF ReaderMatch, TypeOK, CodeInv
  <2>2. /\ sent \in [Conn -> SUBSET Packet] /\ rpkt \in [Conn -> Packet \cup {None}]
        /\ wire \in [Conn -> Seq(Packet)] /\ atServer \in Seq(Packet)
    BY DEF TypeOK
  <2>3. /\ sent' = sent \/ \E e \in sent[c] : e.id = q.id /\ sent' = [sent EXCEPT ![c] = @ \ {e}]
        /\ rpkt' = [rpkt EXCEPT ![c] = None] /\ UNCHANGED <<spc, spkt, atServer, wire>>
    BY <1>13, <2>1 DEF ReaderMatch
  <2>4. ASSUME NEW p \in Packet, Recorded(p, sent), p.id = q.id => ~Clean(p.id) \/ Num(p) = 0
        PROVE  Recorded(p, sent')
    <3> SUFFICES ASSUME Num(p) # 0, Clean(p.id)
                 PROVE  \E e \in sent'[p.conn] : e.id = p.id /\ e.code = "request"
      BY DEF Recorded
    <3>1. PICK e \in sent[p.conn] : e.id = p.id /\ e.code = "request"
      BY <2>4 DEF Recorded
    <3>2. e.id # q.id
      BY <2>4, <3>1
    <3>3. p.conn \in Conn
      BY Fields
    <3>4. e \in sent'[p.conn]
      BY <2>2, <2>3, <3>2, <3>3
    <3>5. QED BY <3>1, <3>4
  <2>6. ASSUME Clean(q.id)
        PROVE  /\ spc = "send" => Num(spkt) # q.id
               /\ \A k \in DOMAIN atServer : Num(atServer[k]) # q.id
               /\ \A d \in Conn : \A k \in DOMAIN wire[d] : Num(wire[d][k]) # q.id
               /\ \A d \in Conn \ {c} : rpkt[d] # None => Num(rpkt[d]) # q.id
    <3>0. q.id \in Id /\ Num(q) = q.id
      BY <2>1, <2>6, Numbers, Fields DEF Back, Foreign, Clean
    <3>1. PICK P : P = Where(q.id) /\ Now(P, q.id)
      BY WhereIs
    <3>2. Single(P)
      BY <2>6, <3>0, <3>1 DEF MsgInv
    <3>3. c \in P["reader"]
      BY <2>1, <3>0, <3>1 DEF Now, Holding, Has
    <3>4. P["sender"] = {} /\ P["server"] = {} /\ P["wire"] = {} /\ P["reader"] = {c}
      BY <3>2, <3>3 DEF Single, Stage, Lone
    <3>5. spc = "send" => Num(spkt) # q.id
      <4>1. Kept({spkt}, q.id) = {}
        BY <3>1, <3>4 DEF Now
      <4>2. spc = "send" => spkt # None
        BY NoneAssumption DEF TypeOK
      <4>3. QED BY <4>1, <4>2 DEF Kept, Has
    <3>6. \A k \in DOMAIN atServer : Num(atServer[k]) # q.id
      BY <3>1, <3>4 DEF Now, At
    <3>7. \A d \in Conn : \A k \in DOMAIN wire[d] : Num(wire[d][k]) # q.id
      <4>1. OnWire(wire, q.id) = {}
        BY <3>1, <3>4 DEF Now
      <4>2. \A d \in Conn : At(wire[d], q.id) = {}
        BY <2>2, <4>1, WireShape
      <4>3. QED BY <4>2 DEF At
    <3>8. \A d \in Conn \ {c} : rpkt[d] # None => Num(rpkt[d]) # q.id
      BY <3>1, <3>4 DEF Now, Holding, Has
    <3>9. QED BY <3>5, <3>6, <3>7, <3>8
  <2>7. \A p \in Packet : Recorded(p, sent) /\ (Clean(q.id) => Num(p) # q.id) => Recorded(p, sent')
    <3> SUFFICES ASSUME NEW p \in Packet, Recorded(p, sent), Clean(q.id) => Num(p) # q.id
                 PROVE  Recorded(p, sent')
      OBVIOUS
    <3>1. p.id = q.id => ~Clean(p.id) \/ Num(p) = 0
      BY Numbers
    <3>2. QED BY <2>4, <3>1
  <2>8. spc' = "send" => Recorded(spkt', sent')
    BY <1>0, <2>3, <2>6, <2>7 DEF TypeOK
  <2>9. \A k \in DOMAIN atServer' : Recorded(atServer'[k], sent')
    BY <1>0, <2>2, <2>3, <2>6, <2>7
  <2>10. \A d \in Conn : rpkt'[d] # None => Recorded(rpkt'[d], sent')
    BY <1>0, <2>2, <2>3, <2>6, <2>7
  <2>11. \A d \in Conn : \A k \in DOMAIN wire'[d] : Recorded(wire'[d][k], sent')
    <3>1. ASSUME NEW d \in Conn, NEW k \in DOMAIN wire[d]
          PROVE  wire[d][k] \in Packet /\ Recorded(wire[d][k], sent')
      BY <1>0, <2>2, <2>6, <2>7
    <3>2. QED BY <2>3, <3>1
  <2>12. QED BY <2>8, <2>9, <2>10, <2>11
<1>14. Goal
  <2>1. CASE \E a \in App, c \in Conn : AssignMsgId(a, c)
    BY <1>1, <1>3, <2>1
  <2>2. CASE \E a \in App : PushOutgoing(a) \/ ReceivePacket(a) \/ GiveUp(a)
    BY <1>1, <1>2, <2>2
  <2>3. CASE \E d \in Dispatcher : DispatcherStep(d)
    BY <1>1, <1>4, <2>3
  <2>4. CASE SenderStep
    BY <1>5, <1>6, <1>7, <2>4 DEF SenderStep
  <2>5. CASE \E k \in DOMAIN atServer : ServerAnswers(k) \/ ServerBusy(k)
    BY <1>9, <2>5
  <2>6. CASE \E c \in Conn : ReaderStep(c) \/ \E i \in Id : ServerPushes(c, i)
    BY <1>10, <1>11, <1>12, <1>13, <2>6 DEF ReaderStep
  <2>7. QED BY <2>1, <2>2, <2>3, <2>4, <2>5, <2>6 DEF Next
<1>15. \A p, S : Recorded(p, S) => (Num(p) # 0 /\ Clean(p.id)' =>
                    \E e \in S[p.conn] : e.id = p.id /\ e.code = "request")
  BY Grows DEF Recorded, Clean
<1>16. ASSUME Goal PROVE SentInv'
  <2>1. spc' = "send" => Recorded(spkt, sent)'
    BY <1>15, <1>16 DEF Recorded
  <2>2. \A k \in DOMAIN atServer' : Recorded(atServer[k], sent)'
    BY <1>15, <1>16 DEF Recorded
  <2>3. \A c \in Conn : rpkt'[c] # None => Recorded(rpkt[c], sent)'
    BY <1>15, <1>16 DEF Recorded
  <2>4. \A c \in Conn : \A k \in DOMAIN wire'[c] : Recorded(wire[c][k], sent)'
    BY <1>15, <1>16 DEF Recorded
  <2>5. QED BY <2>1, <2>2, <2>3, <2>4 DEF SentInv
<1>q. QED BY <1>14, <1>16

-----------------------------------------------------------------------------
(* Places(i) names the packets that Where(i) counts. *)
Tag(s, e) == IF s = "wire" THEN e ELSE <<s, e>>

LEMMA InPlaces ==
  ASSUME TypeOK, NEW i, NEW P, Now(P, i), NEW x
  PROVE  x \in Places(i) <=> \E s \in Stage : \E e \in P[s] : x = Tag(s, e)
<1>1. x \in UNION {{c} \X At(wire[c], i) : c \in Conn} <=> x \in OnWire(wire, i)
  <2>1. \A c \in Conn : At(wire[c], i) \subseteq Nat
    BY DEF At, TypeOK
  <2>2. ASSUME NEW c \in Conn, x \in {c} \X At(wire[c], i) PROVE x \in OnWire(wire, i)
    BY <2>1, <2>2 DEF OnWire
  <2>3. ASSUME x \in OnWire(wire, i) PROVE \E c \in Conn : x \in {c} \X At(wire[c], i)
    BY <2>3 DEF OnWire
  <2>4. QED BY <2>2, <2>3
<1>2. x \in Places(i) <=>
        \/ \E e \in P["outgoing"] : x = <<"outgoing", e>>
        \/ \E e \in P["incoming"] : x = <<"incoming", e>>
        \/ \E e \in P["server"] : x = <<"server", e>>
        \/ \E e \in P["wire"] : x = e
        \/ \E e \in P["app"] : x = <<"app", e>>
        \/ \E e \in P["sender"] : x = <<"sender", e>>
        \/ \E e \in P["reader"] : x = <<"reader", e>>
        \/ \E e \in P["dispatcher"] : x = <<"dispatcher", e>>
        \/ \E e \in P["stored"] : x = <<"stored", e>>
  <2>1. x \in Places(i) <=>
        \/ \E e \in At(outgoing, i) : x = <<"outgoing", e>>
        \/ \E e \in At(incoming, i) : x = <<"incoming", e>>
        \/ \E e \in At(atServer, i) : x = <<"server", e>>
        \/ x \in OnWire(wire, i)
        \/ \E e \in Pushing(apc, apkt, i) : x = <<"app", e>>
        \/ \E e \in Kept({spkt}, i) : x = <<"sender", e>>
        \/ \E e \in Holding(Conn, rpkt, i) : x = <<"reader", e>>
        \/ \E e \in Holding(Dispatcher, dpkt, i) : x = <<"dispatcher", e>>
        \/ \E e \in Kept(responses \cup received, i) : x = <<"stored", e>>
    <3>0. Places(i) =
            (({"outgoing"} \X At(outgoing, i)) \cup ({"incoming"} \X At(incoming, i))
              \cup ({"server"} \X At(atServer, i)))
            \cup (UNION {{c} \X At(wire[c], i) : c \in Conn})
            \cup {<<"app", a>> : a \in Pushing(apc, apkt, i)}
            \cup {<<"sender", p>> : p \in Kept({spkt}, i)}
            \cup {<<"reader", c>> : c \in Holding(Conn, rpkt, i)}
            \cup {<<"dispatcher", d>> : d \in Holding(Dispatcher, dpkt, i)}
            \cup {<<"stored", r>> : r \in Kept(responses \cup received, i)}
      BY DEF Places, Pushing, Kept, Holding
    <3> DEFINE Queued == ({"outgoing"} \X At(outgoing, i)) \cup ({"incoming"} \X At(incoming, i))
                           \cup ({"server"} \X At(atServer, i))
               Wired == UNION {{c} \X At(wire[c], i) : c \in Conn}
               InApp == {<<"app", a>> : a \in Pushing(apc, apkt, i)}
               InSender == {<<"sender", p>> : p \in Kept({spkt}, i)}
               InReader == {<<"reader", c>> : c \in Holding(Conn, rpkt, i)}
               InDispatcher == {<<"dispatcher", d>> : d \in Holding(Dispatcher, dpkt, i)}
               InStore == {<<"stored", r>> : r \in Kept(responses \cup received, i)}
    <3>1. Places(i) = Queued \cup Wired \cup InApp \cup InSender \cup InReader
                        \cup InDispatcher \cup InStore
      BY <3>0, Zenon
    <3>2. \A S, t : x \in {t} \X S <=> \E e \in S : x = <<t, e>>
      OBVIOUS
    <3>3. x \in Places(i) <=>
            \/ x \in Queued \/ x \in Wired \/ x \in InApp \/ x \in InSender \/ x \in InReader
            \/ x \in InDispatcher \/ x \in InStore
      <4> HIDE DEF Queued, Wired, InApp, InSender, InReader, InDispatcher, InStore
      <4> QED BY <3>1
    <3>4. /\ x \in {"outgoing"} \X At(outgoing, i) <=> \E e \in At(outgoing, i) : x = <<"outgoing", e>>
          /\ x \in {"incoming"} \X At(incoming, i) <=> \E e \in At(incoming, i) : x = <<"incoming", e>>
          /\ x \in {"server"} \X At(atServer, i) <=> \E e \in At(atServer, i) : x = <<"server", e>>
      BY <3>2
    <3>5. /\ x \in {<<"app", a>> : a \in Pushing(apc, apkt, i)}
               <=> \E e \in Pushing(apc, apkt, i) : x = <<"app", e>>
          /\ x \in {<<"sender", p>> : p \in Kept({spkt}, i)}
               <=> \E e \in Kept({spkt}, i) : x = <<"sender", e>>
          /\ x \in {<<"reader", c>> : c \in Holding(Conn, rpkt, i)}
               <=> \E e \in Holding(Conn, rpkt, i) : x = <<"reader", e>>
          /\ x \in {<<"dispatcher", d>> : d \in Holding(Dispatcher, dpkt, i)}
               <=> \E e \in Holding(Dispatcher, dpkt, i) : x = <<"dispatcher", e>>
          /\ x \in {<<"stored", r>> : r \in Kept(responses \cup received, i)}
               <=> \E e \in Kept(responses \cup received, i) : x = <<"stored", e>>
      BY Zenon
    <3>6. QED BY <1>1, <3>3, <3>4, <3>5, Zenon
  <2>2. QED BY <2>1 DEF Now
<1>3. QED BY <1>2 DEF Stage, Tag

LEMMA CountPlaces ==
  ASSUME TypeOK, NEW i
  PROVE  /\ Single(Where(i)) => Cardinality(Places(i)) <= 1
         /\ ~Nowhere(Where(i)) => Places(i) # {}
<1>1. PICK P : P = Where(i) /\ Now(P, i)
  BY WhereIs
<1>2. \A x : x \in Places(i) <=> \E s \in Stage : \E e \in P[s] : x = Tag(s, e)
  BY <1>1, InPlaces
<1>3. ASSUME Single(P) PROVE Cardinality(Places(i)) <= 1
  <2>1. ASSUME NEW x \in Places(i), NEW y \in Places(i) PROVE x = y
    <3>1. PICK s \in Stage : \E e \in P[s] : x = Tag(s, e)
      BY <1>2
    <3>2. PICK t \in Stage : \E e \in P[t] : y = Tag(t, e)
      BY <1>2
    <3>3. s = t
      BY <1>3, <3>1, <3>2 DEF Single
    <3>4. QED BY <1>3, <3>1, <3>2, <3>3 DEF Single, Lone
  <2>2. CASE Places(i) = {}
    BY <2>2, FS_EmptySet
  <2>3. ASSUME NEW x \in Places(i) PROVE Cardinality(Places(i)) <= 1
    <3>1. Places(i) = {x}
      BY <2>1, <2>3
    <3>2. QED BY <3>1, FS_Singleton, SMTT(30)
  <2>4. QED BY <2>2, <2>3
<1>4. ASSUME ~Nowhere(P) PROVE Places(i) # {}
  <2>1. PICK s \in Stage : P[s] # {}
    BY <1>4, Zenon DEF Nowhere
  <2>2. PICK e : e \in P[s]
    BY <2>1
  <2>3. Tag(s, e) \in Places(i)
    BY <1>2, <2>2, Zenon
  <2>4. QED BY <2>3
<1>5. QED BY <1>1, <1>3, <1>4

(* The pipeline starts empty. *)
LEMMA PipelineInit == Init => TypeOK /\ CodeInv /\ ReplyInv /\ ModeInv /\ MsgInv /\ SentInv
<1> SUFFICES ASSUME Init PROVE TypeOK /\ CodeInv /\ ReplyInv /\ ModeInv /\ MsgInv /\ SentInv
  OBVIOUS
<1>1. TypeOK
  <2>1. << >> \in Seq(Packet)
    OBVIOUS
  <2>2. 0 \in 0 .. MaxMsg /\ 0 \in 0 .. MaxBusy
    BY BoundAssumption
  <2>3. /\ useBusy \in BOOLEAN /\ isBusy \in BOOLEAN /\ globalMessageID \in 0 .. MaxMsg
        /\ slots \subseteq {"push", "result"} /\ busies \in 0 .. MaxBusy /\ pushed \subseteq Conn \X Id
    BY <2>2 DEF Init
  <2>4. /\ outgoing \in Seq(Packet) /\ incoming \in Seq(Packet) /\ atServer \in Seq(Packet)
        /\ wire \in [Conn -> Seq(Packet)]
    BY <2>1 DEF Init
  <2>5. /\ sent \in [Conn -> SUBSET Packet]
        /\ responses \subseteq Packet /\ received \subseteq Packet
    BY DEF Init
  <2>6. /\ apc \in [App -> {"idle", "push", "wait"}] /\ apkt \in [App -> Packet \cup {None}]
        /\ \A a \in App : apc[a] = "idle" <=> apkt[a] = None
    BY DEF Init
  <2>7. /\ rpc \in [Conn -> {"idle", "flag", "match"}] /\ rpkt \in [Conn -> Packet \cup {None}]
        /\ \A c \in Conn : rpc[c] = "idle" <=> rpkt[c] = None
    BY DEF Init
  <2>8. spc = "loop" /\ spkt = None /\ dpkt \in [Dispatcher -> Packet \cup {None}]
    BY DEF Init
  <2>q. QED BY <2>3, <2>4, <2>5, <2>6, <2>7, <2>8 DEF TypeOK
<1>2. CodeInv /\ ReplyInv /\ ModeInv /\ SentInv
  BY DEF Init, CodeInv, ReplyInv, ModeInv, SentInv
<1>3. ASSUME NEW i \in Id PROVE Nowhere(Where(i))
  <2>1. PICK P : P = Where(i) /\ Now(P, i)
    BY WhereIs
  <2>2. P["outgoing"] = {} /\ P["incoming"] = {} /\ P["server"] = {}
    BY <2>1 DEF Now, Init, At
  <2>3. P["wire"] = {}
    BY <2>1 DEF Now, Init, OnWire, At
  <2>4. P["app"] = {} /\ P["sender"] = {} /\ P["reader"] = {} /\ P["dispatcher"] = {}
    BY <2>1 DEF Now, Init, Pushing, Kept, Holding, Has
  <2>5. P["stored"] = {}
    BY <2>1 DEF Now, Init, Kept
  <2>q. QED BY <2>5, <2>4, <2>3, <2>2, <2>1 DEF Nowhere, Stage
<1>4. MsgInv
  <2>1. \A P : Nowhere(P) => Single(P)
    BY DEF Nowhere, Single, Lone
  <2>2. \A i \in Id : i > globalMessageID
    BY BoundAssumption DEF Init, Id
  <2>3. QED BY <1>3, <2>1, <2>2, IdFacts DEF MsgInv, Init
<1>5. QED BY <1>1, <1>2, <1>4

(* The invariant of the pipeline. *)
PipelineInv == TypeOK /\ CodeInv /\ ReplyInv /\ ModeInv /\ MsgInv /\ SentInv

LEMMA PipelineKept == Spec => []PipelineInv
<1>1. Init => PipelineInv
  BY PipelineInit DEF PipelineInv
<1>2. PipelineInv /\ [Next]_vars => PipelineInv'
  <2>a. CASE UNCHANGED vars
    <3>1. PipelineInv => TypeOK' /\ CodeInv' /\ ReplyInv' /\ ModeInv' /\ SentInv'
      <4>1. PipelineInv => TypeOK' /\ ModeInv'
        BY <2>a DEF vars, PipelineInv, TypeOK, ModeInv
      <4>2. PipelineInv => SentInv'
        BY <2>a DEF vars, PipelineInv, SentInv, Recorded, Clean
      <4>3. PipelineInv => CodeInv' /\ ReplyInv'
        BY <2>a DEF vars, PipelineInv, CodeInv, ReplyInv
      <4>4. QED BY <4>1, <4>2, <4>3
    <3>2. PipelineInv => MsgInv'
      <4>1. \A i : Where(i)' = Where(i)
        BY <2>a DEF vars, Where
      <4>2. QED BY <2>a, <4>1 DEF vars, PipelineInv, MsgInv, Clean
    <3>3. QED BY <3>1, <3>2 DEF PipelineInv
  <2>b. CASE Next
    BY <2>b, TypeStep, CodeStep, ReplyStep, ModeStep, MsgStep, SentStep DEF PipelineInv
  <2>q. QED BY <2>a, <2>b
<1>q. QED BY <1>1, <1>2, PTL DEF Spec

(* The types of the pipeline's state hold in every run: the sender, the read
   callbacks and the waiting threads hold a packet exactly while they use it. *)
THEOREM PipelineTypes == Spec => []TypeOK
<1>1. PipelineInv => TypeOK
  BY DEF PipelineInv
<1>q. QED BY <1>1, PipelineKept, PTL

(* A request is in one place at most, whatever the busy answers and the
   interleaving of sender, read callbacks and dispatchers: it is not sent again
   while an answer to it is under way, and is answered to one thread. *)
THEOREM RequestOnce == Spec => []OneCopy
<1>1. PipelineInv => OneCopy
  BY CountPlaces DEF PipelineInv, MsgInv, OneCopy
<1>q. QED BY <1>1, PipelineKept, PTL

(* Without the busy protocol no request that sendPacket numbered is lost on its
   way to the server and back. *)
THEOREM RequestKept == Spec => []NothingLost
<1>1. PipelineInv => NothingLost
  <2> SUFFICES ASSUME PipelineInv, ~useBusy, NEW i \in 1 .. globalMessageID, Clean(i)
               PROVE  Places(i) # {}
    BY DEF NothingLost
  <2>1. i \in Id /\ i <= globalMessageID
    BY BoundAssumption DEF PipelineInv, TypeOK, Id
  <2>2. ~Nowhere(Where(i))
    BY <2>1 DEF PipelineInv, MsgInv
  <2>3. QED BY <2>2, CountPlaces DEF PipelineInv
<1>q. QED BY <1>1, PipelineKept, PTL

(* The read callback finds the request of every answer in the sent map of its
   connection, unless a peer used the request's number for a packet of its own:
   such a packet is matched with the request and removes it. *)
THEOREM AnswerFindsRequest == Spec => []AnswerMatched
<1>1. PipelineInv => AnswerMatched
  <2> SUFFICES ASSUME PipelineInv, NEW c \in Conn, rpkt[c] # None, Clean(rpkt[c].id)
               PROVE  \E p \in sent[c] : p.id = rpkt[c].id /\ p.code = "request"
    BY DEF AnswerMatched
  <2>1. useBusy
    BY DEF PipelineInv, ModeInv, TypeOK
  <2>2. PICK q \in Back(pushed, c) : q = rpkt[c]
    BY DEF PipelineInv, CodeInv
  <2>3. q \in Packet /\ q.conn = c /\ q.code # "push"
    BY <2>2 DEF Back, Foreign, Clean
  <2>4. Num(q) # 0
    BY <2>2, <2>3, Numbers, Fields, IdFacts DEF Back, Foreign
  <2>5. Recorded(q, sent)
    BY <2>1, <2>2 DEF PipelineInv, SentInv
  <2>6. QED BY <2>2, <2>3, <2>4, <2>5 DEF Recorded
<1>q. QED BY <1>1, PipelineKept, PTL

(* A manager that rests stays at rest until the server sends a packet unasked:
   no step of its own, of an application thread or of a dispatcher lowers
   _isBusy. *)
THEOREM RestUntilPush == Spec => OnlyAPushResumes
<1>1. TypeOK /\ [Next]_vars => [Resting => Resting' \/ pushed' # pushed]_vars
  <2> SUFFICES ASSUME TypeOK, Next, Resting PROVE Resting' \/ pushed' # pushed
    BY DEF vars
  <2>0. /\ useBusy /\ isBusy /\ spc = "loop" /\ atServer = << >>
        /\ \A c \in Conn : wire[c] = << >> /\ rpc[c] = "idle"
    BY DEF Resting
  <2>1. ASSUME UNCHANGED <<useBusy, isBusy, spc, atServer, wire, rpc>> PROVE Resting'
    BY <2>0, <2>1 DEF Resting
  <2>2. ASSUME NEW a \in App, NEW c \in Conn, AssignMsgId(a, c) PROVE Resting'
    BY <2>1, <2>2 DEF AssignMsgId
  <2>3. ASSUME NEW a \in App, PushOutgoing(a) \/ ReceivePacket(a) \/ GiveUp(a) PROVE Resting'
    BY <2>1, <2>3 DEF PushOutgoing, ReceivePacket, GiveUp
  <2>4. ~SenderStep
    BY <2>0 DEF SenderStep, SenderLoop, SenderPop, SenderCheck, SenderRecord, SenderSend
  <2>5. \A c \in Conn : ~ReaderStep(c)
    BY <2>0 DEF ReaderStep, Read, ReaderFlag, ReaderMatch
  <2>6. DOMAIN atServer = {}
    BY <2>0
  <2>7. ASSUME NEW c \in Conn, NEW i \in Id, ServerPushes(c, i) PROVE pushed' # pushed
    BY <2>7 DEF ServerPushes
  <2>8. ASSUME NEW d \in Dispatcher, DispatcherStep(d) PROVE Resting'
    BY <2>1, <2>8 DEF DispatcherStep, DispatcherPop, DispatchToSlot, DispatchToStore
  <2>9. QED BY <2>2, <2>3, <2>4, <2>5, <2>6, <2>7, <2>8 DEF Next
<1>q. QED BY <1>1, PipelineTypes, PTL DEF Spec, OnlyAPushResumes

-----------------------------------------------------------------------------
(* On one connection nobody changes _isBusy between the read callback's two
   uses of it. *)
OneConn == \A c, d \in Conn : c = d
BusyInv ==
  useBusy =>
    /\ \A c \in Conn : rpc[c] = "match" /\ rpkt[c].code = "busy" => isBusy
    /\ \A k \in DOMAIN incoming : incoming[k].code # "busy"
    /\ \A d \in Dispatcher : dpkt[d] # None => dpkt[d].code # "busy"
    /\ \A r \in responses \cup received : r.code # "busy"

LEMMA BusyStep ==
  ASSUME OneConn, TypeOK, ModeInv, BusyInv, Next
  PROVE  BusyInv'
<1> SUFFICES ASSUME useBusy, useBusy' PROVE BusyInv'
  BY ModeStep DEF BusyInv
<1>0. /\ \A c \in Conn : rpc[c] = "match" /\ rpkt[c].code = "busy" => isBusy
      /\ \A k \in DOMAIN incoming : incoming[k].code # "busy"
      /\ \A d \in Dispatcher : dpkt[d] # None => dpkt[d].code # "busy"
      /\ \A r \in responses \cup received : r.code # "busy"
  BY DEF BusyInv
<1>1. ASSUME UNCHANGED <<rpc, rpkt, isBusy, incoming, dpkt>>,
             responses' \cup received' \subseteq responses \cup received
      PROVE  BusyInv'
  BY <1>0, <1>1 DEF BusyInv
<1>2. ASSUME NEW a \in App, NEW c \in Conn, AssignMsgId(a, c) PROVE BusyInv'
  BY <1>1, <1>2 DEF AssignMsgId
<1>3. ASSUME NEW a \in App, PushOutgoing(a) \/ ReceivePacket(a) \/ GiveUp(a) PROVE BusyInv'
  BY <1>1, <1>3 DEF PushOutgoing, ReceivePacket, GiveUp
<1>4. CASE SenderStep
  BY <1>1, <1>4 DEF SenderStep, SenderLoop, SenderPop, SenderCheck, SenderRecord, SenderSend
<1>5. ASSUME NEW k \in DOMAIN atServer, ServerAnswers(k) \/ ServerBusy(k) PROVE BusyInv'
  BY <1>1, <1>5 DEF ServerAnswers, ServerBusy, Answer
<1>6. ASSUME NEW c \in Conn, NEW i \in Id, ServerPushes(c, i) PROVE BusyInv'
  BY <1>1, <1>6 DEF ServerPushes
<1>7. ASSUME NEW c \in Conn, Read(c) PROVE BusyInv'
  <2>1. /\ UNCHANGED <<isBusy, incoming, dpkt, responses, received>>
        /\ \A e \in Conn : rpc'[e] # "match" \/ (rpc'[e] = rpc[e] /\ rpkt'[e] = rpkt[e])
    BY <1>7 DEF Read, TypeOK
  <2>2. QED BY <1>0, <2>1 DEF BusyInv
<1>8. ASSUME NEW c \in Conn, ReaderFlag(c) PROVE BusyInv'
  <2>1. \A e \in Conn : e = c
    BY DEF OneConn
  <2>2. UNCHANGED <<rpkt, incoming, dpkt, responses, received>> /\ isBusy' = (rpkt[c].code = "busy")
    BY <1>8 DEF ReaderFlag
  <2>3. QED BY <1>0, <2>1, <2>2 DEF BusyInv
<1>9. ASSUME NEW c \in Conn, ReaderMatch(c) PROVE BusyInv'
  <2>1. PICK q \in Packet : q = rpkt[c]
    BY <1>9 DEF ReaderMatch, TypeOK
  <2>2. /\ UNCHANGED <<isBusy, dpkt, responses, received>>
        /\ \A e \in Conn : rpc'[e] # "match" \/ (rpc'[e] = rpc[e] /\ rpkt'[e] = rpkt[e])
    BY <1>9 DEF ReaderMatch, TypeOK
  <2>3. incoming' = incoming \/ (incoming' = Append(incoming, q) /\ q.code # "busy")
    BY <1>0, <1>9, <2>1 DEF ReaderMatch
  <2>4. \A k \in DOMAIN incoming' : incoming'[k].code # "busy"
    <3>1. ASSUME q.code # "busy"
          PROVE  \A k \in DOMAIN Append(incoming, q) : Append(incoming, q)[k].code # "busy"
      BY <1>0, <3>1 DEF TypeOK
    <3>2. QED BY <1>0, <2>3, <3>1
  <2>5. QED BY <1>0, <2>2, <2>4 DEF BusyInv
<1>10. ASSUME NEW d \in Dispatcher, DispatcherPop(d) PROVE BusyInv'
  <2>1. /\ UNCHANGED <<isBusy, rpc, rpkt, responses, received>> /\ incoming # << >>
        /\ incoming' = Tail(incoming) /\ dpkt' = [dpkt EXCEPT ![d] = Head(incoming)]
        /\ incoming \in Seq(Packet) /\ dpkt \in [Dispatcher -> Packet \cup {None}]
    BY <1>10 DEF DispatcherPop, TypeOK
  <2>2. /\ Head(incoming) = incoming[1] /\ 1 \in DOMAIN incoming
        /\ \A k \in DOMAIN Tail(incoming) : /\ Tail(incoming)[k] = incoming[k + 1]
                                           /\ k + 1 \in DOMAIN incoming
    BY <2>1
  <2>3. Head(incoming).code # "busy" /\ \A k \in DOMAIN incoming' : incoming'[k].code # "busy"
    BY <1>0, <2>1, <2>2
  <2>4. \A e \in Dispatcher : dpkt'[e] # None => dpkt'[e].code # "busy"
    BY <1>0, <2>1, <2>3
  <2>5. QED BY <1>0, <2>1, <2>3, <2>4 DEF BusyInv
<1>11. ASSUME NEW d \in Dispatcher, DispatchToSlot(d) \/ DispatchToStore(d) PROVE BusyInv'
  <2>1. /\ UNCHANGED <<isBusy, rpc, rpkt, incoming>> /\ dpkt' = [dpkt EXCEPT ![d] = None]
        /\ responses' \cup received' \subseteq responses \cup received \cup {dpkt[d]}
        /\ dpkt[d].code # "busy"
    BY <1>0, <1>11 DEF DispatchToSlot, DispatchToStore
  <2>2. \A e \in Dispatcher : dpkt'[e] # None => dpkt'[e].code # "busy"
    BY <1>0, <2>1 DEF TypeOK
  <2>3. \A r \in responses' \cup received' : r.code # "busy"
    BY <1>0, <2>1
  <2>4. QED BY <1>0, <2>1, <2>2, <2>3 DEF BusyInv
<1>q. QED
  BY <1>2, <1>3, <1>4, <1>5, <1>6, <1>7, <1>8, <1>9, <1>10, <1>11
     DEF Next, ReaderStep, DispatcherStep

(* A client with one connection discards every busy packet, as the comment on
   the protocol says: it takes a second connection's read callback, lowering
   _isBusy between the two uses, to let one through. *)
THEOREM BusyDiscardedAlone == ASSUME OneConn PROVE Spec => []BusyDiscarded
<1>1. Init => BusyInv
  BY DEF Init, BusyInv
<1>2. PipelineInv /\ BusyInv /\ [Next]_vars => BusyInv'
  <2>a. CASE UNCHANGED vars
    BY <2>a DEF vars, BusyInv
  <2>b. CASE Next
    BY <2>b, BusyStep DEF PipelineInv
  <2>q. QED BY <2>a, <2>b
<1>3. BusyInv => BusyDiscarded
  BY DEF BusyInv, BusyDiscarded
<1>q. QED BY <1>1, <1>2, <1>3, PipelineKept, PTL DEF Spec

=============================================================================
