--------------------------- MODULE CommonSocket ---------------------------
(***************************************************************************)
(* One direction of a connection between two CCommonSocket: the sender of  *)
(* CGPBManagerV2 puts a header with the size of the body before it, TCP    *)
(* hands the bytes over in pieces, and readHeader and readBody of          *)
(* commonSocket.cpp put them together again.  A byte is a digit to base    *)
(* Base (256 in the code), a header HeaderSize digits (4 in the code).     *)
(***************************************************************************)
EXTENDS Integers, Sequences, SequencesExt

CONSTANTS
  Base, HeaderSize,
  Body,      \* bodies of packets: sequences of digits
  MaxSend    \* bound on the calls of sendPacket

(* size >> 8 * n: without its last n digits. *)
Shifted(size, n) ==
  LET shift[k \in Nat] == IF k = 0 THEN size ELSE shift[k - 1] \div Base IN shift[n]

(* The size of a body has no more digits than a header. *)
ASSUME CommonSocketAssumption ==
  /\ Base \in Nat \ {0, 1} /\ HeaderSize \in Nat \ {0} /\ MaxSend \in Nat
  /\ \A b \in Body : b \in Seq(0 .. Base - 1) /\ Shifted(Len(b), HeaderSize) = 0

VARIABLES
  sockCalls,     \* how often sendPacket was called
  sockTorn,      \* a write stopped inside a frame: what follows it is no frame
  sockSent,      \* bodies that sendPacket wrote whole while the stream was not torn
  sockWire,      \* bytes written and not yet read
  sockBroken,    \* the connection is gone
  sockSlots,     \* _vecSltMessage: "none", "growing" while push_back works on it,
                 \* "there" when it holds the slot
  sockReading,   \* "header", "body": the read under way; "off": none any more;
                 \* "crashed": the receiver did not survive
  sockBuf,       \* what of _readBuffer is filled
  sockNeed,      \* _PACKET_BODY_SIZE
  sockMissed,    \* bodies read while there was no slot to give them to
  sockDelivered, \* bodies given to the message slot
  sockNotified   \* how often the disconnect slots ran

sockWritten == <<sockCalls, sockTorn, sockSent>>
sockRead == <<sockMissed, sockDelivered>>
sockVars == <<sockWritten, sockWire, sockBroken, sockSlots, sockReading, sockBuf, sockNeed,
              sockRead, sockNotified>>

(* A connection that connectTo made has its slot before it reads; one that was
   accepted reads first. *)
SockInit ==
  /\ sockCalls = 0 /\ sockTorn = FALSE /\ sockSent = << >> /\ sockWire = << >>
  /\ sockBroken = FALSE /\ sockSlots \in {"none", "there"}
  /\ sockReading = "header" /\ sockBuf = << >> /\ sockNeed = 0
  /\ sockMissed = << >> /\ sockDelivered = << >> /\ sockNotified = 0

-----------------------------------------------------------------------------
encode_header(size) == [i \in 1 .. HeaderSize |-> Shifted(size, HeaderSize - i) % Base]

(* A decoder that takes the last byte for the highest. *)
decode_header_reversed(buffer) ==
  FoldRight(LAMBDA digit, size : size * Base + digit, SubSeq(buffer, 1, HeaderSize), 0)

decode_header(buffer) ==
  FoldLeft(LAMBDA size, digit : size * Base + digit, 0, SubSeq(buffer, 1, HeaderSize))

(* The reader finds the size in a header that the sender put there. *)
HeaderInverts == \A b \in Body : decode_header(encode_header(Len(b))) = Len(b)

Frame(body) == encode_header(Len(body)) \o body

sendPacket(body) ==
  /\ ~sockBroken /\ sockCalls < MaxSend
  /\ sockCalls' = sockCalls + 1 /\ sockWire' = sockWire \o Frame(body)
  /\ sockSent' = IF sockTorn THEN sockSent ELSE Append(sockSent, body)
  /\ UNCHANGED <<sockTorn, sockBroken, sockSlots, sockReading, sockBuf, sockNeed, sockRead,
                 sockNotified>>

(* A write that fails has written a part.  The error is logged and the caller is
   given a length it does not look at: it goes on with the next packet. *)
SendFails(body) ==
  /\ sockCalls < MaxSend /\ sockCalls' = sockCalls + 1
  /\ \E part \in 0 .. Len(Frame(body)) - 1 :
       /\ sockBroken => part = 0
       /\ sockWire' = sockWire \o SubSeq(Frame(body), 1, part)
       /\ sockTorn' = (sockTorn \/ part > 0)
  /\ UNCHANGED <<sockSent, sockBroken, sockSlots, sockReading, sockBuf, sockNeed, sockRead,
                 sockNotified>>

Break ==
  /\ ~sockBroken /\ sockBroken' = TRUE
  /\ UNCHANGED <<sockWritten, sockWire, sockSlots, sockReading, sockBuf, sockNeed, sockRead,
                 sockNotified>>

-----------------------------------------------------------------------------
(* The new-connection slot, which socket_accept runs while the socket already
   reads, appends the message slot without a lock. *)
registerQueuePacket ==
  /\ sockReading # "crashed"
  /\ \/ sockSlots = "none" /\ sockSlots' = "growing"
     \/ sockSlots = "growing" /\ sockSlots' = "there"
  /\ UNCHANGED <<sockWritten, sockWire, sockBroken, sockReading, sockBuf, sockNeed, sockRead,
                 sockNotified>>

(* How far _readBuffer has to be filled before the handler runs. *)
Want == IF sockReading = "header" THEN HeaderSize ELSE HeaderSize + sockNeed
ReadUnderWay == sockReading \in {"header", "body"}

(* async_read takes what has arrived, as often as it needs to. *)
ReadSome ==
  /\ ReadUnderWay
  /\ \E some \in 1 .. Len(sockWire) :
       /\ Len(sockBuf) + some <= Want
       /\ sockBuf' = sockBuf \o SubSeq(sockWire, 1, some)
       /\ sockWire' = SubSeq(sockWire, some + 1, Len(sockWire))
  /\ UNCHANGED <<sockWritten, sockBroken, sockSlots, sockReading, sockNeed, sockRead, sockNotified>>

(* startReadBody takes the address of the first byte of the body: of an empty
   one it is behind the buffer, which a checked build does not survive. *)
readHeader ==
  /\ sockReading = "header" /\ Len(sockBuf) = HeaderSize
  /\ sockNeed' = decode_header(sockBuf)
  /\ \/ sockReading' = "body"
     \/ sockNeed' = 0 /\ sockReading' = "crashed"
  /\ UNCHANGED <<sockWritten, sockWire, sockBroken, sockSlots, sockBuf, sockRead, sockNotified>>

BodyRead == sockReading = "body" /\ Len(sockBuf) = HeaderSize + sockNeed

(* The loop over _vecSltMessage: with no slot in it the packet is gone. *)
GiveToSlots(packet) ==
  IF sockSlots = "there"
  THEN sockDelivered' = Append(sockDelivered, packet) /\ UNCHANGED sockMissed
  ELSE sockMissed' = Append(sockMissed, packet) /\ UNCHANGED sockDelivered

(* A readBody that does not ask for the next header. *)
readBody_last ==
  /\ BodyRead /\ GiveToSlots(SubSeq(sockBuf, HeaderSize + 1, Len(sockBuf)))
  /\ sockNeed' = 0 /\ sockBuf' = << >> /\ sockReading' = "off"
  /\ UNCHANGED <<sockWritten, sockWire, sockBroken, sockSlots, sockNotified>>

(* The packet goes to the slots and the next header is asked for. *)
readBody ==
  /\ BodyRead /\ GiveToSlots(SubSeq(sockBuf, HeaderSize + 1, Len(sockBuf)))
  /\ sockNeed' = 0 /\ sockBuf' = << >> /\ sockReading' = "header"
  /\ UNCHANGED <<sockWritten, sockWire, sockBroken, sockSlots, sockNotified>>

(* The loop meets a vector whose ends are being replaced: it sees none of the new
   one, as above, or one end of it. *)
SlotsMove ==
  /\ BodyRead /\ sockSlots = "growing" /\ sockReading' = "crashed"
  /\ UNCHANGED <<sockWritten, sockWire, sockBroken, sockSlots, sockBuf, sockNeed, sockRead,
                 sockNotified>>

(* The read ends with an error, whether or not bytes are left: the disconnect
   slots run and nothing is read any more. *)
ReadFails ==
  /\ ReadUnderWay /\ sockBroken /\ Len(sockBuf) < Want
  /\ sockReading' = "off" /\ sockNotified' = sockNotified + 1
  /\ UNCHANGED <<sockWritten, sockWire, sockBroken, sockSlots, sockBuf, sockNeed, sockRead>>

SockReader == ReadSome \/ readHeader \/ readBody \/ SlotsMove \/ ReadFails

SockNext ==
  \/ \E body \in Body : sendPacket(body) \/ SendFails(body)
  \/ Break \/ registerQueuePacket \/ SockReader

SockSpec == SockInit /\ [][SockNext]_sockVars

-----------------------------------------------------------------------------
(* The packets in the order they were read, and those of them that were read
   from an untorn part of the stream. *)
Read == sockMissed \o sockDelivered
Got == IF Len(Read) <= Len(sockSent) THEN Read ELSE SubSeq(Read, 1, Len(sockSent))

(* However TCP cuts the bytes, the loop over the slots (commonSocket.cpp:108)
   gets the bodies that were sent, in order and unchanged, up to a write that
   stops inside a frame: the connection is a FIFO until then, also for the
   packets that were on their way when the write failed.  What a connection that
   was accepted reads before its slot is there is gone, but it is a beginning of
   what was sent: no packet is missed between two that the slot gets. *)
Fifo == INSTANCE FifoQueue WITH
  Item <- Body,
  queue <- SubSeq(sockSent, Len(Read) + 1, Len(sockSent)),
  taken <- Got
FramesInOrder == Fifo!Spec

(* A packet that sendPacket wrote behind no torn frame reaches the loop over the
   slots, whatever is written behind it, or the disconnect slots run, once,
   because the connection broke; only an empty packet, or one that is there
   while the slots are registered, can end the receiver. *)
FrameOrBroken ==
  \A n \in 1 .. MaxSend :
    (Len(sockSent) >= n) ~>
      \/ Len(Read) >= n
      \/ sockBroken /\ sockNotified = 1
      \/ /\ sockReading = "crashed"
         /\ \/ sockSlots = "growing"
            \/ Len(Read) < Len(sockSent) /\ sockSent[Len(Read) + 1] = << >>
=============================================================================
