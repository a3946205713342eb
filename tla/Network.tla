-------------------------------- MODULE Network --------------------------------
(***************************************************************************)
(* The network device of machine/network.cc, sending to its own address.   *)
(* Packets are numbered as they are sent; the device may drop one.  The    *)
(* post office that uses the device is not in the repository: it waits for *)
(* SendDone before it sends again and for the read handler before it       *)
(* receives.                                                               *)
(***************************************************************************)
EXTENDS Interrupt

CONSTANTS
  NetworkTime,     \* delay of the poll and of SendDone
  MaxPackets       \* bound: packets sent

VARIABLES
  inHdr,           \* the packet buffered in inbox; 0 when inHdr.length = 0
  socket,          \* the datagrams in the UNIX socket
  sent,            \* how many packets were sent
  lost,            \* history: those the device dropped
  received,        \* history: what Receive returned
  sendDone, packetAvail, \* the post office's semaphores (external)
  mayNotSend       \* the post office waits for SendDone

netVars == <<inHdr, socket, sent, lost, received, sendDone, packetAvail, mayNotSend>>

NoPacket == 0

NetworkInit ==
  /\ inHdr = NoPacket /\ socket = <<>>
  /\ sent = 0 /\ lost = {} /\ received = <<>>
  /\ sendDone = 0 /\ packetAvail = 0 /\ mayNotSend = FALSE

\* A buffered packet delays the reading of the next one.
ReadPacket ==
  IF inHdr # NoPacket \/ socket = <<>>
  THEN UNCHANGED <<inHdr, socket, packetAvail>>
  ELSE /\ inHdr' = Head(socket)
       /\ socket' = Tail(socket)
       /\ packetAvail' = packetAvail + 1

CheckPktAvail ==
  /\ Due("NetworkRecvInt")
  /\ pending' = Schedule(SortedRemove(pending), "NetworkRecvInt", NetworkTime)
  /\ ReadPacket
  /\ UNCHANGED <<sent, lost, received, sendDone, mayNotSend>>

SendDone ==
  /\ Due("NetworkSendInt")
  /\ pending' = SortedRemove(pending)
  /\ sendDone' = sendDone + 1
  /\ UNCHANGED <<inHdr, socket, sent, lost, received, packetAvail, mayNotSend>>

\* Send schedules SendDone whether or not the packet is lost.
Send ==
  /\ phase = "run" /\ ~mayNotSend /\ sent < MaxPackets
  /\ sent' = sent + 1
  /\ pending' = Schedule(pending, "NetworkSendInt", NetworkTime)
  /\ \/ lost' = lost \cup {sent'} /\ UNCHANGED socket
     \/ socket' = Append(socket, sent') /\ UNCHANGED lost
  /\ mayNotSend' = TRUE
  /\ UNCHANGED <<phase, inHdr, received, sendDone, packetAvail>>

\* A wrong Receive, which leaves the packet in the buffer.
ReceiveKeeping ==
  /\ phase = "run" /\ packetAvail > 0
  /\ packetAvail' = packetAvail - 1
  /\ received' = Append(received, inHdr)
  /\ UNCHANGED <<intVars, inHdr, socket, sent, lost, sendDone, mayNotSend>>

Receive ==
  /\ phase = "run" /\ packetAvail > 0
  /\ packetAvail' = packetAvail - 1
  /\ received' = Append(received, inHdr)
  /\ inHdr' = NoPacket
  /\ UNCHANGED <<intVars, socket, sent, lost, sendDone, mayNotSend>>

WaitSendDone ==
  /\ phase = "run" /\ mayNotSend /\ sendDone > 0
  /\ sendDone' = sendDone - 1
  /\ mayNotSend' = FALSE
  /\ UNCHANGED <<intVars, inHdr, socket, sent, lost, received, packetAvail>>

NetworkStep == Send \/ Receive \/ WaitSendDone

NetworkBlocked ==
  /\ packetAvail = 0
  /\ mayNotSend => sendDone = 0
  /\ ~mayNotSend => sent = MaxPackets
-----------------------------------------------------------------------------
InBox == IF inHdr = NoPacket THEN <<>> ELSE <<inHdr>>

(* Every packet that is not dropped by Send arrives once and in order, though   *)
(* one buffer holds what the poll has read and Receive has not taken, and the   *)
(* sender is told of the end of each Send, dropped or not                       *)
(* (Network::CheckPktAvail, Send, Receive).                                     *)
PacketsInOrder ==
  /\ received \o InBox \o socket = SelectSeq([i \in 1..sent |-> i], LAMBDA p : p \notin lost)
  /\ Len(SelectSeq(pending, LAMBDA x : x.type = "NetworkSendInt")) + sendDone
       = IF mayNotSend THEN 1 ELSE 0
================================================================================
