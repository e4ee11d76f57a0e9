------------------------------- MODULE PvmNet -------------------------------
(***************************************************************************)
(* prl_eth: the network adapter.  The guest and the host share two rings,  *)
(* one for each direction.  A packet is written as a whole, into the room  *)
(* behind the ring's end if need be, and takes a multiple of 16 bytes, the *)
(* unit of all sizes here.  Offsets run freely and wrap at Wrap.           *)
(*                                                                         *)
(* The device interrupts for a received packet, for space in the send ring *)
(* and for a change of the cable.  Reading its status takes the events and *)
(* masks further ones until the handler is done.  The line is shared: the  *)
(* handler may be called when the device does not interrupt.               *)
(*                                                                         *)
(* The network core (external) calls xmit one at a time while the queue    *)
(* runs, and close when no call of xmit is left.                           *)
(***************************************************************************)
EXTENDS Integers, Sequences

CONSTANTS
  Units,     \* IO_NET_SIZE
  Wrap,      \* where offsets wrap; 2^32 bytes
  TailRoom,  \* what a buffer has behind the ring's end, as large as any packet
  SendSizes, \* what packets take, with their header
  RecvSizes,
  Fixed,     \* NET_PACKET_FIXED_SIZE
  Cables     \* whether the cable can be connected, and not

ASSUME NetAssumption ==
  /\ Units \in Nat \ {0} /\ TailRoom \in Nat
  /\ Wrap \in Nat /\ Wrap % Units = 0 /\ Wrap > Units
  /\ SendSizes \cup RecvSizes \cup {Fixed} \subseteq (1..Units) \cap (1..TailRoom + 1)
  /\ Cables \subseteq BOOLEAN

VARIABLES
  phase,      \* how far open or close has got
  link,       \* whether open has read that the cable is connected
  queue,      \* the core may call xmit
  carrier,
  xmit,       \* what xmit is doing, and its packet's size
  isr,        \* what the handler is doing
  connected,  \* the cable
  pending,    \* events that were not read from the status
  mask,       \* the device may interrupt
  sendHead, sendTail, sent,  \* send ring: offsets, the packets between
  head, tail, rcvd,          \* receive ring: the same
  present,    \* bSendPacketPresent
  kicked,     \* the host is sending
  wanted,     \* the host is to tell when there is space
  overtaken,  \* the handler has seen to the cable while open went on
  late,       \* the handler has run while close went on
  asleep      \* open has taken the event of a received packet

rings  == <<sendHead, sendTail, sent, head, tail, rcvd>>
host   == <<present, kicked, wanted>>
device == <<connected, pending, mask>>
netdev == <<phase, link, overtaken, late, asleep>>
vars   == <<netdev, queue, carrier, xmit, isr, device, rings, host>>

Events  == {"received", "space", "cable"}
NoIrq   == [pc |-> "idle", status |-> {}, up |-> FALSE, offset |-> 0]
Offsets == 0..(Wrap - 1)

\* A packet, with the offset it was written at.
Packets(sizes, flags) == [at : Offsets, units : sizes, fixed : flags]
Sends    == Packets(SendSizes, {FALSE})
Receives == Packets(RecvSizes, BOOLEAN)

TypeOK ==
  /\ phase \in {"absent", "closed", "request", "enable", "start", "carrier", "open", "stop", "sync"}
  /\ {link, queue, carrier, connected, mask, present, kicked, wanted,
      overtaken, late, asleep} \subseteq BOOLEAN
  /\ xmit \in [pc : {"idle", "write", "flag", "set", "flush", "full", "notify"}, units : SendSizes \cup {0}]
  /\ isr \in [pc : {"idle", "events", "read", "enable", "move"}, status : SUBSET Events,
              up : BOOLEAN, offset : Offsets]
  /\ pending \subseteq Events
  /\ {sendHead, sendTail, head, tail} \subseteq Offsets
  /\ sent \in Seq(Sends) /\ rcvd \in Seq(Receives)

Init ==
  /\ phase = "absent"
  /\ link = FALSE /\ queue = FALSE /\ carrier = FALSE
  /\ xmit = [pc |-> "idle", units |-> 0] /\ isr = NoIrq
  /\ connected \in Cables /\ pending = {} /\ mask = FALSE
  /\ sendHead = 0 /\ sendTail = 0 /\ sent = <<>>
  /\ head = 0 /\ tail = 0 /\ rcvd = <<>>
  /\ present = FALSE /\ kicked = FALSE /\ wanted = FALSE
  /\ overtaken = FALSE /\ late = FALSE /\ asleep = FALSE

-----------------------------------------------------------------------------
(* Rings.                                                                  *)

Used(from, to) == (to - from) % Wrap
Past(offset, units) == (offset + units) % Wrap

\* Where in the buffer a packet lies.
Place(offset) == offset % Units

\* NET_PACKET_RX_SIZE: the host may give every packet the same room.
RxSize(p) == IF p.fixed THEN Fixed ELSE p.units

-----------------------------------------------------------------------------
(* pvmnet_pci_init, and pvmnet_pci_remove of a closed device.              *)

PciInit ==
  /\ phase = "absent" /\ phase' = "closed"
  /\ UNCHANGED <<link, overtaken, late, asleep, queue, carrier, xmit, isr, device, rings, host>>

PciRemove ==
  /\ phase = "closed" /\ phase' = "absent"
  /\ UNCHANGED <<link, overtaken, late, asleep, queue, carrier, xmit, isr, device, rings, host>>

-----------------------------------------------------------------------------
(* pvmnet_open.                                                            *)

\* Reading the status masks the interrupt if there was an event.
Open ==
  /\ phase = "closed" /\ phase' = "request"
  /\ link' = connected
  /\ pending' = {} /\ mask' = (mask /\ pending = {})
  /\ asleep' = (asleep \/ "received" \in pending)
  /\ overtaken' = FALSE
  /\ UNCHANGED <<late, queue, carrier, xmit, isr, connected, rings, host>>

RequestIrq ==
  /\ phase = "request"
  /\ phase' \in {"enable", "closed"}
  /\ UNCHANGED <<link, overtaken, late, asleep, queue, carrier, xmit, isr, device, rings, host>>

Enable ==
  /\ phase = "enable" /\ phase' = "start"
  /\ mask' = TRUE /\ late' = FALSE
  /\ UNCHANGED <<link, overtaken, asleep, queue, carrier, xmit, isr, connected, pending, rings, host>>

StartQueue ==
  /\ phase = "start" /\ phase' = "carrier"
  /\ queue' = TRUE
  /\ UNCHANGED <<link, overtaken, late, asleep, carrier, xmit, isr, device, rings, host>>

SetCarrier ==
  /\ phase = "carrier" /\ phase' = "open"
  /\ carrier' = link /\ link' = FALSE
  /\ UNCHANGED <<overtaken, late, asleep, queue, xmit, isr, device, rings, host>>

-----------------------------------------------------------------------------
(* pvmnet_close.                                                           *)

\* Seeded fault: the interrupt stays enabled.
Close_Enabled ==
  /\ phase = "open" /\ phase' = "stop" /\ xmit.pc = "idle"
  /\ late' = (isr.pc # "idle")
  /\ UNCHANGED <<link, overtaken, asleep, queue, carrier, xmit, isr, device, rings, host>>

Close ==
  /\ phase = "open" /\ phase' = "stop" /\ xmit.pc = "idle"
  /\ mask' = FALSE
  /\ late' = (isr.pc # "idle")
  /\ UNCHANGED <<link, overtaken, asleep, queue, carrier, xmit, isr, connected, pending, rings, host>>

StopDevice ==
  /\ phase = "stop" /\ phase' = "sync"
  /\ queue' = FALSE /\ carrier' = FALSE
  /\ UNCHANGED <<link, overtaken, late, asleep, xmit, isr, device, rings, host>>

\* synchronize_irq and free_irq wait for the handler.
FreeIrq ==
  /\ phase = "sync" /\ isr.pc = "idle" /\ phase' = "closed"
  /\ overtaken' = FALSE
  /\ UNCHANGED <<link, late, asleep, queue, carrier, xmit, isr, device, rings, host>>

-----------------------------------------------------------------------------
(* pvmnet_xmit.                                                            *)

\* io_write_data: whether there is room.
Look(units) ==
  /\ phase = "open" /\ queue /\ xmit.pc = "idle"
  /\ xmit' = IF units > Units - Used(sendHead, sendTail) THEN [pc |-> "full", units |-> 0]
             ELSE [pc |-> "write", units |-> units]
  /\ UNCHANGED <<netdev, queue, carrier, isr, device, rings, host>>

Goto(pc) == xmit' = [xmit EXCEPT !.pc = pc]
Done     == xmit' = [pc |-> "idle", units |-> 0]

\* The packet, then the offset that shows it to the host.
Write ==
  /\ xmit.pc = "write" /\ xmit' = [pc |-> "flag", units |-> 0]
  /\ sendTail' = Past(sendTail, xmit.units)
  /\ sent' = Append(sent, [at |-> sendTail, units |-> xmit.units, fixed |-> FALSE])
  /\ UNCHANGED <<netdev, queue, carrier, isr, device, sendHead, head, tail, rcvd, host>>

ReadFlag ==
  /\ xmit.pc = "flag"
  /\ IF present THEN Done ELSE Goto("set")
  /\ UNCHANGED <<netdev, queue, carrier, isr, device, rings, host>>

SetFlag ==
  /\ xmit.pc = "set" /\ Goto("flush")
  /\ present' = TRUE
  /\ UNCHANGED <<netdev, queue, carrier, isr, device, rings, kicked, wanted>>

Flush ==
  /\ xmit.pc = "flush" /\ Done
  /\ kicked' = TRUE
  /\ UNCHANGED <<netdev, queue, carrier, isr, device, rings, present, wanted>>

\* Seeded fault: the host is told before the queue is stopped.
StopQueue_Late ==
  \/ /\ xmit.pc = "full" /\ Goto("notify")
     /\ wanted' = TRUE
     /\ UNCHANGED <<netdev, queue, carrier, isr, device, rings, present, kicked>>
  \/ /\ xmit.pc = "notify" /\ Done
     /\ queue' = FALSE
     /\ UNCHANGED <<netdev, carrier, isr, device, rings, host>>

\* The core keeps the packet and calls again once the queue runs.
StopQueue ==
  /\ xmit.pc = "full" /\ Goto("notify")
  /\ queue' = FALSE
  /\ UNCHANGED <<netdev, carrier, isr, device, rings, host>>

Notify ==
  /\ xmit.pc = "notify" /\ Done
  /\ wanted' = TRUE
  /\ UNCHANGED <<netdev, queue, carrier, isr, device, rings, present, kicked>>

-----------------------------------------------------------------------------
(* pvmnet_interrupt.                                                       *)

Irq(pc) == isr' = [isr EXCEPT !.pc = pc]

Requested == phase \notin {"absent", "closed", "request"}

Interrupt ==
  /\ Requested /\ isr.pc = "idle" /\ pending # {}
  /\ isr' = [pc |-> "events", status |-> pending, up |-> connected /\ "cable" \in pending, offset |-> 0]
  /\ pending' = {} /\ mask' = FALSE
  /\ late' = (late \/ phase \in {"stop", "sync"})
  /\ UNCHANGED <<phase, link, overtaken, asleep, queue, carrier, xmit, connected, rings, host>>

SeeEvents ==
  /\ isr.pc = "events"
  /\ IF "cable" \in isr.status
     THEN /\ carrier' = isr.up
          /\ queue' = (isr.up \/ "space" \in isr.status)
          /\ overtaken' = (phase \in {"enable", "start", "carrier"})
     ELSE /\ queue' = (queue \/ "space" \in isr.status)
          /\ UNCHANGED <<carrier, overtaken>>
  /\ isr' = IF "received" \in isr.status THEN [NoIrq EXCEPT !.pc = "read", !.offset = head]
            ELSE [NoIrq EXCEPT !.pc = "enable"]
  /\ UNCHANGED <<phase, link, late, asleep, xmit, device, rings, host>>

\* Seeded fault: a packet is passed as if the host had given it its own size.
ReadPacket_Own ==
  /\ isr.pc = "read" /\ isr.offset # tail
  /\ \E i \in DOMAIN rcvd :
       /\ Place(rcvd[i].at) = Place(isr.offset)
       /\ isr' = [isr EXCEPT !.offset = Past(@, rcvd[i].units)]
  /\ UNCHANGED <<netdev, queue, carrier, xmit, device, rings, host>>

\* One packet: it is given to the core, or dropped for its size or for lack of
\* memory; the offset moves by what the host gave it.
ReadPacket ==
  /\ isr.pc = "read" /\ isr.offset # tail
  /\ \E i \in DOMAIN rcvd :
       /\ Place(rcvd[i].at) = Place(isr.offset)
       /\ isr' = [isr EXCEPT !.offset = Past(@, RxSize(rcvd[i]))]
  /\ UNCHANGED <<netdev, queue, carrier, xmit, device, rings, host>>

AllRead ==
  /\ isr.pc = "read" /\ isr.offset = tail /\ Irq("move")
  /\ UNCHANGED <<netdev, queue, carrier, xmit, device, rings, host>>

\* What lies before the new head is the host's again.  It also enables the
\* interrupt.
MoveHead ==
  /\ isr.pc = "move" /\ isr' = NoIrq
  /\ head' = isr.offset
  /\ \/ isr.offset = tail /\ rcvd' = <<>>
     \/ /\ isr.offset # tail
        /\ \E i \in DOMAIN rcvd :
             rcvd[i].at = isr.offset /\ rcvd' = SubSeq(rcvd, i, Len(rcvd))
  /\ mask' = TRUE /\ asleep' = FALSE
  /\ UNCHANGED <<phase, link, overtaken, late, queue, carrier, xmit, connected, pending,
                 sendHead, sendTail, sent, tail, host>>

\* Seeded fault: the interrupt is enabled only by the offset's move.
EnableIrq_Not ==
  /\ isr.pc = "enable" /\ isr' = NoIrq
  /\ UNCHANGED <<netdev, queue, carrier, xmit, device, rings, host>>

EnableIrq ==
  /\ isr.pc = "enable" /\ isr' = NoIrq
  /\ mask' = TRUE
  /\ UNCHANGED <<netdev, queue, carrier, xmit, connected, pending, rings, host>>

-----------------------------------------------------------------------------
(* The host.                                                               *)

Cable ==
  /\ connected' \in Cables \ {connected}
  /\ pending' = pending \cup {"cable"}
  /\ UNCHANGED <<netdev, queue, carrier, xmit, isr, mask, rings, host>>

Receive(p) ==
  /\ phase # "absent" /\ p.at = tail /\ RxSize(p) <= Units - Used(head, tail)
  /\ tail' = Past(tail, RxSize(p))
  /\ rcvd' = Append(rcvd, p)
  /\ pending' = pending \cup {"received"}
  /\ UNCHANGED <<netdev, queue, carrier, xmit, isr, connected, mask, sendHead, sendTail, sent, head, host>>

Send ==
  /\ kicked /\ sent # <<>>
  /\ sendHead' = Past(sendHead, Head(sent).units) /\ sent' = Tail(sent)
  /\ UNCHANGED <<netdev, queue, carrier, xmit, isr, device, sendTail, head, tail, rcvd, host>>

\* Having sent everything, it wants to be told of the next packet.
Rest ==
  /\ kicked /\ sent = <<>>
  /\ present' = FALSE /\ kicked' = FALSE
  /\ UNCHANGED <<netdev, queue, carrier, xmit, isr, device, rings, wanted>>

TellSpace ==
  /\ wanted /\ Used(sendHead, sendTail) < Units
  /\ wanted' = FALSE
  /\ pending' = pending \cup {"space"}
  /\ UNCHANGED <<netdev, queue, carrier, xmit, isr, connected, mask, rings, present, kicked>>

-----------------------------------------------------------------------------
Handler == SeeEvents \/ ReadPacket \/ AllRead \/ MoveHead \/ EnableIrq
Xmit    == Write \/ ReadFlag \/ SetFlag \/ Flush \/ StopQueue \/ Notify
OpenClose ==
  \/ Open \/ RequestIrq \/ Enable \/ StartQueue \/ SetCarrier
  \/ Close \/ StopDevice \/ FreeIrq

Next ==
  \/ PciInit \/ PciRemove \/ OpenClose
  \/ \E units \in SendSizes : Look(units)
  \/ Xmit \/ Interrupt \/ Handler
  \/ Cable \/ Send \/ Rest \/ TellSpace
  \/ \E p \in Receives : Receive(p)

Spec == Init /\ [][Next]_vars

\* Handlers and calls in progress go on; the device interrupts when it may;
\* the host sends what it is kicked for and tells of space it was asked for.
FairSpec ==
  /\ Spec
  /\ WF_vars(Xmit) /\ WF_vars(Handler)
  /\ WF_vars(mask /\ Interrupt)
  /\ WF_vars(Send \/ Rest) /\ WF_vars(TellSpace)

-----------------------------------------------------------------------------
(* Properties.                                                             *)

\* The packets of a ring fill it from head to tail, each where the one before
\* ends; none lies on another, and the one that passes the end fits into the
\* room behind it.
Sound(from, to, ring) ==
  /\ Used(from, to) <= Units
  /\ from = IF ring = <<>> THEN to ELSE ring[1].at
  /\ \A i \in DOMAIN ring :
       /\ Past(ring[i].at, RxSize(ring[i])) = IF i = Len(ring) THEN to ELSE ring[i + 1].at
       /\ Place(ring[i].at) + RxSize(ring[i]) <= Units + TailRoom
       /\ \A j \in DOMAIN ring \ {i} :
            \/ Place(ring[i].at) + RxSize(ring[i]) <= Place(ring[j].at)
            \/ Place(ring[j].at) + RxSize(ring[j]) <= Place(ring[i].at)

\* Whatever is sent and received, and wherever offsets wrap: no packet is
\* written over one that was not taken, and the handler reads packets only
\* where they begin (pvmnet_hw.h:57-88, 106-162, pvmnet.c:258-297).
RingsSound ==
  /\ TypeOK
  /\ Sound(sendHead, sendTail, sent)
  /\ Sound(head, tail, rcvd)
  /\ isr.pc \in {"read", "move"} =>
       isr.offset = tail \/ \E i \in DOMAIN rcvd : rcvd[i].at = isr.offset

\* Nobody waits for an event that was taken already: the host is at the packets
\* it has, or is about to be kicked; with no handler running, the device may
\* interrupt, a received packet is pending, and so is, with the cable
\* connected, the end of the wait for space.  Only a received packet whose
\* event was taken by open waits for the next one (pvmnet.c:225-333, 361).
NoneAsleep ==
  /\ sent # <<>> => kicked \/ xmit.pc \in {"flag", "set", "flush"}
  /\ phase = "open" /\ isr.pc = "idle" =>
       /\ mask
       /\ rcvd # <<>> => asleep \/ "received" \in pending
       /\ ~queue /\ connected => xmit.pc = "notify" \/ wanted \/ pending \cap {"space", "cable"} # {}

\* Once open, the carrier is the cable's unless a change is pending or the
\* handler has seen one while open was still setting it; once closed, the
\* device does not interrupt, and has neither queue nor carrier, unless the
\* handler ran meanwhile (pvmnet.c:237-247, 361-375, 382-388).
InStep ==
  /\ phase = "open" /\ isr.pc = "idle" /\ "cable" \notin pending /\ ~overtaken => carrier = connected
  /\ phase \in {"absent", "closed"} /\ ~late => ~mask /\ ~queue /\ ~carrier

\* A queue that was stopped runs again, unless the device is closed or the
\* cable pulled (pvmnet.c:249-250, 318-322).
QueueWoken == (phase = "open" /\ ~queue) ~> (queue \/ phase # "open" \/ ~connected)
=============================================================================
