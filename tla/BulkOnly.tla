------------------------------ MODULE BulkOnly ------------------------------
(***************************************************************************)
(* The Bulk Only Transport of src/src/transport/bbb.rs: the state machine *)
(* BulkOnly, its IO buffer and the two bulk endpoints it drives.           *)
(*                                                                         *)
(* The endpoints are the hardware FIFOs between the transport and the     *)
(* host: out_ep holds the packets the host has sent and the device has    *)
(* not read yet, in_ep the packets the device has written and the host    *)
(* has not taken yet; each holds at most EpSlots packets (in_ep.write and *)
(* out_ep.read return WouldBlock when full / empty).  A packet is a        *)
(* sequence of runs (see Buffer) of at most PacketSize bytes.              *)
(*                                                                         *)
(* Every public method of BulkOnly is an action; ret is the value the     *)
(* last call of read() or write() returned, which the poll loop branches  *)
(* on.  Helpers that the methods call are operators with the intermediate *)
(* values as parameters, so that a method is one step, as in the code.    *)
(***************************************************************************)
EXTENDS Buffer

CONSTANTS PacketSize,  \* max_packet_size of both bulk endpoints
          EpSlots      \* packets an endpoint FIFO can hold

ASSUME PacketSize \in {8, 16, 32, 64}
ASSUME BufCap >= 31 /\ BufCap >= PacketSize   \* checked by BulkOnly::new
ASSUME EpSlots \in Nat \ {0}

VARIABLES state, buf, cbw, cs,            \* fields of BulkOnly
          in_ep, out_ep,                  \* endpoint FIFOs
          in_stalled, out_stalled,        \* endpoint halt features
          ret,                            \* result of the last read()/write()
          panicked                        \* a panic stopped the firmware

tvars == <<state, buf, cbw, cs, in_ep, out_ep, in_stalled, out_stalled,
           ret, panicked>>

CBW_LEN == 31
CSW_LEN == 13

States == {"Idle", "CommandTransfer", "DataTransferToHost",
           "DataTransferFromHost", "DataTransferNoData", "StatusTransfer"}
DataStates == {"DataTransferToHost", "DataTransferFromHost",
               "DataTransferNoData"}
Statuses == {"Passed", "Failed", "PhaseError"}
NoStatus == "None"

(* Wire objects.  A CBW as the host builds it is a record                 *)
(* [valid, len, dirIn, cmd]: valid stands for "signature is USBC and     *)
(* bCBWCBLength is in 1..16", len is dCBWDataTransferLength, dirIn bit 7 *)
(* of bmCBWFlags and cmd the command block.                               *)
CbwObj(tag, c) == [t |-> "CBW", tag |-> tag, cbw |-> c]
CswObj(tag, st, res) == [t |-> "CSW", tag |-> tag, status |-> st, residue |-> res]
HostData(tag) == [t |-> "HDATA", tag |-> tag]
DevData(tag) == [t |-> "DDATA", tag |-> tag]

\* No command block (the parsed command is abstracted, see ScsiPoll).
NoCmd == [op |-> "None", dlen |-> 0]

\* CommandBlockWrapper::default()
NoCbw == [tag |-> 0, len |-> 0, dir |-> "NotExpected", cmd |-> NoCmd]

\* Mutant of SatSub: the residue is not counted down.
SatSub_no_count(a, b) == a

SatSub(a, b) == IF a > b THEN a - b ELSE 0

---------------------------------------------------------------------------
(* CBW decoding: try_parse_cbw and CommandBlockWrapper::from_le_bytes.     *)
(* raw is the first 31 bytes of the buffer.  They are a CBW only when     *)
(* they are one whole CBW object; bytes of anything else fail the         *)
(* signature check.                                                        *)
CbwValid(raw) ==
    /\ Len(raw) = 1
    /\ raw[1].obj.t = "CBW"
    /\ raw[1].obj.cbw.valid

ParseCbw(raw) ==
    LET o == raw[1].obj
    IN  [tag |-> o.tag,
         len |-> o.cbw.len,
         dir |-> IF o.cbw.len # 0
                 THEN IF o.cbw.dirIn THEN "In" ELSE "Out"
                 ELSE "NotExpected",
         cmd |-> o.cbw.cmd]

\* enter_state: entering Idle cleans the buffer, the CBW and the status.
EnterState(s, b, c, x) ==
    /\ state' = s
    /\ IF s = "Idle"
       THEN /\ buf' = EmptyBuffer /\ cbw' = NoCbw /\ cs' = NoStatus
       ELSE /\ buf' = b /\ cbw' = c /\ cs' = x

\* start_data_transfer: the state follows the CBW direction.
start_data_transfer(b, c) ==
    EnterState(CASE c.dir = "Out" -> "DataTransferFromHost"
                 [] c.dir = "In"  -> "DataTransferToHost"
                 [] OTHER         -> "DataTransferNoData",
               b, [c EXCEPT !.len = IF c.dir = "NotExpected" THEN 0 ELSE @],
               cs)

---------------------------------------------------------------------------
(* Writing the CSW: handle_write_csw on buffer b with the IN FIFO ie.      *)
(* write_packet hands at most one packet to in_ep.write; WouldBlock when   *)
(* the FIFO is full.  Idle once the buffer is drained.                     *)
CanWritePacket(ie) == Len(ie) < EpSlots

WriteCswFrom(b, c, x, ie) ==
    IF CanWritePacket(ie)
    THEN LET pkt == Peek(b, MinNat(PacketSize, available_read(b)))
             b1  == Read(b, SegsLen(pkt))
         IN  /\ in_ep' = Append(ie, pkt)
             /\ IF available_read(b1) = 0
                THEN EnterState("Idle", b1, c, x)
                ELSE EnterState("StatusTransfer", b1, c, x)
             /\ ret' = "Ok"
    ELSE /\ in_ep' = ie
         /\ EnterState("StatusTransfer", b, c, x)
         /\ ret' = "WouldBlock"

\* Mutant of end_data_transfer: build_csw leaves dCSWDataResidue zero.
end_data_transfer_no_residue(s, c, x, ie) ==
    LET csw == Write(clean(buf), Run(CswObj(c.tag, x, 0), CSW_LEN))
    IN  /\ in_stalled' = (in_stalled \/ (c.len > 0 /\ s = "DataTransferToHost"))
        /\ out_stalled' = (out_stalled \/ (c.len > 0 /\ s = "DataTransferFromHost"))
        /\ WriteCswFrom(csw, c, x, ie)

\* end_data_transfer in state s with CBW c and status x: stall the data
\* endpoint when residue is left (spec 6.7.2, 6.7.3), replace the buffer
\* by the CSW, enter StatusTransfer and flush with write().
end_data_transfer(s, c, x, ie) ==
    LET csw == Write(clean(buf), Run(CswObj(c.tag, x, c.len), CSW_LEN))
    IN  /\ in_stalled' = (in_stalled \/ (c.len > 0 /\ s = "DataTransferToHost"))
        /\ out_stalled' = (out_stalled \/ (c.len > 0 /\ s = "DataTransferFromHost"))
        /\ WriteCswFrom(csw, c, x, ie)

\* Mutant of check_end_data_transfer: the data stage of a transfer ends
\* once the buffer is empty, whether or not a status is set.
check_end_data_transfer_no_status(s, b, c, ie) ==
    IF \/ cs # NoStatus /\ s = "DataTransferNoData"
       \/ s \in {"DataTransferFromHost", "DataTransferToHost"}
          /\ available_read(b) = 0
    THEN end_data_transfer(s, c, cs, ie)
    ELSE /\ state' = s /\ buf' = b /\ cbw' = c /\ in_ep' = ie
         /\ UNCHANGED <<cs, in_stalled, out_stalled>>
         /\ ret' = "Ok"

\* check_end_data_transfer in state s with buffer b, CBW c, IN FIFO ie.
check_end_data_transfer(s, b, c, ie) ==
    IF /\ cs # NoStatus
       /\ \/ s = "DataTransferNoData"
          \/ s \in {"DataTransferFromHost", "DataTransferToHost"}
             /\ available_read(b) = 0
    THEN end_data_transfer(s, c, cs, ie)
    ELSE /\ state' = s /\ buf' = b /\ cbw' = c /\ in_ep' = ie
         /\ UNCHANGED <<cs, in_stalled, out_stalled>>
         /\ ret' = "Ok"

---------------------------------------------------------------------------
(* read_packet: write_all(packet_size, ..) reserves a whole packet of room *)
(* (shifting, or IoBufferOverflow) and reads one packet of out_ep into it; *)
(* a count of 0 (out_ep.read gave WouldBlock) becomes Err(WouldBlock).    *)
(* The shift is done even when the read then fails.                        *)
PacketRoom == WriteAllTarget(buf, PacketSize)
ReadPacketFails ==
    /\ buf' = PacketRoom
    /\ \/ WriteAllOverflows(buf, PacketSize) /\ ret' = "IoBufferOverflow"
       \/ ~WriteAllOverflows(buf, PacketSize) /\ out_ep = <<>>
          /\ ret' = "WouldBlock"
    /\ UNCHANGED <<state, cbw, cs, in_ep, out_ep, in_stalled, out_stalled>>
ReadPacketOk == ~WriteAllOverflows(buf, PacketSize) /\ out_ep # <<>>
PacketRead == WriteAllFill(buf, PacketSize, Head(out_ep))
PacketCount == SegsLen(Head(out_ep))

\* handle_read_cbw (Idle, CommandTransfer): read a packet; once 31 bytes are
\* there, consume them as a CBW.  An invalid CBW makes the code stall both
\* endpoints and then call reset(), which unstalls both again (spec 6.6.1).
handle_read_cbw ==
    /\ state \in {"Idle", "CommandTransfer"}
    /\ \/ ReadPacketFails
       \/ /\ ReadPacketOk
          /\ out_ep' = Tail(out_ep)
          /\ ret' = "Ok"
          /\ UNCHANGED in_ep
          /\ IF available_read(PacketRead) >= CBW_LEN
             THEN LET raw == Peek(PacketRead, CBW_LEN)
                      rest == Read(PacketRead, CBW_LEN)
                  IN  IF CbwValid(raw)
                      THEN /\ start_data_transfer(rest, ParseCbw(raw))
                           /\ UNCHANGED <<in_stalled, out_stalled>>
                      ELSE /\ in_stalled' = FALSE /\ out_stalled' = FALSE
                           /\ EnterState("Idle", rest, cbw, cs)
             ELSE /\ EnterState("CommandTransfer", PacketRead, cbw, cs)
                  /\ UNCHANGED <<in_stalled, out_stalled>>

\* handle_read_from_host: read a packet unless a status is set, count it
\* off the residue, then check for the end of the data phase.  A failed
\* read_packet returns before the check.
handle_read_from_host ==
    /\ state = "DataTransferFromHost"
    /\ IF cs # NoStatus
       THEN /\ check_end_data_transfer(state, buf, cbw, in_ep)
            /\ UNCHANGED out_ep
       ELSE \/ ReadPacketFails
            \/ /\ ReadPacketOk
               /\ out_ep' = Tail(out_ep)
               /\ check_end_data_transfer(state, PacketRead,
                      [cbw EXCEPT !.len = SatSub(@, PacketCount)], in_ep)

\* handle_write_to_host: the full-packet rule.  A packet shorter than
\* PacketSize is only sent when no full one is expected any more (residue
\* below a packet, or status set); otherwise FullPacketExpected.
\* Mutant of FullPacketOrZero: short packets are always sent at once.
FullPacketOrZero_dropped == TRUE

FullPacketOrZero ==
    \/ available_read(buf) >= PacketSize
    \/ ~(cbw.len >= PacketSize /\ cs = NoStatus)

handle_write_to_host ==
    /\ state = "DataTransferToHost"
    /\ UNCHANGED out_ep
    /\ IF ~FullPacketOrZero
       THEN /\ ret' = "FullPacketExpected"
            /\ UNCHANGED <<state, buf, cbw, cs, in_ep, in_stalled, out_stalled>>
       ELSE IF available_read(buf) = 0
       THEN check_end_data_transfer(state, buf, cbw, in_ep)
       ELSE IF CanWritePacket(in_ep)
       THEN LET pkt == Peek(buf, MinNat(PacketSize, available_read(buf)))
            IN  check_end_data_transfer(state, Read(buf, SegsLen(pkt)),
                    [cbw EXCEPT !.len = SatSub(@, SegsLen(pkt))],
                    Append(in_ep, pkt))
       ELSE /\ ret' = "WouldBlock"
            /\ UNCHANGED <<state, buf, cbw, cs, in_ep, in_stalled, out_stalled>>

handle_no_data_transfer ==
    /\ state = "DataTransferNoData"
    /\ check_end_data_transfer(state, buf, cbw, in_ep)
    /\ UNCHANGED out_ep

handle_write_csw ==
    /\ state = "StatusTransfer"
    /\ WriteCswFrom(buf, cbw, cs, in_ep)
    /\ UNCHANGED <<out_ep, in_stalled, out_stalled>>

\* BulkOnly::read and BulkOnly::write: one packet in each direction.
ReadOp ==
    /\ \/ handle_read_cbw
       \/ handle_read_from_host
       \/ /\ state \notin {"Idle", "CommandTransfer", "DataTransferFromHost"}
          /\ ret' = "Ok"
          /\ UNCHANGED <<state, buf, cbw, cs, in_ep, out_ep, in_stalled, out_stalled>>
    /\ UNCHANGED panicked

WriteOp ==
    /\ \/ handle_write_csw
       \/ handle_write_to_host
       \/ handle_no_data_transfer
       \/ /\ state \in {"Idle", "CommandTransfer", "DataTransferFromHost"}
          /\ ret' = "Ok"
          /\ UNCHANGED <<state, buf, cbw, cs, in_ep, out_ep, in_stalled, out_stalled>>
    /\ UNCHANGED panicked

---------------------------------------------------------------------------
(* The methods a command callback calls.                                   *)

\* set_status: latch the status; Failed and PhaseError end the data phase
\* at once with end_data_transfer().unwrap(), which panics when the CSW
\* flush returns WouldBlock.
set_status(x) ==
    /\ IF x \in {"Failed", "PhaseError"}
       THEN /\ end_data_transfer(state, cbw, x, in_ep)
            /\ panicked' = ~CanWritePacket(in_ep)
       ELSE /\ cs' = x
            /\ UNCHANGED <<state, buf, cbw, in_ep, in_stalled, out_stalled,
                           ret, panicked>>
    /\ UNCHANGED out_ep

\* get_command returns Some only in the data and status states.
HasCommand == state \notin {"Idle", "CommandTransfer"}

\* read_data(dst) with dst.len() = n: state must be DataTransferFromHost;
\* the closure copies the whole readable slice into dst[..min(n,
\* available)], so copy_from_slice panics on the length mismatch when the
\* buffer holds more than n bytes, and otherwise reads all of them.
ReadDataPanics(n) == available_read(buf) > n
ReadDataCount(n) == MinNat(n, available_read(buf))
ReadDataBuf(n) == Read(buf, ReadDataCount(n))

\* write_data(src) of n bytes: state must be DataTransferToHost with no
\* status; writes src[..min(n, residue)] into the buffer.
CanWriteData == state = "DataTransferToHost" /\ cs = NoStatus
WriteDataSrc(n) == Run(DevData(cbw.tag), MinNat(n, cbw.len))
WriteDataCount(n) == WriteCount(buf, WriteDataSrc(n))
WriteDataBuf(n) == Write(buf, WriteDataSrc(n))

\* try_write_data_all(src) of n bytes: all of it or IoBufferOverflow (the
\* buffer may still have been shifted).
TryWriteAllFits(n) == ~WriteAllOverflows(buf, n)
TryWriteAllBuf(n) ==
    IF TryWriteAllFits(n)
    THEN WriteAllFill(buf, n, Run(DevData(cbw.tag), n))
    ELSE WriteAllTarget(buf, n)

\* Transport::reset: unstall both endpoints and go Idle.
reset ==
    /\ in_stalled' = FALSE
    /\ out_stalled' = FALSE
    /\ EnterState("Idle", buf, cbw, cs)

TransportInit ==
    /\ state = "Idle"
    /\ buf = EmptyBuffer
    /\ cbw = NoCbw
    /\ cs = NoStatus
    /\ in_ep = <<>> /\ out_ep = <<>>
    /\ in_stalled = FALSE /\ out_stalled = FALSE
    /\ ret = "Ok"
    /\ panicked = FALSE

=============================================================================
