---------------------------- MODULE MassStorage ----------------------------
(***************************************************************************)
(* The device (ScsiPoll over BulkOnly) against a USB host that runs the   *)
(* Bulk-Only protocol: it sends a CBW, moves the data of the data stage,  *)
(* then reads a 13-byte CSW.  The host is the environment; it follows the *)
(* USB Mass Storage Bulk-Only Transport spec rev. 1.0 as a host driver    *)
(* such as Linux usb-storage does:                                         *)
(*  - a STALL on bulk-out during the data stage: clear the halt, go to    *)
(*    the status stage; a STALL on bulk-in: clear the halt and (again)    *)
(*    read the CSW;                                                        *)
(*  - the data-in stage ends after dCBWDataTransferLength bytes or a short *)
(*    packet; more bytes than that is babble;                              *)
(*  - the status stage ends after 13 bytes or a short packet; anything but *)
(*    one CSW carrying the CBW's tag is an invalid CSW;                    *)
(*  - babble, an invalid CSW, a stalled CBW or a timeout lead to reset     *)
(*    recovery, modelled as a bus reset (Transport::reset via usb-device). *)
(***************************************************************************)
EXTENDS Rp2040Example, GenericUser

CONSTANTS HostCbws,   \* HostCbws[f]: the CBWs [valid, len, dirIn, cmd] the host
                      \* may send to firmware f; its domain is the firmwares
                      \* to check: "scsi", "ufi", "rp2040", "rp2040_static"
                      \* (examples-rp2040) or "user"
          MaxCmds,    \* bound on the number of commands the host sends
          MaxResets   \* bound on the number of bus resets

VARIABLES hphase,  \* "Cmd", "DataOut", "DataIn", "Status", "Recover"
          htag,    \* tag of the last CBW sent (the host counts commands)
          hcbw,    \* the last CBW sent
          hq,      \* packets the host still has to send on bulk-out
          hmoved,  \* data bytes moved in this data stage (acked or received)
          hcsw,    \* bytes read so far in the status stage
          hlast,   \* how the last command ended, as the host saw it
          resets,  \* bus resets so far
          fw       \* the firmware this behaviour runs (flashed once)

hvars == <<hphase, htag, hcbw, hq, hmoved, hcsw, hlast, resets>>
vars == <<tvars, pvars, hvars, fw>>

NoResult == [tag |-> 0, end |-> "None", residue |-> 0, hi |-> 0, moved |-> 0,
             dirIn |-> FALSE]

\* Split n bytes of object o into bulk packets.
Packets(o, n) ==
    [i \in 1..((n + PacketSize - 1) \div PacketSize) |->
        Run(o, MinNat(PacketSize, n - (i - 1) * PacketSize))]

IsData(pkt) == pkt[1].obj.t = "HDATA"

Init ==
    /\ TransportInit
    /\ PollInit
    /\ hphase = "Cmd" /\ htag = 0 /\ hcbw = NoCbw /\ hq = <<>>
    /\ hmoved = 0 /\ hcsw = <<>> /\ hlast = NoResult /\ resets = 0
    /\ fw \in DOMAIN HostCbws

---------------------------------------------------------------------------
(* Host actions.                                                           *)

HostIssue ==
    /\ hphase = "Cmd" /\ htag < MaxCmds
    /\ \E c \in HostCbws[fw] :
         /\ hcbw' = c
         /\ htag' = htag + 1
         /\ hq' = Packets(CbwObj(htag + 1, c), CBW_LEN)
                  \o IF ~c.dirIn /\ c.len > 0
                     THEN Packets(HostData(htag + 1), c.len) ELSE <<>>
         /\ hphase' = IF c.len = 0 THEN "Status"
                      ELSE IF c.dirIn THEN "DataIn" ELSE "DataOut"
    /\ hmoved' = 0 /\ hcsw' = <<>>
    /\ UNCHANGED <<hlast, resets, fw, tvars, pvars>>

\* The next bulk-out packet is accepted into the device's OUT FIFO.
HostSend ==
    /\ hq # <<>> /\ ~out_stalled /\ Len(out_ep) < EpSlots
    /\ out_ep' = Append(out_ep, Head(hq))
    /\ hq' = Tail(hq)
    /\ hmoved' = hmoved + IF IsData(Head(hq)) THEN SegsLen(Head(hq)) ELSE 0
    /\ hphase' = IF hphase = "DataOut" /\ Tail(hq) = <<>> THEN "Status"
                 ELSE hphase
    /\ UNCHANGED <<htag, hcbw, hcsw, hlast, resets, fw, pvars,
                   state, buf, cbw, cs, in_ep, in_stalled, out_stalled,
                   ret, panicked>>

\* Bulk-out answers STALL: end the data stage with CLEAR_FEATURE(HALT)
\* (handled by usb-device, which only unstalls the endpoint); a stalled
\* CBW needs reset recovery.
HostOutHalted ==
    /\ hq # <<>> /\ out_stalled
    /\ IF IsData(Head(hq))
       THEN /\ out_stalled' = FALSE /\ hq' = <<>> /\ hphase' = "Status"
       ELSE /\ hphase' = "Recover" /\ UNCHANGED <<out_stalled, hq>>
    /\ UNCHANGED <<htag, hcbw, hmoved, hcsw, hlast, resets, fw, pvars,
                   state, buf, cbw, cs, in_ep, out_ep, in_stalled, ret,
                   panicked>>

\* How a status stage that read the bytes c ends.
CswGood(c) ==
    /\ Len(c) = 1 /\ c[1].len = CSW_LEN
    /\ c[1].obj.t = "CSW" /\ c[1].obj.tag = htag
Finish(c) ==
    [tag |-> htag, hi |-> hcbw.len, moved |-> hmoved, dirIn |-> hcbw.dirIn,
     end |-> IF CswGood(c) THEN "Csw" ELSE "BadCsw",
     residue |-> IF CswGood(c) THEN c[1].obj.residue ELSE 0]

\* A bulk-in packet is taken from the device's IN FIFO.
HostReceive ==
    /\ hq = <<>> /\ hphase \in {"DataIn", "Status"}
    /\ ~in_stalled /\ in_ep # <<>>
    /\ in_ep' = Tail(in_ep)
    /\ LET pkt == Head(in_ep)
           n == SegsLen(pkt)
           c == Concat(hcsw, pkt)
       IN  IF hphase = "DataIn"
           THEN IF hmoved + n > hcbw.len
                THEN /\ hlast' = [Finish(<<>>) EXCEPT !.end = "Babble"]
                     /\ hphase' = "Recover"
                     /\ UNCHANGED <<hmoved, hcsw>>
                ELSE /\ hmoved' = hmoved + n
                     /\ hphase' = IF hmoved + n = hcbw.len \/ n < PacketSize
                                  THEN "Status" ELSE "DataIn"
                     /\ UNCHANGED <<hcsw, hlast>>
           ELSE IF SegsLen(c) >= CSW_LEN \/ n < PacketSize
                THEN /\ hlast' = Finish(c)
                     /\ hphase' = IF CswGood(c) THEN "Cmd" ELSE "Recover"
                     /\ hcsw' = <<>>
                     /\ UNCHANGED hmoved
                ELSE /\ hcsw' = c
                     /\ UNCHANGED <<hphase, hmoved, hlast>>
    /\ UNCHANGED <<htag, hcbw, hq, resets, fw, pvars,
                   state, buf, cbw, cs, out_ep, in_stalled, out_stalled,
                   ret, panicked>>

\* Bulk-in answers STALL: clear the halt; the data stage is over.
HostInHalted ==
    /\ hq = <<>> /\ hphase \in {"DataIn", "Status"}
    /\ in_stalled
    /\ in_stalled' = FALSE
    /\ hphase' = "Status"
    /\ UNCHANGED <<htag, hcbw, hq, hmoved, hcsw, hlast, resets, fw, pvars,
                   state, buf, cbw, cs, in_ep, out_ep, out_stalled, ret,
                   panicked>>

\* The host gives up waiting (its command timeout).
HostTimeout ==
    /\ hphase \in {"DataOut", "DataIn", "Status"}
    /\ hphase' = "Recover"
    /\ hlast' = [Finish(<<>>) EXCEPT !.end = "Timeout"]
    /\ UNCHANGED <<htag, hcbw, hq, hmoved, hcsw, resets, fw, tvars, pvars>>

\* Reset recovery.  The bus reset flushes the endpoint FIFOs; usb-device
\* calls Scsi::reset -> BulkOnly::reset at the start of the main loop
\* (before scsi.poll), and the example then clears its STATE.
BusReset ==
    /\ hphase = "Recover" /\ resets < MaxResets
    /\ pc = "read" /\ ~panicked
    /\ reset
    /\ in_ep' = <<>> /\ out_ep' = <<>>
    /\ offset' = 0
    /\ hphase' = "Cmd" /\ hq' = <<>> /\ hcsw' = <<>>
    /\ resets' = resets + 1
    /\ UNCHANGED <<htag, hcbw, hmoved, hlast, ret, panicked, pc, kind, fw>>

Host == HostIssue \/ HostSend \/ HostOutHalted \/ HostReceive
        \/ HostInHalted \/ HostTimeout \/ BusReset

\* A step of the firmware leaves the host alone.
Device ==
    /\ \/ fw = "scsi" /\ Poll(process_command)
       \/ fw = "ufi" /\ ufi_poll
       \/ fw = "rp2040" /\ Poll(rp2040_process_command)
       \/ fw = "rp2040_static" /\ Poll(rp2040_static_process_command)
       \/ fw = "user" /\ Poll(user_process_command)
    /\ UNCHANGED <<hvars, fw>>

Next == Device \/ Host

(* poll is called from the firmware's main loop forever, so its steps are *)
(* weakly fair; the host controller keeps moving packets and clearing      *)
(* halts.  Issuing commands and timing out are the host's choice.         *)
Fairness ==
    /\ WF_vars(Device)
    /\ WF_vars(HostSend) /\ WF_vars(HostReceive)
    /\ WF_vars(HostOutHalted) /\ WF_vars(HostInHalted)
    /\ SF_vars(BusReset)

Spec == Init /\ [][Next]_vars /\ Fairness

---------------------------------------------------------------------------
(* Properties.                                                             *)

HostPhases == {"Cmd", "DataOut", "DataIn", "Status", "Recover"}
Busy == {"DataOut", "DataIn", "Status"}

PacketOK(p) == SegsLen(p) \in 1..PacketSize

TypeOK ==
    /\ state \in States
    /\ 0 <= buf.rpos /\ buf.rpos <= buf.wpos /\ buf.wpos <= BufCap
    /\ SegsLen(buf.segs) = available_read(buf)
    /\ cs \in Statuses \cup {NoStatus}
    /\ Len(in_ep) <= EpSlots /\ Len(out_ep) <= EpSlots
    /\ \A i \in 1..Len(in_ep) : PacketOK(in_ep[i])
    /\ \A i \in 1..Len(out_ep) : PacketOK(out_ep[i])
    /\ pc \in {"read", "write", "command", "callback", "after", "read2"}
    /\ hphase \in HostPhases
    /\ htag \in 0..MaxCmds /\ resets \in 0..MaxResets
    /\ fw \in DOMAIN HostCbws

\* The host never receives more data-in bytes than dCBWDataTransferLength
\* (babble): write_data / try_write_data_all must cap what the user hands
\* them at what the host still expects.
NoBabble == hlast.end # "Babble"

\* Every status stage ends with exactly one 13-byte CSW echoing the CBW's
\* tag: handle_write_to_host's full-packet rule, the stall on residue in
\* end_data_transfer and handle_write_csw must never let data bytes and
\* CSW bytes share the status stage or split the CSW early.
CswValid == hlast.end # "BadCsw"

\* dCSWDataResidue (spec 6.7.2, 6.7.3): on data-in it is the difference
\* between dCBWDataTransferLength and the bytes the host received; on
\* data-out the device may have left accepted bytes unprocessed, but never
\* claims more than the host sent.  handle_read_from_host and
\* handle_write_to_host count every packet off cbw.data_transfer_len.
ResidueAgrees ==
    hlast.end = "Csw" =>
        IF hlast.dirIn THEN hlast.residue = hlast.hi - hlast.moved
        ELSE hlast.residue \in (hlast.hi - hlast.moved)..hlast.hi

\* While the transport waits for a CBW (Idle, CommandTransfer) its buffer
\* holds only CBW bytes: no data-out byte of an earlier command is left to
\* be parsed as part of the next CBW (handle_read_cbw, end_data_transfer).
CommandPhaseClean ==
    state \in {"Idle", "CommandTransfer"} =>
        \A i \in 1..Len(buf.segs) : buf.segs[i].obj.t = "CBW"

\* Every command the host starts ends: the host gets its CSW (or decides
\* on reset recovery) without having to time out, given that poll keeps
\* being called.
CommandCompletes == (hphase \in Busy) ~> (hphase \in {"Cmd", "Recover"})

\* The firmware never panics (set_status unwraps end_data_transfer).
NoPanic == ~panicked

---------------------------------------------------------------------------
(* Refinement: BulkOnly implements the command cycle of BotCycle.  Idle   *)
(* and CommandTransfer wait for a CBW, the three DataTransfer states are  *)
(* the data stage, StatusTransfer the status stage; the command's tag is  *)
(* cbw.tag (0 in CommandBlockWrapper::default()), its status cs, and the  *)
(* resets are the host's bus resets.                                       *)
PhaseOf(s) ==
    CASE s \in {"Idle", "CommandTransfer"} -> "Command"
      [] s \in DataStates                   -> "Data"
      [] s = "StatusTransfer"               -> "Status"

Cycle == INSTANCE BotCycle
             WITH phase <- PhaseOf(state), tag <- cbw.tag, status <- cs,
                  epoch <- resets, Tags <- Nat, NoTag <- 0

\* The transport goes through the BOT command cycle: the data stage starts
\* only from a CBW, keeps the CBW's tag, gets one status, which pass() or
\* fail() sets and nothing changes before the CSW is sent, and ends only
\* in the status stage or by a bus reset (handle_read_cbw,
\* set_status, check_end_data_transfer, end_data_transfer,
\* handle_write_csw).
ImplementsBotCycle == Cycle!Spec

=============================================================================
