--------------------------- MODULE MCMassStorage ---------------------------
(* Model of MassStorage for TLC: for each example firmware checked, a    *)
(* host that sends it commands whose dCBWDataTransferLength agrees with   *)
(* the command (Hi = Di / Ho = Do), one of each kind the firmware handles *)
(* differently, or the one command a finding is about.                   *)
EXTENDS MassStorage, TLC

Cmd(op, n) == [op |-> op, dlen |-> n]
Cbw(l, in, c) == [valid |-> TRUE, len |-> l, dirIn |-> in, cmd |-> c]

\* The SCSI example: TEST UNIT READY; a fixed 12-byte reply (READ FORMAT
\* CAPACITIES); READ and WRITE of 16 bytes; an unsupported command without
\* data and one expecting data in.
ScsiCbws ==
    { Cbw(0, FALSE, Cmd("TestUnitReady", 0)),
      Cbw(12, TRUE, Cmd("Inquiry", 12)),
      Cbw(16, TRUE, Cmd("Read", 16)),
      Cbw(16, FALSE, Cmd("Write", 16)),
      Cbw(0, FALSE, Cmd("Unknown", 0)),
      Cbw(8, TRUE, Cmd("Unknown", 0)) }

\* An unsupported command with a data-out stage, which the example fails at
\* once, while the host may already have data packets in the OUT FIFO.
OutCbws == { Cbw(16, FALSE, Cmd("Unknown", 0)) }

\* The UFI example's commands with Hi = Di: a fixed 12-byte reply, a
\* command that passes, a READ of two 8-byte blocks from the image, and an
\* unknown command.
UfiCbws ==
    { Cbw(12, TRUE, Cmd("Inquiry", 12)),
      Cbw(0, FALSE, Cmd("TestUnitReady", 0)),
      Cbw(16, TRUE, Cmd("ReadDump", 16)),
      Cbw(0, FALSE, Cmd("Unknown", 0)) }

\* The rp2040 examples' commands with Hi = Di / Ho = Do, BLOCK_SIZE equal
\* to the buffer size as in the firmware: READ of one block, WRITE of two,
\* a fixed reply and an unknown command.
Rp2040Cbws ==
    { Cbw(32, TRUE, Cmd("Read", 32)),
      Cbw(64, FALSE, Cmd("Write", 64)),
      Cbw(12, TRUE, Cmd("Inquiry", 12)),
      Cbw(0, FALSE, Cmd("Unknown", 0)) }

\* READ CAPACITY(16) with its 32-byte allocation length.
Rc16Cbw == Cbw(32, TRUE, Cmd("ReadCapacity16", 32))

\* The SCSI and UFI examples, each with its commands of Hi = Di / Ho = Do.
MCHostCbws == ("scsi" :> ScsiCbws) @@ ("ufi" :> UfiCbws)

\* The UFI example alone (MCUfi.cfg, a quicker look at UFI than the main
\* configuration).
MCHostCbwsUfi == "ufi" :> UfiCbws

\* The SCSI example with only the failed data-out command (its stale bytes
\* would be parsed as the next CBW, so it runs alone, with one command).
MCHostCbwsOut == "scsi" :> OutCbws

\* READ whose dCBWDataTransferLength is shorter than the 16 bytes the
\* command block asks for (case 7, Hi < Di).
MCHostCbwsHiLtDi == "scsi" :> { Cbw(12, TRUE, Cmd("Read", 16)) }

\* READ whose dCBWDataTransferLength is longer than the 8 bytes the
\* command block asks for (case 5, Hi > Di).
MCHostCbwsHiGtDi == "scsi" :> { Cbw(16, TRUE, Cmd("Read", 8)) }

\* A UFI READ of two blocks beyond the image (lba >= 0xCE), Hi = Di, with
\* the firmware's BLOCK_SIZE equal to the buffer size.
MCHostCbwsUfiFill == "ufi" :> { Cbw(64, TRUE, Cmd("ReadFill", 64)) }

\* Both rp2040 examples; examples-rp2040 also gets READ CAPACITY(16), which
\* it fails as unknown.
MCHostCbwsRp2040 ==
    ("rp2040" :> Rp2040Cbws) @@ ("rp2040_static" :> (Rp2040Cbws \cup {Rc16Cbw}))

\* Both rp2040 examples as above, and the user callback whose READ fails
\* after part of its data (MCHostCbwsReadError), in one run: each may stop
\* in a panic, so the run checks what holds up to it.
MCHostCbwsRp2040User ==
    MCHostCbwsRp2040 @@ ("user" :> { Cbw(16, TRUE, Cmd("ReadError", 8)) })

\* The examples/rp2040 WRITE of two blocks alone.
MCHostCbwsRp2040Write == "rp2040" :> { Cbw(64, FALSE, Cmd("Write", 64)) }

\* A READ of 16 bytes whose medium error shows after 8 bytes.
MCHostCbwsReadError == "user" :> { Cbw(16, TRUE, Cmd("ReadError", 8)) }

\* A CBW that fails the signature or bCBWCBLength check (spec 6.6.1).
MCHostCbwsInvalid ==
    "scsi" :> { [valid |-> FALSE, len |-> 0, dirIn |-> FALSE,
                 cmd |-> Cmd("Unknown", 0)] }

=============================================================================
