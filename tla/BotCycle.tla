------------------------------ MODULE BotCycle ------------------------------
(***************************************************************************)
(* What the Bulk-Only Transport promises its user and the host, one       *)
(* command at a time (BOT 1.0, 5 and 6): a command is accepted from a     *)
(* CBW, carries the CBW's tag through its data stage, gets exactly one    *)
(* status, and ends with the status stage; a reset may end it at any     *)
(* point.  Nothing of packets, buffers or endpoints is left.              *)
(*                                                                         *)
(* phase is "Command" (waiting for a CBW), "Data" or "Status" (the CSW is *)
(* being sent); tag is the tag of the current command (NoTag between     *)
(* commands) and status its status (NoStatus until one is set); epoch   *)
(* counts the resets, so that a command ended by a reset is told apart   *)
(* from one that completed.                                               *)
(***************************************************************************)
EXTENDS Naturals

CONSTANTS Tags,       \* the tags a CBW may carry
          NoTag,      \* the tag between commands
          NoStatus    \* no status set yet

Statuses == {"Passed", "Failed", "PhaseError"}

VARIABLES phase, tag, status, epoch

avars == <<phase, tag, status, epoch>>

Idle == phase' = "Command" /\ tag' = NoTag /\ status' = NoStatus

Init == phase = "Command" /\ tag = NoTag /\ status = NoStatus /\ epoch = 0

\* A valid CBW starts a command with its tag.
Accept ==
    /\ phase = "Command"
    /\ phase' = "Data" /\ tag' \in Tags /\ status' = NoStatus
    /\ UNCHANGED epoch

\* The user passes the command; the data stage goes on until the data the
\* user queued or the host sent is through.
Pass ==
    /\ phase = "Data" /\ status = NoStatus
    /\ status' = "Passed"
    /\ UNCHANGED <<phase, tag, epoch>>

\* The status stage starts with the status the user set, or at once with
\* a failure the user reports.
Conclude ==
    /\ phase = "Data" /\ status # NoStatus
    /\ phase' = "Status" /\ UNCHANGED <<tag, status, epoch>>
Abort ==
    /\ phase = "Data" /\ status = NoStatus
    /\ phase' = "Status" /\ status' \in Statuses \ {"Passed"}
    /\ UNCHANGED <<tag, epoch>>

\* The CSW has been sent; the next CBW may come.
Complete == phase = "Status" /\ Idle /\ UNCHANGED epoch

\* Both of the above in one step: a CSW that fits in one packet is sent by
\* the call that ends the data stage.
ConcludeAndComplete ==
    phase = "Data" /\ status # NoStatus /\ Idle /\ UNCHANGED epoch
AbortAndComplete ==
    phase = "Data" /\ status = NoStatus /\ Idle /\ UNCHANGED epoch

\* A bus reset ends any command.  (The reset after an invalid CBW comes
\* before a command has started and changes none of these variables.)
Reset == Idle /\ epoch' = epoch + 1

Next ==
    \/ Accept \/ Pass \/ Conclude \/ Abort \/ Complete
    \/ ConcludeAndComplete \/ AbortAndComplete \/ Reset

Spec == Init /\ [][Next]_avars

=============================================================================
