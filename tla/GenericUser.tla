---------------------------- MODULE GenericUser ----------------------------
(***************************************************************************)
(* A user of the Command API that is not one of the examples: a READ that *)
(* meets a medium error.  It hands the first dlen bytes to write_data as  *)
(* the stm32 SCSI example's READ does (at most Chunk at once), and then   *)
(* reports the error with command.fail() instead of pass().  This is the  *)
(* use the doc comment of BulkOnly::set_status describes: "all further    *)
(* writes to the IO buffer won't succeed. The transport will try to send  *)
(* all the contents of the buffer and then CSW will be sent."             *)
(***************************************************************************)
EXTENDS ScsiPoll

\* "ReadError": dlen bytes of data, then the error.
ReadThenFail ==
    IF offset # kind.dlen
    THEN ReadHandler
    ELSE /\ fail
         /\ offset' = 0

user_process_command ==
    CASE kind.op = "ReadError" -> ReadThenFail
      [] OTHER                 -> FailCmd

=============================================================================
