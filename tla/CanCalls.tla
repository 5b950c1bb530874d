------------------------------ MODULE CanCalls ------------------------------
(***************************************************************************)
(* What the public calls of CANvenient (src/src/CANvenient.c) do before,   *)
(* or instead of, reaching a back-end: the index check, the vendor switch  *)
(* and the calls that only read the table.  A driver module EXTENDS this   *)
(* one, adds the calls its back-end serves and keeps its own variables     *)
(* unchanged where a call ends here.                                       *)
(***************************************************************************)
EXTENDS CanTable

VARIABLE ret   \* outcome of the last call, NoCall while one runs

Op == {"none", "find", "open", "close", "release", "release all", "update",
       "get", "set", "send", "recv"}

CallReason == {"out of range", "no interface", "bad argument", "no name"}

\* reason is the text the call left in can_error_reason, NULL if it left none;
\* DriverReason are the texts of the driver.
Result(DriverReason) ==
  [op : Op, val : {-1, 0, 1}, reason : CallReason \cup DriverReason \cup {NULL}]

NoCall == [op |-> "none", val |-> 0, reason |-> NULL]

Return(op, v, why) == ret' = [op |-> op, val |-> v, reason |-> why]

OutOfRange(op, i) == i \notin Slots /\ Return(op, -1, "out of range")

\* Mutant: the default case of the switch reports success.
NoInterface_Succeeds(op, i) ==
  i \in Slots /\ can_interface[i].vendor = "NONE" /\ Return(op, 0, NULL)

\* The default case of the vendor switch.
NoInterface(op, i) ==
  /\ i \in Slots
  /\ can_interface[i].vendor = "NONE"
  /\ Return(op, -1, "no interface")

\* can_update, can_send or can_recv reaches no back-end.
Rejected(op, i) ==
  (OutOfRange(op, i) \/ NoInterface(op, i)) /\ UNCHANGED can_interface

\* can_open reaches no back-end; it has stored the baud rate all the same.
OpenRejected(i, b) ==
  \/ OutOfRange("open", i) /\ UNCHANGED can_interface
  \/ /\ NoInterface("open", i)
     /\ can_interface' = [can_interface EXCEPT ![i].baudrate = b]

\* can_set_baudrate reaches no back-end.
SetRejected(i, b) ==
  /\ \/ OutOfRange("set", i)
     \/ i \in Slots /\ b \notin Baud /\ Return("set", -1, "bad argument")
     \/ i \in Slots /\ b \in Baud /\ Free(i) /\ Return("set", -1, "no name")
  /\ UNCHANGED can_interface

\* can_get_baudrate and can_get_name; bad: the caller passed a null buffer.
Get(i, bad) ==
  /\ \/ OutOfRange("get", i)
     \/ i \in Slots /\ bad /\ Return("get", -1, "bad argument")
     \/ i \in Slots /\ Free(i) /\ Return("get", -1, "no name")
     \/ i \in Slots /\ ~bad /\ Return("get", 0, NULL)
  /\ UNCHANGED can_interface
=============================================================================
