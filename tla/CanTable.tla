------------------------------ MODULE CanTable ------------------------------
(***************************************************************************)
(* The interface table of CANvenient (src/src/CANvenient.c) and what every *)
(* back-end does with it: the static array can_interface, the search for   *)
(* a free slot and for a name already present, and the clearing of a slot  *)
(* by can_release.  The driver modules EXTEND this one.                    *)
(***************************************************************************)
EXTENDS Integers

CONSTANTS
  MaxInterfaces,  \* CAN_MAX_INTERFACES
  Device,         \* names under which the system lists CAN devices
  Baud,           \* the enumerators CAN_BAUD_1M .. CAN_BAUD_5K
  CAN_BAUD_1M,    \* enumerator 0, also what zeroed storage holds
  BadBaud,        \* an int outside the enumeration, passed as can_baudrate
  NULL            \* the null pointer

ASSUME TableAssumption ==
  /\ MaxInterfaces \in Nat \ {0}
  /\ CAN_BAUD_1M \in Baud
  /\ BadBaud \notin Baud
  /\ NULL \notin Device

VARIABLE can_interface

Slots == 0 .. MaxInterfaces - 1

\* What a caller may pass as an index: every slot and both sides of the range.
CallIndex == -1 .. MaxInterfaces

AnyBaud == Baud \cup {BadBaud}

\* A slot of the table; Vendor and Context are the driver's.
Iface(Vendor, Context) ==
  [name : Device \cup {NULL}, vendor : Vendor \cup {"NONE"}, opened : {0, 1},
   baudrate : AnyBaud, internal : Context \cup {NULL}]

\* Static storage: CAN_VENDOR_NONE and CAN_BAUD_1M are the zero enumerators.
ZeroIface ==
  [name |-> NULL, vendor |-> "NONE", opened |-> 0,
   baudrate |-> CAN_BAUD_1M, internal |-> NULL]

\* Mutant: release counts a close off the flag instead of clearing it.
Cleared_Counts(iface) ==
  [iface EXCEPT !.vendor = "NONE", !.opened = @ - 1,
                !.name = NULL, !.internal = NULL]

\* can_release after its can_close: the baud rate is the one field it keeps.
Cleared(iface) ==
  [iface EXCEPT !.vendor = "NONE", !.opened = 0,
                !.name = NULL, !.internal = NULL]

Free(i) == can_interface[i].name = NULL

\* Mutant: a slot is taken for free when it is not open.
FirstFree_NotOpened(i) ==
  /\ can_interface[i].opened = 0
  /\ \A j \in Slots : j < i => can_interface[j].opened = 1

\* Mutant: the search starts from the end of the table.
FirstFree_FromEnd(i) == Free(i) /\ \A j \in Slots : j > i => ~Free(j)

\* find_free_interface_slot yields i: the lowest slot without a name.
FirstFree(i) == Free(i) /\ \A j \in Slots : j < i => ~Free(j)

TableFull == \A i \in Slots : ~Free(i)

\* Mutant: the loop stops at the first free slot.
AlreadyRegistered_StopsAtFree(n) ==
  \E k \in Slots : /\ can_interface[k].name = n
                   /\ \A j \in Slots : j < k => ~Free(j)

\* The already_registered loop of the back-ends.
AlreadyRegistered(n) == \E k \in Slots : can_interface[k].name = n

-----------------------------------------------------------------------------
(* Properties of the table under every back-end *)

\* A slot without a name is free in every respect: the free-slot search, which
\* looks at the name, and the vendor switch of the calls agree, and a free slot
\* keeps neither an open flag nor a context.
TableWellFormed ==
  \A i \in Slots :
    /\ Free(i) <=> can_interface[i].vendor = "NONE"
    /\ Free(i) => can_interface[i].opened = 0 /\ can_interface[i].internal = NULL

\* However discovery, release and update alternate, a name is registered under
\* one index only (the already_registered loop).
UniqueNames ==
  \A i, j \in Slots :
    i # j /\ ~Free(i) => can_interface[i].name # can_interface[j].name

\* A step takes the registration of slot i away, or its context.
SlotLost(i) ==
  /\ ~Free(i)
  /\ \/ can_interface'[i].name # can_interface[i].name
     \/ can_interface[i].internal # NULL /\ can_interface'[i].internal = NULL

\* ... and leaves nothing behind but the baud rate.
SlotCleared(i) ==
  can_interface'[i] = [ZeroIface EXCEPT !.baudrate = can_interface'[i].baudrate]
=============================================================================
