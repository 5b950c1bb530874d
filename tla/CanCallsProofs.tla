--------------------------- MODULE CanCallsProofs ----------------------------
(***************************************************************************)
(* Lemmas about the interface table and the calls that reach no back-end,  *)
(* for any vendor, context and set of reasons a back-end adds.  The proofs *)
(* about every back-end rest on them.                                      *)
(***************************************************************************)
EXTENDS CanCalls, TLAPS

LEMMA SlotsAreIndices == Slots \subseteq CallIndex
  BY TableAssumption DEF Slots, CallIndex

-----------------------------------------------------------------------------
(* Slots *)

LEMMA ZeroIfaceType ==
  ASSUME NEW Vendor, NEW Context
  PROVE  ZeroIface \in Iface(Vendor, Context)
  BY TableAssumption DEF Iface, ZeroIface, AnyBaud

LEMMA ClearedType ==
  ASSUME NEW Vendor, NEW Context, NEW iface \in Iface(Vendor, Context)
  PROVE  /\ Cleared(iface) \in Iface(Vendor, Context)
         /\ Cleared(iface).name = NULL
         /\ Cleared(iface).vendor = "NONE"
         /\ Cleared(iface).opened = 0
         /\ Cleared(iface).internal = NULL
         /\ Cleared(iface).baudrate = iface.baudrate
  BY DEF Iface, Cleared

\* A slot is what its fields are.
LEMMA SameIface ==
  ASSUME NEW Vendor, NEW Context,
         NEW x \in Iface(Vendor, Context), NEW y \in Iface(Vendor, Context),
         x.name = y.name, x.vendor = y.vendor, x.opened = y.opened,
         x.baudrate = y.baudrate, x.internal = y.internal
  PROVE  x = y
  BY DEF Iface

\* What SlotCleared asks for.
LEMMA ClearedIsZero ==
  ASSUME NEW Vendor, NEW Context, NEW iface \in Iface(Vendor, Context)
  PROVE  Cleared(iface) = [ZeroIface EXCEPT !.baudrate = Cleared(iface).baudrate]
<1> DEFINE c == Cleared(iface)
           z == [ZeroIface EXCEPT !.baudrate = c.baudrate]
<1>1. /\ c \in Iface(Vendor, Context)
      /\ c.name = NULL /\ c.vendor = "NONE" /\ c.opened = 0 /\ c.internal = NULL
  BY ClearedType
<1> HIDE DEF c
<1>2. /\ z \in Iface(Vendor, Context)
      /\ z.name = NULL /\ z.vendor = "NONE" /\ z.opened = 0 /\ z.internal = NULL
      /\ z.baudrate = c.baudrate
  BY <1>1 DEF ZeroIface, Iface
<1> HIDE DEF z
<1>3. c = z
  BY <1>1, <1>2, SameIface
<1> QED BY <1>3 DEF c, z

\* Writing the baud rate of a slot changes nothing else about it.
LEMMA SetBaudType ==
  ASSUME NEW Vendor, NEW Context, NEW iface \in Iface(Vendor, Context),
         NEW b \in AnyBaud
  PROVE  /\ [iface EXCEPT !.baudrate = b] \in Iface(Vendor, Context)
         /\ [iface EXCEPT !.baudrate = b].name = iface.name
         /\ [iface EXCEPT !.baudrate = b].vendor = iface.vendor
         /\ [iface EXCEPT !.baudrate = b].opened = iface.opened
         /\ [iface EXCEPT !.baudrate = b].internal = iface.internal
  BY DEF Iface

-----------------------------------------------------------------------------
(* Outcomes *)

LEMMA NoCallType ==
  ASSUME NEW DriverReason
  PROVE  NoCall \in Result(DriverReason)
  BY DEF NoCall, Result, Op

LEMMA ReturnType ==
  ASSUME NEW DriverReason, NEW op \in Op, NEW v \in {-1, 0, 1},
         NEW why \in CallReason \cup DriverReason \cup {NULL}, Return(op, v, why)
  PROVE  ret' \in Result(DriverReason)
  BY DEF Return, Result

LEMMA ReturnFields ==
  ASSUME NEW op, NEW v, NEW why, Return(op, v, why)
  PROVE  ret'.op = op /\ ret'.val = v /\ ret'.reason = why
  BY DEF Return

\* A call that reaches no back-end fails, or only reads the table.
LEMMA RejectedType ==
  ASSUME NEW DriverReason, NEW op \in Op, NEW i, Rejected(op, i)
  PROVE  /\ ret' \in Result(DriverReason) /\ ret'.op = op /\ ret'.val = -1
         /\ UNCHANGED can_interface
<1>1. Return(op, -1, "out of range") \/ Return(op, -1, "no interface")
  BY DEF Rejected, OutOfRange, NoInterface
<1> QED BY <1>1, ReturnType, ReturnFields DEF Rejected, CallReason

LEMMA OpenRejectedType ==
  ASSUME NEW DriverReason, NEW i, NEW b, OpenRejected(i, b)
  PROVE  ret' \in Result(DriverReason) /\ ret'.op = "open" /\ ret'.val = -1
<1>1. Return("open", -1, "out of range") \/ Return("open", -1, "no interface")
  BY DEF OpenRejected, OutOfRange, NoInterface
<1> QED BY <1>1, ReturnType, ReturnFields DEF Op, CallReason

\* All it may change is the baud rate of a slot that is free.
LEMMA OpenRejectedTable ==
  ASSUME NEW i, NEW b, OpenRejected(i, b)
  PROVE  \/ UNCHANGED can_interface
         \/ /\ i \in Slots
            /\ can_interface[i].vendor = "NONE"
            /\ can_interface' = [can_interface EXCEPT ![i].baudrate = b]
  BY DEF OpenRejected, OutOfRange, NoInterface

LEMMA SetRejectedType ==
  ASSUME NEW DriverReason, NEW i, NEW b, SetRejected(i, b)
  PROVE  /\ ret' \in Result(DriverReason) /\ ret'.op = "set" /\ ret'.val = -1
         /\ UNCHANGED can_interface
<1>1. \/ Return("set", -1, "out of range")
      \/ Return("set", -1, "bad argument")
      \/ Return("set", -1, "no name")
  BY DEF SetRejected, OutOfRange
<1> QED BY <1>1, ReturnType, ReturnFields DEF SetRejected, Op, CallReason

LEMMA GetType ==
  ASSUME NEW DriverReason, NEW i, NEW bad, Get(i, bad)
  PROVE  /\ ret' \in Result(DriverReason) /\ ret'.op = "get"
         /\ UNCHANGED can_interface
<1>1. \/ Return("get", -1, "out of range")
      \/ Return("get", -1, "bad argument")
      \/ Return("get", -1, "no name")
      \/ Return("get", 0, NULL)
  BY DEF Get, OutOfRange
<1> QED BY <1>1, ReturnType, ReturnFields DEF Get, Op, CallReason
=============================================================================
