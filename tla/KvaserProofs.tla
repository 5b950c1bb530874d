---------------------------- MODULE KvaserProofs -----------------------------
(***************************************************************************)
(* Proofs about the Kvaser back-end, for every table size and every number *)
(* of channels, descriptions and handles.                                  *)
(***************************************************************************)
EXTENDS Kvaser, CanCallsProofs, WellFoundedInduction

IfaceType == Iface({"KVASER"}, kvaser_channel_info_t)

-----------------------------------------------------------------------------
(* A slot that is as it should be, and a table that agrees with the handles *)

\* The flag, the context and the name of a slot say the same.
Sound(iface) ==
  /\ iface.name = NULL <=> iface.vendor = "NONE"
  /\ iface.name = NULL <=> iface.internal = NULL
  /\ iface.opened = 1 <=> HasHandle(iface)

\* HandlesOwned over any table and any handles, so that can_set_baudrate can be
\* followed through the table between its close and its open.
Agree(tab, hdl) ==
  /\ tab \in [Slots -> IfaceType]
  /\ hdl \in [Handle -> Channel \cup {NULL}]
  /\ \A i \in Slots : Sound(tab[i])
  /\ \A i \in Slots : HasHandle(tab[i]) =>
       /\ hdl[tab[i].internal.handle] = tab[i].internal.channel
       /\ \A j \in Slots \ {i} : HasHandle(tab[j]) =>
            tab[j].internal.handle # tab[i].internal.handle

LEMMA HandleType ==
  ASSUME NEW iface \in IfaceType, HasHandle(iface)
  PROVE  /\ iface.internal \in kvaser_channel_info_t
         /\ iface.internal.handle \in Handle
         /\ iface.internal.channel \in Channel
  BY DEF IfaceType, Iface, HasHandle, kvaser_channel_info_t

\* A slot may be written if that gives it no handle it did not have.
LEMMA PutSlot ==
  ASSUME NEW tab, NEW hdl, Agree(tab, hdl), NEW i \in Slots, NEW x \in IfaceType,
         Sound(x),
         HasHandle(x) => HasHandle(tab[i]) /\ x.internal = tab[i].internal
  PROVE  Agree([tab EXCEPT ![i] = x], hdl)
<1> DEFINE new == [tab EXCEPT ![i] = x]
<1>1. \A j \in Slots : new[j] = IF j = i THEN x ELSE tab[j]
  BY DEF Agree
<1>2. new \in [Slots -> IfaceType]
  BY DEF Agree
<1> HIDE DEF new
<1>3. \A j \in Slots :
        HasHandle(new[j]) => HasHandle(tab[j]) /\ new[j].internal = tab[j].internal
  BY <1>1
<1> QED BY <1>1, <1>2, <1>3 DEF Agree, new

\* A handle that CANlib gives out goes to one slot.
LEMMA PutHandle ==
  ASSUME NEW tab, NEW hdl, Agree(tab, hdl), NEW i \in Slots, NEW x \in IfaceType,
         Sound(x), HasHandle(x),
         NEW h \in Handle, x.internal.handle = h, hdl[h] = NULL
  PROVE  Agree([tab EXCEPT ![i] = x], [hdl EXCEPT ![h] = x.internal.channel])
<1> DEFINE new == [tab EXCEPT ![i] = x]
           open == [hdl EXCEPT ![h] = x.internal.channel]
<1>1. /\ \A j \in Slots : new[j] = IF j = i THEN x ELSE tab[j]
      /\ \A g \in Handle : open[g] = IF g = h THEN x.internal.channel ELSE hdl[g]
  BY DEF Agree
<1>2. new \in [Slots -> IfaceType] /\ open \in [Handle -> Channel \cup {NULL}]
  BY HandleType DEF Agree
<1> HIDE DEF new, open
<1>3. \A j \in Slots : HasHandle(tab[j]) =>
        tab[j].internal.handle \in Handle /\ tab[j].internal.handle # h
  <2> SUFFICES ASSUME NEW j \in Slots, HasHandle(tab[j])
               PROVE  tab[j].internal.handle \in Handle /\ tab[j].internal.handle # h
    OBVIOUS
  <2>1. tab[j] \in IfaceType /\ hdl[tab[j].internal.handle] = tab[j].internal.channel
    BY DEF Agree
  <2>2. tab[j].internal.handle \in Handle /\ tab[j].internal.channel # NULL
    BY <2>1, HandleType, KvaserAssumption
  <2> QED BY <2>1, <2>2
<1>4. \A j \in Slots : Sound(new[j])
  BY <1>1 DEF Agree
<1>5. \A j \in Slots : HasHandle(new[j]) =>
        /\ open[new[j].internal.handle] = new[j].internal.channel
        /\ \A k \in Slots \ {j} : HasHandle(new[k]) =>
             new[k].internal.handle # new[j].internal.handle
  BY <1>1, <1>3 DEF Agree
<1> QED BY <1>2, <1>4, <1>5 DEF Agree, new, open

\* What the slots say of the driver does not depend on the recorded rates.
LEMMA RateAgrees ==
  ASSUME NEW tab, NEW hdl, Agree(tab, hdl),
         NEW new \in [Slots -> IfaceType],
         \A i \in Slots : /\ new[i].name = tab[i].name
                          /\ new[i].vendor = tab[i].vendor
                          /\ new[i].opened = tab[i].opened
                          /\ new[i].internal = tab[i].internal
  PROVE  Agree(new, hdl)
<1>1. \A i \in Slots : /\ HasHandle(new[i]) <=> HasHandle(tab[i])
                       /\ new[i].internal = tab[i].internal
                       /\ Sound(new[i])
  BY DEF Agree, Sound, HasHandle
<1> QED BY <1>1 DEF Agree

-----------------------------------------------------------------------------
(* Closing and releasing *)

LEMMA CloseIfaceFacts ==
  ASSUME NEW iface \in IfaceType
  PROVE  /\ CloseIface(iface) \in IfaceType
         /\ CloseIface(iface).name = iface.name
         /\ CloseIface(iface).vendor = iface.vendor
         /\ CloseIface(iface).internal = NULL <=> iface.internal = NULL
         /\ CloseIface(iface).internal # NULL =>
              CloseIface(iface).internal.channel = iface.internal.channel
         /\ ~HasHandle(CloseIface(iface))
         /\ HasHandle(iface) => CloseIface(iface).opened = 0
         /\ ~HasHandle(iface) => CloseIface(iface) = iface
<1>1. CASE ~HasHandle(iface)
  BY <1>1 DEF CloseIface
<1>2. CASE HasHandle(iface)
  <2> DEFINE x == [iface.internal EXCEPT !.handle = NoHandle]
  <2>1. iface.internal \in kvaser_channel_info_t
    BY <1>2, HandleType
  <2>2. /\ x \in kvaser_channel_info_t
        /\ x.channel = iface.internal.channel
        /\ x.handle = NoHandle
    BY <2>1 DEF kvaser_channel_info_t
  <2>3. x # NULL /\ iface.internal # NULL
    BY <1>2, <2>2, KvaserAssumption DEF HasHandle
  <2>4. CloseIface(iface) = [iface EXCEPT !.internal = x, !.opened = 0]
    BY <1>2 DEF CloseIface, IfaceType, Iface
  <2> HIDE DEF x
  <2>5. /\ CloseIface(iface) \in IfaceType
        /\ CloseIface(iface).name = iface.name
        /\ CloseIface(iface).vendor = iface.vendor
        /\ CloseIface(iface).internal = x
        /\ CloseIface(iface).opened = 0
    BY <2>2, <2>4 DEF IfaceType, Iface
  <2> QED BY <1>2, <2>2, <2>3, <2>5 DEF HasHandle
<1> QED BY <1>1, <1>2

LEMMA CloseIfaceSound ==
  ASSUME NEW iface \in IfaceType, Sound(iface)
  PROVE  Sound(CloseIface(iface)) /\ CloseIface(iface).opened = 0
<1>1. CloseIface(iface) \in IfaceType
  BY CloseIfaceFacts
<1> QED BY <1>1, CloseIfaceFacts DEF Sound, IfaceType, Iface

ClosedTable(S) ==
  [i \in Slots |-> IF i \in S THEN CloseIface(can_interface[i])
                              ELSE can_interface[i]]

\* kvaser_close on every slot of S.
LEMMA CloseAgrees ==
  ASSUME Agree(can_interface, handle), NEW S \in SUBSET Slots
  PROVE  Agree(ClosedTable(S), CloseHandles(S))
<1> DEFINE tab == ClosedTable(S)
           hdl == CloseHandles(S)
<1>1. /\ tab \in [Slots -> IfaceType]
      /\ hdl \in [Handle -> Channel \cup {NULL}]
  BY CloseIfaceFacts DEF Agree, ClosedTable, CloseHandles
<1>2. \A i \in Slots : Sound(tab[i])
  BY CloseIfaceSound DEF Agree, ClosedTable
<1>3. \A i \in Slots : HasHandle(tab[i]) => i \notin S /\ tab[i] = can_interface[i]
  BY CloseIfaceFacts DEF Agree, ClosedTable
<1>4. ASSUME NEW i \in Slots, HasHandle(tab[i])
      PROVE  hdl[tab[i].internal.handle] = handle[tab[i].internal.handle]
  <2>1. tab[i].internal.handle \in Handle
    BY <1>1, <1>4, HandleType
  <2> QED BY <1>3, <1>4, <2>1 DEF Agree, CloseHandles
<1> HIDE DEF tab, hdl
<1>5. \A i \in Slots : HasHandle(tab[i]) =>
       /\ hdl[tab[i].internal.handle] = tab[i].internal.channel
       /\ \A j \in Slots \ {i} : HasHandle(tab[j]) =>
            tab[j].internal.handle # tab[i].internal.handle
  BY <1>3, <1>4 DEF Agree
<1> QED BY <1>1, <1>2, <1>5 DEF Agree, tab, hdl

\* can_release of every slot of S.
LEMMA ReleaseAgrees ==
  ASSUME Agree(can_interface, handle), NEW S \in SUBSET Slots, ReleaseSlots(S)
  PROVE  Agree(can_interface', handle')
<1> DEFINE tab == ClosedTable(S)
<1>1. Agree(tab, CloseHandles(S))
  BY CloseAgrees
<1>2. handle' = CloseHandles(S)
  BY DEF ReleaseSlots
<1>3. \A i \in Slots : can_interface'[i] = IF i \in S THEN Cleared(tab[i]) ELSE tab[i]
  BY DEF ReleaseSlots, ClosedTable
<1> HIDE DEF tab
<1>4. tab \in [Slots -> IfaceType]
  BY <1>1 DEF Agree
<1>5. \A i \in S : /\ can_interface'[i] \in IfaceType
                   /\ Sound(can_interface'[i])
                   /\ ~HasHandle(can_interface'[i])
  BY <1>3, <1>4, ClearedType DEF IfaceType, Sound, HasHandle
<1>6. can_interface' \in [Slots -> IfaceType]
  BY <1>3, <1>4, <1>5 DEF ReleaseSlots
<1>7. \A i \in Slots : HasHandle(can_interface'[i]) => can_interface'[i] = tab[i]
  BY <1>3, <1>5
<1> QED BY <1>1, <1>2, <1>3, <1>5, <1>6, <1>7 DEF Agree

-----------------------------------------------------------------------------
(* What a step may do to the table and to the handles *)

Quiet == UNCHANGED <<can_interface, handle>>

\* can_open stores the rate before it finds that the slot is free.
StoresBaud(i, b) ==
  /\ i \in Slots
  /\ can_interface[i].vendor = "NONE"
  /\ can_interface' = [can_interface EXCEPT ![i].baudrate = b]
  /\ UNCHANGED handle

Opens(i, b) ==
  OnKvaser(i) /\ kvaser_open("open", i, can_interface[i], handle, b)

Sets(i, b) ==
  /\ OnKvaser(i)
  /\ kvaser_open("set", i, CloseIface(can_interface[i]), CloseHandles({i}), b)

Closes(S) ==
  can_interface' = ClosedTable(S) /\ handle' = CloseHandles(S) /\ ret'.op = "close"

Releases(S) ==
  /\ ReleaseSlots(S)
  /\ \/ ret'.op = "release all"
     \/ /\ <<ret'.op, ret'.val>> \in {<<"release", 0>>, <<"update", -1>>}
        /\ \A i, j \in S : i = j

Registers(c, i) ==
  pc = "find" /\ RegisterChannel(c, i) /\ UNCHANGED handle

Step ==
  \/ Quiet
  \/ \E i \in Slots, b \in AnyBaud : StoresBaud(i, b) \/ Opens(i, b) \/ Sets(i, b)
  \/ \E S \in {{}} \cup {{i} : i \in Slots} : Closes(S)
  \/ \E S \in {{}, Slots} \cup {{i} : i \in Slots} : Releases(S)
  \/ \E c \in Channel, i \in Slots : Registers(c, i)

LEMMA CallSteps ==
  ASSUME Call
  PROVE  Step
<1>1. ASSUME NEW wanted \in BOOLEAN, can_find_interfaces_mask(wanted)
      PROVE  Step
  BY <1>1 DEF can_find_interfaces_mask, canlib, Step, Quiet
<1>2. ASSUME NEW i \in CallIndex, NEW b \in AnyBaud, can_open(i, b)
      PROVE  Step
  <2>1. CASE OpenRejected(i, b) /\ UNCHANGED handle
    BY <2>1, OpenRejectedTable DEF Step, Quiet, StoresBaud
  <2>2. CASE OnKvaser(i) /\ kvaser_open("open", i, can_interface[i], handle, b)
    BY <2>2 DEF OnKvaser, Step, Opens
  <2> QED BY <1>2, <2>1, <2>2 DEF can_open
<1>3. ASSUME NEW i \in CallIndex, NEW b \in AnyBaud, can_set_baudrate(i, b)
      PROVE  Step
  <2>1. CASE SetRejected(i, b) /\ UNCHANGED handle
    BY <2>1 DEF SetRejected, Step, Quiet
  <2>2. CASE Sets(i, b)
    BY <2>2 DEF OnKvaser, Step, Sets
  <2> QED BY <1>3, <2>1, <2>2 DEF can_set_baudrate, Sets
<1>4. ASSUME NEW i \in CallIndex
      PROVE  {i} \cap Slots \in {{}} \cup {{j} : j \in Slots}
  <2>1. CASE i \in Slots
    BY <2>1
  <2>2. CASE i \notin Slots
    BY <2>2
  <2> QED BY <2>1, <2>2
<1>5. ASSUME NEW i \in CallIndex, can_close(i)
      PROVE  Step
  <2>1. Closes({i} \cap Slots)
    BY <1>5, ReturnFields DEF can_close, Closes, ClosedTable
  <2> QED BY <1>4, <2>1 DEF Step
<1>6. ASSUME NEW i \in CallIndex, can_release(i)
      PROVE  Step
  <2>1. Releases({i} \cap Slots)
    BY <1>6, ReturnFields DEF can_release, Releases
  <2> QED BY <1>4, <2>1 DEF Step
<1>7. ASSUME can_release_interfaces
      PROVE  Step
  <2>1. Releases(Slots)
    BY <1>7, ReturnFields DEF can_release_interfaces, Releases
  <2> QED BY <2>1 DEF Step
<1>8. ASSUME NEW i \in CallIndex, can_update(i)
      PROVE  Step
  <2>1. CASE Rejected("update", i) /\ UNCHANGED handle
    BY <2>1 DEF Rejected, Step, Quiet
  <2>2. CASE OnKvaser(i) /\ kvaser_update(i)
    <3>1. CASE UNCHANGED <<can_interface, handle>>
      BY <3>1 DEF Step, Quiet
    <3>2. CASE Return("update", -1, NULL) /\ ReleaseSlots({i})
      <4>1. Releases({i}) /\ i \in Slots
        BY <2>2, <3>2, ReturnFields DEF OnKvaser, Releases
      <4> QED BY <4>1 DEF Step
    <3> QED BY <2>2, <3>1, <3>2 DEF kvaser_update
  <2> QED BY <1>8, <2>1, <2>2 DEF can_update
<1>9. ASSUME NEW i \in CallIndex, can_send(i) \/ can_recv(i)
      PROVE  Step
  BY <1>9 DEF can_send, can_recv, Rejected, canlib, Step, Quiet
<1>10. ASSUME NEW i \in CallIndex, NEW bad \in BOOLEAN, can_get(i, bad)
       PROVE  Step
  BY <1>10 DEF can_get, Get, canlib, Step, Quiet
<1> QED BY <1>1, <1>2, <1>3, <1>5, <1>6, <1>7, <1>8, <1>9, <1>10 DEF Call

LEMMA NextSteps ==
  ASSUME TypeOK, [Next]_vars
  PROVE  Step
<1>1. CASE kvaser_find_channel
  <2>1. CASE UNCHANGED can_interface
    BY <1>1, <2>1 DEF kvaser_find_channel, canlib, Step, Quiet
  <2>2. ASSUME NEW i \in Slots, RegisterChannel(next, i)
        PROVE  Step
    <3>1. next \in Channel
      BY <1>1, KvaserAssumption DEF kvaser_find_channel, TypeOK, Channel
    <3>2. Registers(next, i)
      BY <1>1, <2>2 DEF kvaser_find_channel, canlib, Registers
    <3> QED BY <3>1, <3>2 DEF Step
  <2> QED BY <1>1, <2>1, <2>2 DEF kvaser_find_channel
<1>2. CASE kvaser_find_end \/ Environment \/ UNCHANGED vars
  BY <1>2 DEF kvaser_find_end, Environment, Plug, Unplug, canlib, vars, Step, Quiet
<1> QED BY <1>1, <1>2, CallSteps DEF Next

-----------------------------------------------------------------------------
(* Every step keeps table and handles in agreement *)

\* The slot that a successful kvaser_open leaves.
Open(iface, b, h) ==
  [iface EXCEPT !.baudrate = b, !.opened = 1, !.internal.handle = h]

\* The outcomes of kvaser_open, on the slot and the handles as it finds them: a
\* failure may come after a handle was opened and closed again.
OpenFails(op, i, iface, open, b) ==
  /\ can_interface' = [can_interface EXCEPT ![i] = [iface EXCEPT !.baudrate = b]]
  /\ \/ handle' = open
     \/ \E h \in Handle :
          /\ open[h] = NULL
          /\ handle' = canClose(h, [open EXCEPT ![h] = iface.internal.channel])
  /\ Return(op, -1, "canlib")

OpenSucceeds(op, i, iface, open, b, h) ==
  /\ bus[iface.internal.channel] # NULL
  /\ open[h] = NULL
  /\ can_interface' = [can_interface EXCEPT ![i] = Open(iface, b, h)]
  /\ handle' = [open EXCEPT ![h] = iface.internal.channel]
  /\ Return(op, 0, NULL)

LEMMA OpenCases ==
  ASSUME NEW op, NEW i, NEW iface, NEW open, NEW b, kvaser_open(op, i, iface, open, b)
  PROVE  \/ OpenFails(op, i, iface, open, b)
         \/ \E h \in Handle : OpenSucceeds(op, i, iface, open, b, h)
  BY Zenon DEF kvaser_open, OpenOutcome, OpenFails, OpenSucceeds, Open

\* The handle canOpenChannel gave was closed before, and is closed again.
LEMMA FailureCloses ==
  ASSUME NEW op, NEW i, NEW iface, NEW open \in [Handle -> Channel \cup {NULL}], NEW b,
         OpenFails(op, i, iface, open, b)
  PROVE  handle' = open
<1> SUFFICES ASSUME NEW h \in Handle, open[h] = NULL,
                    handle' = canClose(h, [open EXCEPT ![h] = iface.internal.channel])
             PROVE  handle' = open
  BY DEF OpenFails
<1>1. handle' = [open EXCEPT ![h] = NULL]
  BY DEF canClose
<1> QED BY <1>1

LEMMA OpenFacts ==
  ASSUME NEW iface \in IfaceType, Sound(iface), iface.vendor = "KVASER",
         NEW b \in AnyBaud, NEW h \in Handle
  PROVE  /\ Open(iface, b, h) \in IfaceType
         /\ Open(iface, b, h).name = iface.name
         /\ Open(iface, b, h).vendor = "KVASER"
         /\ Open(iface, b, h).opened = 1
         /\ Open(iface, b, h).internal # NULL
         /\ Open(iface, b, h).internal.handle = h
         /\ Open(iface, b, h).internal.channel = iface.internal.channel
         /\ Sound(Open(iface, b, h)) /\ HasHandle(Open(iface, b, h))
<1> DEFINE x == [iface.internal EXCEPT !.handle = h]
           y == Open(iface, b, h)
<1>1. iface.internal \in kvaser_channel_info_t /\ iface.name # NULL
  BY DEF IfaceType, Iface, Sound
<1>2. x \in kvaser_channel_info_t /\ x.channel = iface.internal.channel /\ x.handle = h
  BY <1>1 DEF kvaser_channel_info_t
<1>3. y = [iface EXCEPT !.baudrate = b, !.opened = 1, !.internal = x]
  BY DEF Open, IfaceType, Iface
<1> HIDE DEF x
<1>4. /\ y \in IfaceType /\ y.name = iface.name /\ y.vendor = iface.vendor
      /\ y.opened = 1 /\ y.internal = x
  BY <1>2, <1>3 DEF IfaceType, Iface
<1> HIDE DEF y
<1>5. x # NULL /\ h # NoHandle
  BY <1>2, KvaserAssumption
<1>6. HasHandle(y)
  BY <1>2, <1>4, <1>5 DEF HasHandle
<1>7. Sound(y)
  BY <1>1, <1>4, <1>5, <1>6 DEF Sound
<1> QED BY <1>2, <1>4, <1>5, <1>6, <1>7 DEF y

LEMMA OpenAgrees ==
  ASSUME NEW tab, NEW hdl, Agree(tab, hdl), NEW i \in Slots, tab[i].vendor = "KVASER",
         \A x : [can_interface EXCEPT ![i] = x] = [tab EXCEPT ![i] = x],
         NEW b \in AnyBaud, NEW op, kvaser_open(op, i, tab[i], hdl, b)
  PROVE  Agree(can_interface', handle')
<1>1. tab[i] \in IfaceType /\ Sound(tab[i])
  BY DEF Agree
<1>2. CASE OpenFails(op, i, tab[i], hdl, b)
  <2> DEFINE x == [tab[i] EXCEPT !.baudrate = b]
  <2>1. /\ x \in IfaceType /\ x.name = tab[i].name /\ x.vendor = tab[i].vendor
        /\ x.opened = tab[i].opened /\ x.internal = tab[i].internal
    BY <1>1, SetBaudType DEF IfaceType
  <2>2. can_interface' = [tab EXCEPT ![i] = x] /\ handle' = hdl
    <3>1. handle' = hdl
      <4>1. hdl \in [Handle -> Channel \cup {NULL}]
        BY DEF Agree
      <4> QED BY <1>2, <4>1, FailureCloses
    <3>2. can_interface' = [can_interface EXCEPT ![i] = x]
      BY <1>2 DEF OpenFails
    <3> HIDE DEF x
    <3> QED BY <3>1, <3>2
  <2> HIDE DEF x
  <2>3. Sound(x) /\ (HasHandle(x) => HasHandle(tab[i]) /\ x.internal = tab[i].internal)
    BY <1>1, <2>1 DEF Sound, HasHandle
  <2> QED BY <2>1, <2>2, <2>3, PutSlot
<1>3. ASSUME NEW h \in Handle, OpenSucceeds(op, i, tab[i], hdl, b, h)
      PROVE  Agree(can_interface', handle')
  <2> DEFINE x == Open(tab[i], b, h)
  <2>1. /\ x \in IfaceType /\ Sound(x) /\ HasHandle(x)
        /\ x.internal.handle = h /\ x.internal.channel = tab[i].internal.channel
    BY <1>1, OpenFacts
  <2>2. /\ can_interface' = [tab EXCEPT ![i] = x]
        /\ handle' = [hdl EXCEPT ![h] = tab[i].internal.channel]
        /\ hdl[h] = NULL
    BY <1>3 DEF OpenSucceeds
  <2> HIDE DEF x
  <2>3. Agree([tab EXCEPT ![i] = x], [hdl EXCEPT ![h] = x.internal.channel])
    BY <2>1, <2>2, PutHandle
  <2> QED BY <2>1, <2>2, <2>3
<1> QED BY <1>2, <1>3, OpenCases

\* can_open stores the rate of a free slot.
LEMMA StoresBaudAgrees ==
  ASSUME Agree(can_interface, handle), NEW i \in Slots, NEW b \in AnyBaud,
         StoresBaud(i, b)
  PROVE  Agree(can_interface', handle')
<1> DEFINE x == [can_interface[i] EXCEPT !.baudrate = b]
<1>1. can_interface[i] \in IfaceType /\ Sound(can_interface[i])
  BY DEF Agree
<1>2. /\ x \in IfaceType
      /\ x.name = can_interface[i].name /\ x.vendor = can_interface[i].vendor
      /\ x.opened = can_interface[i].opened /\ x.internal = can_interface[i].internal
  BY <1>1, SetBaudType DEF IfaceType
<1>3. can_interface' = [can_interface EXCEPT ![i] = x] /\ handle' = handle
  BY DEF StoresBaud
<1> HIDE DEF x
<1>4. /\ Sound(x)
      /\ HasHandle(x) => HasHandle(can_interface[i]) /\ x.internal = can_interface[i].internal
  BY <1>1, <1>2 DEF Sound, HasHandle
<1> QED BY <1>2, <1>3, <1>4, PutSlot

\* The slot a channel is registered in.
NewIface(c) ==
  [name |-> bus[c], vendor |-> "KVASER", opened |-> 0, baudrate |-> CAN_BAUD_1M,
   internal |-> [channel |-> c, handle |-> NoHandle]]

LEMMA NewIfaceFacts ==
  ASSUME bus \in [Channel -> Device \cup {NULL}], NEW c \in Channel, bus[c] # NULL
  PROVE  /\ NewIface(c) \in IfaceType
         /\ NewIface(c).name \in Device /\ NewIface(c).name # NULL
         /\ Sound(NewIface(c)) /\ ~HasHandle(NewIface(c))
<1> DEFINE x == [channel |-> c, handle |-> NoHandle]
<1>1. x \in kvaser_channel_info_t /\ x.handle = NoHandle /\ x # NULL
  BY KvaserAssumption DEF kvaser_channel_info_t
<1>2. bus[c] \in Device /\ CAN_BAUD_1M \in AnyBaud
  BY TableAssumption DEF AnyBaud
<1> HIDE DEF x
<1>3. NewIface(c) = [name |-> bus[c], vendor |-> "KVASER", opened |-> 0,
                     baudrate |-> CAN_BAUD_1M, internal |-> x]
  BY DEF NewIface, x
<1>4. NewIface(c) \in IfaceType
  BY <1>1, <1>2, <1>3 DEF IfaceType, Iface
<1> QED BY <1>1, <1>2, <1>3, <1>4 DEF Sound, HasHandle

\* A registration as far as the table and the handles go: any free slot does.
Fills(c, i) ==
  /\ bus[c] # NULL
  /\ can_interface' = [can_interface EXCEPT ![i] = NewIface(c)]
  /\ UNCHANGED handle

LEMMA FillAgrees ==
  ASSUME bus \in [Channel -> Device \cup {NULL}], Agree(can_interface, handle),
         NEW c \in Channel, NEW i \in Slots, Fills(c, i)
  PROVE  Agree(can_interface', handle')
  BY NewIfaceFacts, PutSlot DEF Fills

LEMMA StepAgrees ==
  ASSUME bus \in [Channel -> Device \cup {NULL}], Agree(can_interface, handle), Step
  PROVE  Agree(can_interface', handle')
<1>1. CASE Quiet
  BY <1>1 DEF Quiet
<1>2. ASSUME NEW i \in Slots, NEW b \in AnyBaud, StoresBaud(i, b)
      PROVE  Agree(can_interface', handle')
  BY <1>2, StoresBaudAgrees
<1>3. ASSUME NEW i \in Slots, NEW b \in AnyBaud, Opens(i, b)
      PROVE  Agree(can_interface', handle')
  BY <1>3, OpenAgrees DEF Opens, OnKvaser
<1>4. ASSUME NEW i \in Slots, NEW b \in AnyBaud, Sets(i, b)
      PROVE  Agree(can_interface', handle')
  <2> DEFINE tab == ClosedTable({i})
  <2>1. Agree(tab, CloseHandles({i}))
    BY CloseAgrees
  <2>2. /\ can_interface \in [Slots -> IfaceType]
        /\ tab[i] = CloseIface(can_interface[i])
        /\ \A x : [can_interface EXCEPT ![i] = x] = [tab EXCEPT ![i] = x]
    BY DEF Agree, ClosedTable
  <2>3. tab[i].vendor = "KVASER"
    BY <1>4, <2>2, CloseIfaceFacts DEF Sets, OnKvaser
  <2>4. kvaser_open("set", i, tab[i], CloseHandles({i}), b)
    BY <1>4, <2>2 DEF Sets
  <2> HIDE DEF tab
  <2> QED BY <2>1, <2>2, <2>3, <2>4, OpenAgrees
<1>5. ASSUME NEW S \in SUBSET Slots, Closes(S)
      PROVE  Agree(can_interface', handle')
  BY <1>5, CloseAgrees DEF Closes
<1>6. ASSUME NEW S \in SUBSET Slots, Releases(S)
      PROVE  Agree(can_interface', handle')
  BY <1>6, ReleaseAgrees DEF Releases
<1>7. ASSUME NEW c \in Channel, NEW i \in Slots, Registers(c, i)
      PROVE  Agree(can_interface', handle')
  <2>1. Fills(c, i)
    BY <1>7 DEF Registers, RegisterChannel, NewIface, Fills
  <2> QED BY <2>1, FillAgrees
<1>8. \A S \in {{}, Slots} \cup {{i} : i \in Slots} : S \in SUBSET Slots
  OBVIOUS
<1> QED BY <1>1, <1>2, <1>3, <1>4, <1>5, <1>6, <1>7, <1>8 DEF Step

-----------------------------------------------------------------------------
(* The variables the table is not part of *)

ScanType ==
  /\ ret \in Result(Reason)
  /\ bus \in [Channel -> Device \cup {NULL}]
  /\ pc \in {"idle", "find"}
  /\ next \in 0 .. Channels
  /\ count \in 0 .. Channels
  /\ steady \subseteq Channel

\* A set of channels that is not empty has a highest one.
LEMMA HighestChannel ==
  ASSUME NEW S \in SUBSET Channel, S # {}
  PROVE  \E c \in S : \A d \in S : d <= c
<1> DEFINE Above == {n \in Nat : \A d \in S : d < n}
           Less == OpToRel(<, Nat)
<1>1. Channels \in Above
  BY KvaserAssumption DEF Channel
<1>2. PICK n \in Above : \A m \in Above : ~(<<m, n>> \in Less)
  <2>1. IsWellFoundedOn(Less, Nat)
    BY NatLessThanWellFounded
  <2>2. Above \subseteq Nat /\ Above # {}
    BY <1>1
  <2> HIDE DEF Above, Less
  <2> QED BY <2>1, <2>2, WFMin
<1>3. \A m \in Above : ~(m < n)
  BY <1>2 DEF OpToRel
<1>4. n \in Nat /\ \A d \in S : d < n
  OBVIOUS
<1>5. S \subseteq Nat
  BY KvaserAssumption DEF Channel
<1>6. n - 1 \in Nat /\ n - 1 < n
  <2>1. \E s \in S : s \in Nat /\ s < n
    BY <1>4, <1>5
  <2> HIDE DEF Above
  <2> QED BY <1>4, <2>1
<1>7. n - 1 \notin Above
  BY <1>3, <1>6
<1>8. PICK c \in S : ~(c < n - 1)
  BY <1>6, <1>7
<1> HIDE DEF Above
<1>9. \A d \in S : d <= c
  BY <1>4, <1>5, <1>6, <1>8
<1> QED BY <1>9

LEMMA CountType == NumberOfChannels \in 0 .. Channels
<1>1. CASE Attached = {}
  BY <1>1, KvaserAssumption DEF NumberOfChannels
<1>2. CASE Attached # {}
  <2> DEFINE c == CHOOSE c \in Attached : \A d \in Attached : d <= c
  <2>1. \E m \in Attached : \A d \in Attached : d <= m
    BY <1>2, HighestChannel DEF Attached
  <2>2. c \in Channel
    BY <2>1 DEF Attached
  <2>3. NumberOfChannels = 1 + c
    BY <1>2 DEF NumberOfChannels
  <2> HIDE DEF c
  <2> QED BY <2>2, <2>3, KvaserAssumption DEF Channel
<1> QED BY <1>1, <1>2

LEMMA EndScanType ==
  ASSUME ScanType, NEW why \in Reason \cup {NULL}, EndScan(why), UNCHANGED bus
  PROVE  ScanType'
<1>1. ret' \in Result(Reason)
  BY ReturnType DEF EndScan, Op
<1> QED BY <1>1, KvaserAssumption DEF EndScan, ScanType

LEMMA CallScanType ==
  ASSUME ScanType, Call
  PROVE  ScanType'
<1> USE DEF scan, canlib
<1>1. ASSUME NEW wanted \in BOOLEAN, can_find_interfaces_mask(wanted)
      PROVE  ScanType'
  <2>1. CASE wanted /\ next' = 0 /\ pc' = "find" /\ ret' = NoCall /\ steady' = Attached
             /\ count' = IF NumberOfChannels > MaxInterfaces THEN MaxInterfaces
                                                              ELSE NumberOfChannels
    <3>1. count' \in 0 .. Channels
      BY <2>1, CountType, TableAssumption, KvaserAssumption
    <3> QED BY <1>1, <2>1, <3>1, NoCallType, KvaserAssumption
            DEF can_find_interfaces_mask, ScanType, Attached
  <2>2. CASE Return("find", 0, NULL) /\ UNCHANGED scan
    <3>1. ret' \in Result(Reason)
      BY <2>2, ReturnType DEF Op
    <3> QED BY <1>1, <2>2, <3>1 DEF can_find_interfaces_mask, ScanType
  <2> QED BY <1>1, <2>1, <2>2 DEF can_find_interfaces_mask
<1>2. ASSUME UNCHANGED <<bus, scan>>, ret' \in Result(Reason)
      PROVE  ScanType'
  BY <1>2 DEF ScanType
<1>3. ASSUME NEW op \in Op, NEW i, NEW iface, NEW open, NEW b,
             kvaser_open(op, i, iface, open, b)
      PROVE  ret' \in Result(Reason)
  BY <1>3, OpenCases, ReturnType DEF OpenFails, OpenSucceeds, Reason
<1>4. ASSUME NEW i \in CallIndex, NEW b \in AnyBaud, can_open(i, b)
      PROVE  ScanType'
  BY <1>2, <1>3, <1>4, OpenRejectedType DEF can_open, Op
<1>5. ASSUME NEW i \in CallIndex, NEW b \in AnyBaud, can_set_baudrate(i, b)
      PROVE  ScanType'
  BY <1>2, <1>3, <1>5, SetRejectedType DEF can_set_baudrate, Op
<1>6. ASSUME NEW i \in CallIndex,
             can_close(i) \/ can_release(i) \/ can_release_interfaces
      PROVE  ScanType'
  <2>1. ret' \in Result(Reason)
    BY <1>6, ReturnType DEF can_close, can_release, can_release_interfaces, Op
  <2> QED BY <1>2, <1>6, <2>1 DEF can_close, can_release, can_release_interfaces
<1>7. ASSUME NEW i \in CallIndex, can_update(i)
      PROVE  ScanType'
  <2>1. ASSUME kvaser_update(i) PROVE ret' \in Result(Reason)
    BY <2>1, ReturnType DEF kvaser_update, Op
  <2> QED BY <1>2, <1>7, <2>1, RejectedType DEF can_update, Op
<1>8. ASSUME NEW i \in CallIndex, can_send(i) \/ can_recv(i)
      PROVE  ScanType'
  <2>1. ASSUME NEW op \in Op, kvaser_transfer(op, i) PROVE ret' \in Result(Reason)
    BY <2>1, ReturnType DEF kvaser_transfer, Reason
  <2> QED BY <1>2, <1>8, <2>1, RejectedType DEF can_send, can_recv, Op
<1>9. ASSUME NEW i \in CallIndex, NEW bad \in BOOLEAN, can_get(i, bad)
      PROVE  ScanType'
  BY <1>2, <1>9, GetType DEF can_get
<1>10. CASE can_release_interfaces
  <2>1. ret' \in Result(Reason)
    BY <1>10, ReturnType DEF can_release_interfaces, Op
  <2> QED BY <1>2, <1>10, <2>1 DEF can_release_interfaces
<1> QED BY <1>1, <1>4, <1>5, <1>6, <1>7, <1>8, <1>9, <1>10 DEF Call

LEMMA NextScanType ==
  ASSUME ScanType, [Next]_vars
  PROVE  ScanType'
<1>1. CASE kvaser_find_channel
  <2>1. CASE next' = next + 1 /\ UNCHANGED <<pc, count, steady, ret>>
    <3>1. next' \in 0 .. Channels
      BY <1>1, <2>1, KvaserAssumption DEF kvaser_find_channel, ScanType
    <3> QED BY <1>1, <2>1, <3>1 DEF kvaser_find_channel, canlib, ScanType
  <2>2. CASE EndScan("canlib") \/ EndScan("memory") \/ EndScan(NULL)
    BY <1>1, <2>2, EndScanType DEF kvaser_find_channel, canlib, Reason
  <2> QED BY <1>1, <2>1, <2>2 DEF kvaser_find_channel
<1>2. CASE kvaser_find_end
  BY <1>2, EndScanType DEF kvaser_find_end, canlib
<1>3. CASE Environment \/ UNCHANGED vars
  BY <1>3 DEF Environment, Plug, Unplug, vars, scan, ScanType
<1> QED BY <1>1, <1>2, <1>3, CallScanType DEF Next

-----------------------------------------------------------------------------
(* The invariant of the specification *)

IInv == ScanType /\ Agree(can_interface, handle)

LEMMA IInvTypes == ASSUME IInv PROVE TypeOK
  BY DEF IInv, ScanType, Agree, TypeOK, IfaceType

\* Every Kvaser slot of a table that agrees has a context.
LEMMA AgreeOwned ==
  ASSUME Agree(can_interface, handle)
  PROVE  HandlesOwned
<1>1. \A i \in Slots : OnKvaser(i) =>
        /\ can_interface[i].internal # NULL
        /\ HandleOf(i) # NoHandle <=> HasHandle(can_interface[i])
  BY DEF Agree, Sound, OnKvaser, HandleOf, HasHandle
<1> QED BY <1>1 DEF Agree, Sound, OnKvaser, HandleOf, HandlesOwned

LEMMA InitIInv == ASSUME Init PROVE IInv
<1>1. ZeroIface \in IfaceType /\ Sound(ZeroIface) /\ ~HasHandle(ZeroIface)
  BY ZeroIfaceType DEF IfaceType, ZeroIface, Sound, HasHandle
<1>2. ScanType
  BY NoCallType, KvaserAssumption DEF Init, ScanType
<1> QED BY <1>1, <1>2 DEF Init, IInv, Agree

LEMMA NextIInv == ASSUME IInv, [Next]_vars PROVE IInv'
<1>1. TypeOK /\ Step
  BY IInvTypes, NextSteps
<1>2. Agree(can_interface', handle')
  BY <1>1, StepAgrees DEF IInv, ScanType
<1>3. Agree(can_interface, handle)'
  BY <1>2 DEF Agree, Sound, HasHandle
<1> QED BY <1>3, NextScanType DEF IInv

LEMMA Invariant == Spec => []IInv
  BY InitIInv, NextIInv, PTL DEF Spec

\* Every variable keeps to its values, and no call goes through a null context.
THEOREM TypeCorrect == Spec => []TypeOK
  BY Invariant, IInvTypes, PTL

\* A Kvaser slot has a context; its flag is set exactly while that has a handle,
\* which is open, on the channel the context names, and no other slot's.
THEOREM HandlesAreOwned == Spec => []HandlesOwned
<1>1. IInv => HandlesOwned
  BY AgreeOwned DEF IInv
<1> QED BY <1>1, Invariant, PTL

-----------------------------------------------------------------------------
(* The scan passes nothing over *)

\* A channel the scan still counts on has kept its device.
SteadyAttached == \A c \in steady : bus[c] # NULL

LEMMA NextFinds ==
  ASSUME IInv, SteadyAttached, FindComplete, [Next]_vars
  PROVE  SteadyAttached' /\ FindComplete'
<1> USE DEF scan, canlib
<1>1. TypeOK
  BY IInvTypes
<1>2. ASSUME steady' = {} PROVE SteadyAttached' /\ FindComplete'
  BY <1>2 DEF SteadyAttached, FindComplete
<1>3. ASSUME pc' = "idle", UNCHANGED <<bus, steady>>
      PROVE  SteadyAttached' /\ FindComplete'
  BY <1>3 DEF SteadyAttached, FindComplete
<1>4. CASE Call
  <2>1. ASSUME NEW wanted \in BOOLEAN, can_find_interfaces_mask(wanted), wanted
        PROVE  SteadyAttached' /\ FindComplete'
    <3>1. CASE next' = 0 /\ steady' = Attached /\ UNCHANGED bus
      BY <3>1 DEF Attached, Channel, SteadyAttached, FindComplete
    <3> QED BY <1>3, <2>1, <3>1 DEF can_find_interfaces_mask
  <2>2. CASE UNCHANGED <<bus, pc, steady>> /\ pc = "idle"
    BY <1>3, <2>2
  <2>3. \/ \E wanted \in BOOLEAN : wanted /\ can_find_interfaces_mask(wanted)
        \/ UNCHANGED <<bus, pc, steady>> /\ pc = "idle"
    BY <1>4 DEF Call, can_find_interfaces_mask, can_open, can_set_baudrate, can_close,
       can_release, can_update, can_send, can_recv, can_get, can_release_interfaces
  <2> QED BY <2>1, <2>2, <2>3
<1>5. CASE kvaser_find_channel
  <2>1. CASE EndScan("canlib") \/ EndScan("memory") \/ EndScan(NULL)
    BY <1>2, <2>1 DEF EndScan
  <2>2. CASE next' = next + 1 /\ UNCHANGED <<bus, pc, steady>>
             /\ \/ KnownChannel(next) /\ UNCHANGED can_interface
                \/ \E i \in Slots : RegisterChannel(next, i)
    <3>1. SteadyAttached'
      BY <2>2 DEF SteadyAttached
    <3>2. SUFFICES ASSUME NEW c \in steady, c < next + 1
                   PROVE  \/ \E i \in Slots : can_interface'[i].name = bus[c]
                          \/ \A i \in Slots : can_interface'[i].name # NULL
      BY <2>2, <3>1 DEF FindComplete
    <3>3. c = next \/ c < next
      BY <1>1, <3>2 DEF TypeOK, Channel
    <3>4. pc = "find" /\ can_interface \in [Slots -> IfaceType] /\ bus[c] # NULL
      BY <1>1, <1>5 DEF kvaser_find_channel, TypeOK, IfaceType, SteadyAttached
    <3>5. CASE KnownChannel(next) /\ UNCHANGED can_interface
      BY <3>3, <3>4, <3>5 DEF KnownChannel, AlreadyRegistered, FindComplete
    <3>6. ASSUME NEW i \in Slots, RegisterChannel(next, i)
          PROVE  \/ \E j \in Slots : can_interface'[j].name = bus[c]
                 \/ \A j \in Slots : can_interface'[j].name # NULL
      <4>1. /\ can_interface[i].name = NULL
            /\ bus[next] # NULL
            /\ \A j \in Slots : can_interface'[j].name =
                 IF j = i THEN bus[next] ELSE can_interface[j].name
        BY <3>4, <3>6 DEF RegisterChannel, FirstFree, Free
      <4> QED BY <3>3, <3>4, <4>1 DEF FindComplete
    <3> QED BY <2>2, <3>5, <3>6
  <2> QED BY <1>5, <2>1, <2>2 DEF kvaser_find_channel
<1>6. CASE kvaser_find_end
  BY <1>2, <1>6 DEF kvaser_find_end, EndScan
<1>7. CASE Environment
  <2>1. ASSUME NEW c \in Channel, NEW n \in Device, Plug(c, n)
        PROVE  SteadyAttached' /\ FindComplete'
    <3>1. \A d \in steady : bus'[d] = bus[d]
      BY <1>1, <2>1 DEF Plug, SteadyAttached, TypeOK
    <3> QED BY <2>1, <3>1 DEF Plug, SteadyAttached, FindComplete
  <2>2. ASSUME NEW c \in Channel, Unplug(c)
        PROVE  SteadyAttached' /\ FindComplete'
    <3>1. \A d \in steady' : d \in steady /\ bus'[d] = bus[d]
      BY <1>1, <2>2 DEF Unplug, TypeOK
    <3> QED BY <2>2, <3>1 DEF Unplug, SteadyAttached, FindComplete
  <2> QED BY <1>7, <2>1, <2>2 DEF Environment
<1>8. CASE UNCHANGED vars
  BY <1>8 DEF vars, SteadyAttached, FindComplete
<1> QED BY <1>4, <1>5, <1>6, <1>7, <1>8 DEF Next

\* While a scan runs, every channel it has passed and whose device was there all
\* along is in the table under its description, or the table is full.
THEOREM ScanIsComplete == Spec => []FindComplete
<1>1. Init => SteadyAttached /\ FindComplete
  BY DEF Init, SteadyAttached, FindComplete
<1>2. IInv /\ SteadyAttached /\ FindComplete /\ [Next]_vars
        => SteadyAttached' /\ FindComplete'
  BY NextFinds
<1> QED BY <1>1, <1>2, Invariant, PTL DEF Spec

-----------------------------------------------------------------------------
(* What no step may do *)

\* What a step does to a slot's name and to its context.
LEMMA StepNames ==
  ASSUME IInv, TypeOK, Step, NEW j \in Slots
  PROVE  \/ /\ can_interface'[j].name = can_interface[j].name
            /\ can_interface[j].internal # NULL => can_interface'[j].internal # NULL
         \/ can_interface[j].name = NULL
         \/ \E S \in SUBSET Slots : j \in S /\ Releases(S)
<1> DEFINE Kept == /\ can_interface'[j].name = can_interface[j].name
                   /\ can_interface[j].internal # NULL => can_interface'[j].internal # NULL
<1>1. /\ can_interface \in [Slots -> IfaceType]
      /\ can_interface[j] \in IfaceType
      /\ Sound(can_interface[j])
  BY DEF IInv, Agree
<1>2. CASE Quiet
  BY <1>2 DEF Quiet
<1>3. ASSUME NEW i \in Slots, NEW b \in AnyBaud, StoresBaud(i, b)
      PROVE  Kept
  <2>1. can_interface'[j] = IF j = i THEN [can_interface[j] EXCEPT !.baudrate = b]
                                     ELSE can_interface[j]
    BY <1>1, <1>3 DEF StoresBaud
  <2> QED BY <1>1, <2>1, SetBaudType DEF IfaceType
<1>4. ASSUME NEW i \in Slots, NEW b \in AnyBaud, NEW op, NEW iface \in IfaceType, NEW open,
             Sound(iface), iface.vendor = "KVASER", iface.name = can_interface[i].name,
             kvaser_open(op, i, iface, open, b)
      PROVE  Kept
  <2>1. PICK x : /\ can_interface' = [can_interface EXCEPT ![i] = x]
                 /\ x.name = iface.name
                 /\ iface.internal # NULL => x.internal # NULL
    <3> HIDE DEF Kept
    <3>1. /\ [iface EXCEPT !.baudrate = b].name = iface.name
          /\ [iface EXCEPT !.baudrate = b].internal = iface.internal
          /\ \A h \in Handle : /\ Open(iface, b, h).name = iface.name
                               /\ Open(iface, b, h).internal # NULL
      BY <1>4, SetBaudType, OpenFacts DEF IfaceType
    <3>2. \/ can_interface' = [can_interface EXCEPT ![i] = [iface EXCEPT !.baudrate = b]]
          \/ \E h \in Handle :
               can_interface' = [can_interface EXCEPT ![i] = Open(iface, b, h)]
      BY <1>4, OpenCases DEF OpenFails, OpenSucceeds
    <3> QED BY <3>1, <3>2
  <2>2. iface.internal # NULL
    BY <1>4 DEF Sound
  <2> QED BY <1>1, <1>4, <2>1, <2>2
<1>5. ASSUME NEW i \in Slots, NEW b \in AnyBaud, Opens(i, b)
      PROVE  Kept
  <2>1. can_interface[i] \in IfaceType /\ Sound(can_interface[i])
    BY DEF IInv, Agree
  <2> QED BY <1>4, <1>5, <2>1 DEF Opens, OnKvaser
<1>6. ASSUME NEW i \in Slots, NEW b \in AnyBaud, Sets(i, b)
      PROVE  Kept
  <2>1. can_interface[i] \in IfaceType /\ Sound(can_interface[i])
    BY DEF IInv, Agree
  <2> QED BY <1>4, <1>6, <2>1, CloseIfaceFacts, CloseIfaceSound DEF Sets, OnKvaser
<1>7. ASSUME NEW S, Closes(S)
      PROVE  Kept
  BY <1>1, <1>7, CloseIfaceFacts DEF Closes, ClosedTable
<1>8. ASSUME NEW S \in SUBSET Slots, Releases(S), j \notin S
      PROVE  Kept
  BY <1>8 DEF Releases, ReleaseSlots
<1>9. ASSUME NEW c \in Channel, NEW i \in Slots, Registers(c, i)
      PROVE  Kept \/ can_interface[j].name = NULL
  BY <1>1, <1>9 DEF Registers, RegisterChannel, FirstFree, Free
<1>10. \A S \in {{}, Slots} \cup {{i} : i \in Slots} : S \in SUBSET Slots
  OBVIOUS
<1> QED BY <1>2, <1>3, <1>5, <1>6, <1>7, <1>8, <1>9, <1>10 DEF Step

\* Only a release and a can_update that reports it take a name or a context away
\* from a slot: they clear it, close its handle, and touch no other slot unless
\* all are released.
THEOREM RegistrationIsStable == Spec => RegistrationStable
<1> DEFINE Gone(i) ==
      /\ SlotCleared(i)
      /\ HandleOf(i) # NoHandle => handle'[HandleOf(i)] = NULL
      /\ \/ ret'.op = "release all"
         \/ /\ <<ret'.op, ret'.val>> \in {<<"release", 0>>, <<"update", -1>>}
            /\ \A j \in Slots \ {i} : can_interface'[j] = can_interface[j]
<1> HIDE DEF Gone
<1>1. ASSUME IInv, [Next]_vars, NEW i \in Slots, SlotLost(i)
      PROVE  Gone(i)
  <2>1. TypeOK /\ Step
    BY <1>1, IInvTypes, NextSteps
  <2>2. PICK S \in SUBSET Slots : i \in S /\ Releases(S)
    BY <1>1, <2>1, StepNames DEF SlotLost, Free
  <2>3. /\ can_interface[i] \in IfaceType /\ Sound(can_interface[i])
        /\ can_interface'[i] = Cleared(CloseIface(can_interface[i]))
    BY <1>1, <2>2 DEF Releases, ReleaseSlots, IInv, Agree
  <2>4. SlotCleared(i)
    BY <2>3, CloseIfaceFacts, ClearedIsZero DEF SlotCleared, IfaceType
  <2>5. ASSUME HandleOf(i) # NoHandle
        PROVE  handle'[HandleOf(i)] = NULL
    <3>1. HasHandle(can_interface[i])
      BY <1>1, <2>3, <2>5 DEF SlotLost, Free, Sound, HasHandle, HandleOf
    <3>2. HandleOf(i) \in Handle
      BY <2>3, <3>1, HandleType DEF HandleOf
    <3> QED BY <2>2, <3>1, <3>2 DEF Releases, ReleaseSlots, CloseHandles, HandleOf
  <2>6. ASSUME \A j, k \in S : j = k
        PROVE  \A j \in Slots \ {i} : can_interface'[j] = can_interface[j]
    BY <2>2, <2>6 DEF Releases, ReleaseSlots
  <2> QED BY <2>2, <2>4, <2>5, <2>6 DEF Releases, Gone
<1>2. IInv /\ [Next]_vars => [\A i \in Slots : SlotLost(i) => Gone(i)]_vars
  BY <1>1
<1> QED BY <1>2, Invariant, PTL DEF Spec, RegistrationStable, Gone

\* Where a can_open or a can_set_baudrate fails, the handle it may have opened on
\* the way is closed again.  What can_open leaves changed is the recorded rate;
\* can_set_baudrate has closed the slot's own handle before it came to open one.
THEOREM FailedOpenLeavesNothing == Spec => FailedOpenIsClean
<1> DEFINE After(i) == [can_interface'[i] EXCEPT !.baudrate = can_interface[i].baudrate]
           HandlesClean ==
             \A h \in Handle : handle'[h] # handle[h] =>
               /\ ret'.op = "set" /\ handle'[h] = NULL
               /\ \E i \in Slots : OnKvaser(i) /\ HandleOf(i) = h /\ HandleOf(i)' = NoHandle
           SlotClean(i) ==
             \/ After(i) = can_interface[i]
             \/ ret'.op = "set" /\ After(i) = CloseIface(can_interface[i])
           Clean == pc = "idle" /\ ret'.op \in {"open", "set"} /\ ret'.val = -1 =>
                      HandlesClean /\ \A i \in Slots : SlotClean(i)
<1>1. ASSUME IInv, [Next]_vars, pc = "idle", ret'.op \in {"open", "set"}, ret'.val = -1
      PROVE  HandlesClean /\ \A i \in Slots : SlotClean(i)
  <2> HIDE DEF HandlesClean
  <2>1. /\ TypeOK /\ Step
        /\ can_interface \in [Slots -> IfaceType]
        /\ \A i \in Slots : Sound(can_interface[i])
        /\ handle \in [Handle -> Channel \cup {NULL}]
    BY <1>1, IInvTypes, NextSteps DEF IInv, Agree
  <2>2. \A x \in IfaceType : [x EXCEPT !.baudrate = x.baudrate] = x
    BY DEF IfaceType, Iface
  <2>3. \A x \in IfaceType : \A b, c :
          [[x EXCEPT !.baudrate = b] EXCEPT !.baudrate = c] = [x EXCEPT !.baudrate = c]
    BY DEF IfaceType, Iface
  <2>4. UNCHANGED handle => HandlesClean
    BY DEF HandlesClean
  <2>5. ASSUME NEW i \in Slots, can_interface'[i] = can_interface[i]
        PROVE  SlotClean(i)
    <3>1. can_interface[i] \in IfaceType
      BY <2>1
    <3> QED BY <2>2, <2>5, <3>1
  <2>6. ASSUME NEW i \in Slots, NEW b, NEW x \in IfaceType,
               x.baudrate = can_interface[i].baudrate,
               can_interface' = [can_interface EXCEPT ![i] = [x EXCEPT !.baudrate = b]]
        PROVE  After(i) = x /\ \A j \in Slots \ {i} : SlotClean(j)
    <3>1. can_interface'[i] = [x EXCEPT !.baudrate = b]
      BY <2>1, <2>6
    <3>2. After(i) = x
      <4>1. After(i) = [[x EXCEPT !.baudrate = b] EXCEPT !.baudrate = x.baudrate]
        BY <2>6, <3>1
      <4>2. @ = [x EXCEPT !.baudrate = x.baudrate]
        BY <2>3, <2>6
      <4> QED BY <2>2, <2>6, <4>1, <4>2
    <3>3. \A j \in Slots \ {i} : can_interface'[j] = can_interface[j]
      BY <2>1, <2>6
    <3> QED BY <2>5, <3>2, <3>3
  <2>7. CASE Quiet
    BY <2>4, <2>5, <2>7 DEF Quiet
  <2>8. ASSUME NEW i \in Slots, NEW b \in AnyBaud, StoresBaud(i, b) \/ Opens(i, b)
        PROVE  HandlesClean /\ \A j \in Slots : SlotClean(j)
    <3>1. /\ UNCHANGED handle
          /\ can_interface' = [can_interface EXCEPT ![i] =
                                 [can_interface[i] EXCEPT !.baudrate = b]]
      <4>1. CASE StoresBaud(i, b)
        BY <4>1 DEF StoresBaud
      <4>2. CASE Opens(i, b)
        <5>1. \A h \in Handle : ~OpenSucceeds("open", i, can_interface[i], handle, b, h)
          BY <1>1, ReturnFields DEF OpenSucceeds
        <5>2. OpenFails("open", i, can_interface[i], handle, b)
          BY <4>2, <5>1, OpenCases DEF Opens
        <5>3. UNCHANGED handle
          BY <2>1, <5>2, FailureCloses
        <5> QED BY <5>2, <5>3 DEF OpenFails
      <4> QED BY <2>8, <4>1, <4>2
    <3>2. can_interface[i] \in IfaceType
      BY <2>1
    <3>3. After(i) = can_interface[i] /\ \A j \in Slots \ {i} : SlotClean(j)
      BY <2>6, <3>1, <3>2
    <3> QED BY <2>4, <3>1, <3>3
  <2>9. ASSUME NEW i \in Slots, NEW b \in AnyBaud, Sets(i, b)
        PROVE  HandlesClean /\ \A j \in Slots : SlotClean(j)
    <3> DEFINE x == CloseIface(can_interface[i])
               open == CloseHandles({i})
    <3>1. open \in [Handle -> Channel \cup {NULL}]
      BY <2>1 DEF CloseHandles
    <3>2. /\ can_interface[i] \in IfaceType /\ x \in IfaceType /\ ~HasHandle(x)
          /\ x.name = can_interface[i].name /\ x.vendor = "KVASER"
          /\ Sound(x)
      BY <2>1, <2>9, CloseIfaceFacts, CloseIfaceSound DEF Sets, OnKvaser
    <3>3. x.baudrate = can_interface[i].baudrate
      BY <3>2 DEF CloseIface, IfaceType, Iface
    <3>4. kvaser_open("set", i, x, open, b) /\ OnKvaser(i)
      BY <2>9 DEF Sets
    <3> HIDE DEF x, open
    <3>5. /\ OpenFails("set", i, x, open, b)
          /\ handle' = open
          /\ ret'.op = "set"
      <4>1. \A h \in Handle : ~OpenSucceeds("set", i, x, open, b, h)
        BY <1>1, ReturnFields DEF OpenSucceeds
      <4>2. OpenFails("set", i, x, open, b)
        BY <3>4, <4>1, OpenCases
      <4>3. ret'.op = "set"
        BY <4>2, ReturnFields DEF OpenFails
      <4> QED BY <3>1, <4>2, <4>3, FailureCloses
    <3>6. can_interface' = [can_interface EXCEPT ![i] = [x EXCEPT !.baudrate = b]]
      BY <3>5 DEF OpenFails
    <3>7. After(i) = x /\ \A j \in Slots \ {i} : SlotClean(j)
      BY <2>6, <3>2, <3>3, <3>6
    <3>8. HandleOf(i)' = NoHandle
      <4>1. can_interface'[i].internal = x.internal
        BY <2>1, <3>2, <3>6, SetBaudType DEF IfaceType
      <4>2. x.internal # NULL
        BY <2>1, <3>2, <3>4 DEF Sound, OnKvaser
      <4> QED BY <3>2, <4>1, <4>2 DEF HasHandle, HandleOf
    <3>9. \A h \in Handle : handle'[h] # handle[h] =>
            /\ handle'[h] = NULL
            /\ can_interface[i].internal.handle = h
      BY <3>5 DEF open, CloseHandles
    <3>10. HandlesClean
      BY <3>4, <3>5, <3>8, <3>9 DEF HandlesClean, HandleOf
    <3> QED BY <3>5, <3>7, <3>10 DEF x
  <2>10. \A S : ~Closes(S) /\ ~Releases(S)
    BY <1>1 DEF Closes, Releases
  <2>11. \A c, i : ~Registers(c, i)
    BY <1>1 DEF Registers
  <2> QED BY <2>1, <2>7, <2>8, <2>9, <2>10, <2>11 DEF Step
<1>2. IInv /\ [Next]_vars => [Clean]_vars
  BY <1>1
<1> QED BY <1>2, Invariant, PTL DEF Spec, FailedOpenIsClean

-----------------------------------------------------------------------------
(* How a handle can get lost *)

\* A slot that a step leaves as it was owns what it owned.
LEMMA StillOwned ==
  ASSUME NEW h, NEW k \in Slots, OnKvaser(k), HandleOf(k) = h,
         can_interface'[k].vendor = can_interface[k].vendor,
         can_interface'[k].internal = can_interface[k].internal
  PROVE  Owned(h)'
  BY DEF Owned, OnKvaser, HandleOf

\* A handle is closed when its slot is.
LEMMA ClosedWithSlot ==
  ASSUME IInv, NEW h \in Handle, NEW S, NEW k \in S, OnKvaser(k), HandleOf(k) = h
  PROVE  CloseHandles(S)[h] = NULL
<1>1. HasHandle(can_interface[k])
  BY KvaserAssumption DEF IInv, Agree, Sound, OnKvaser, HandleOf, HasHandle
<1> QED BY <1>1 DEF CloseHandles, HandleOf

LEMMA OpenKeepsOthers ==
  ASSUME IInv, NEW i \in Slots, NEW iface, NEW open, NEW b, NEW op,
         kvaser_open(op, i, iface, open, b)
  PROVE  \A k \in Slots \ {i} : can_interface'[k] = can_interface[k]
<1>1. \E x : can_interface' = [can_interface EXCEPT ![i] = x]
  BY OpenCases DEF OpenFails, OpenSucceeds
<1> QED BY <1>1 DEF IInv, Agree

\* A handle that a slot had and no slot has any more is closed, unless can_open
\* has put another handle over it.
THEOREM LossNeedsReopen == Spec => HandleLostByReopen
<1> DEFINE Reopened(h) ==
             /\ ret'.op = "open" /\ ret'.val = 0
             /\ \E i \in Slots : /\ OnKvaser(i)
                                 /\ HandleOf(i) = h
                                 /\ can_interface'[i].opened = 1
           Lost == \A h \in Handle :
                     Owned(h) /\ ~Owned(h)' /\ handle'[h] # NULL => Reopened(h)
<1>1. ASSUME IInv, [Next]_vars PROVE Lost
  <2> SUFFICES ASSUME NEW h \in Handle, NEW k \in Slots, OnKvaser(k), HandleOf(k) = h,
                      ~Owned(h)', handle'[h] # NULL
               PROVE  Reopened(h)
    BY DEF Owned
  <2> HIDE DEF Reopened
  <2>1. /\ TypeOK /\ Step
        /\ can_interface \in [Slots -> IfaceType]
        /\ can_interface[k] \in IfaceType /\ Sound(can_interface[k])
        /\ handle \in [Handle -> Channel \cup {NULL}]
    BY <1>1, IInvTypes, NextSteps DEF IInv, Agree
  <2>2. ~ /\ can_interface'[k].vendor = can_interface[k].vendor
          /\ can_interface'[k].internal = can_interface[k].internal
    BY StillOwned
  <2>3. can_interface[k].vendor = "KVASER"
    BY DEF OnKvaser
  <2>4. ~Quiet
    BY <2>2 DEF Quiet
  <2>5. ASSUME NEW i \in Slots, NEW b \in AnyBaud, StoresBaud(i, b)
        PROVE  FALSE
    BY <2>1, <2>2, <2>3, <2>5 DEF StoresBaud
  <2>6. ASSUME NEW i \in Slots, NEW b \in AnyBaud, Opens(i, b)
        PROVE  Reopened(h)
    <3>1. i = k
      BY <1>1, <2>2, <2>6, OpenKeepsOthers DEF Opens
    <3>2. CASE OpenFails("open", k, can_interface[k], handle, b)
      BY <2>1, <2>2, <3>2, SetBaudType DEF OpenFails, IfaceType
    <3>3. ASSUME NEW g \in Handle,
                 OpenSucceeds("open", k, can_interface[k], handle, b, g)
          PROVE  Reopened(h)
      <4>1. /\ can_interface'[k] = Open(can_interface[k], b, g)
            /\ ret'.op = "open" /\ ret'.val = 0
        BY <2>1, <3>3, ReturnFields DEF OpenSucceeds
      <4>2. can_interface'[k].opened = 1
        BY <2>1, <2>3, <4>1, OpenFacts
      <4> QED BY <4>1, <4>2 DEF Reopened
    <3> QED BY <2>6, <3>1, <3>2, <3>3, OpenCases DEF Opens
  <2>7. ASSUME NEW i \in Slots, NEW b \in AnyBaud, Sets(i, b)
        PROVE  FALSE
    <3> DEFINE iface == CloseIface(can_interface[k])
               open == CloseHandles({k})
    <3>1. i = k
      BY <1>1, <2>2, <2>7, OpenKeepsOthers DEF Sets
    <3>2. open[h] = NULL /\ open \in [Handle -> Channel \cup {NULL}]
      <4>1. open[h] = NULL
        BY <1>1, ClosedWithSlot
      <4>2. open \in [Handle -> Channel \cup {NULL}]
        BY <2>1 DEF CloseHandles
      <4> QED BY <4>1, <4>2
    <3>3. /\ iface \in IfaceType /\ Sound(iface) /\ iface.vendor = "KVASER"
      BY <2>1, <2>3, CloseIfaceFacts, CloseIfaceSound
    <3> HIDE DEF iface, open
    <3>4. ~OpenFails("set", k, iface, open, b)
      BY <3>2, FailureCloses
    <3>5. ASSUME NEW g \in Handle, OpenSucceeds("set", k, iface, open, b, g)
          PROVE  FALSE
      <4>1. g = h
        BY <3>2, <3>5 DEF OpenSucceeds
      <4>2. can_interface'[k] = Open(iface, b, h)
        BY <2>1, <3>5, <4>1 DEF OpenSucceeds
      <4>3. OnKvaser(k)' /\ HandleOf(k)' = h
        BY <3>3, <4>2, OpenFacts DEF OnKvaser, HandleOf
      <4> QED BY <4>3 DEF Owned
    <3> QED BY <2>7, <3>1, <3>4, <3>5, OpenCases DEF Sets, iface, open
  <2>8. ASSUME NEW S \in SUBSET Slots, Closes(S) \/ Releases(S)
        PROVE  FALSE
    <3>1. k \in S /\ handle' = CloseHandles(S)
      BY <2>2, <2>8 DEF Closes, Releases, ClosedTable, ReleaseSlots
    <3> QED BY <1>1, <3>1, ClosedWithSlot
  <2>9. ASSUME NEW c \in Channel, NEW i \in Slots, Registers(c, i)
        PROVE  FALSE
    BY <2>1, <2>2, <2>3, <2>9 DEF Registers, RegisterChannel, FirstFree, Free, Sound
  <2>10. \A S \in {{}, Slots} \cup {{i} : i \in Slots} : S \in SUBSET Slots
    OBVIOUS
  <2> QED BY <2>1, <2>4, <2>5, <2>6, <2>7, <2>8, <2>9, <2>10 DEF Step
<1>2. IInv /\ [Next]_vars => [Lost]_vars
  BY <1>1
<1> QED BY <1>2, Invariant, PTL DEF Spec, HandleLostByReopen

-----------------------------------------------------------------------------
(* The back-end implements CanLifecycle *)

\* The abstract state that a table stands for.
Names(tab) == [i \in Slots |-> tab[i].name]
Handled(tab) == {i \in Slots : HasHandle(tab[i])}

LEMMA Mapped ==
  ASSUME NEW tab, NEW hdl, Agree(tab, hdl)
  PROVE  \A i \in Slots : tab[i].vendor = "KVASER" /\ tab[i].internal.handle # NoHandle
                            <=> HasHandle(tab[i])
<1> SUFFICES ASSUME NEW i \in Slots
             PROVE  tab[i].vendor = "KVASER" /\ tab[i].internal.handle # NoHandle
                      <=> HasHandle(tab[i])
  OBVIOUS
<1>1. tab[i] \in IfaceType /\ Sound(tab[i])
  BY DEF Agree
<1>2. tab[i].vendor = "KVASER" \/ tab[i].vendor = "NONE"
  BY <1>1 DEF IfaceType, Iface
<1> QED BY <1>1, <1>2 DEF Sound, HasHandle

\* What a step does to the abstract state.
Same == /\ Names(can_interface') = Names(can_interface)
        /\ Handled(can_interface') = Handled(can_interface)

Opened(i) == /\ can_interface[i].name # NULL
             /\ Names(can_interface') = Names(can_interface)
             /\ Handled(can_interface') = Handled(can_interface) \cup {i}

Closed(i) == /\ Names(can_interface') = Names(can_interface)
             /\ Handled(can_interface') = Handled(can_interface) \ {i}

Released(S) ==
  /\ Names(can_interface') =
       [i \in Slots |-> IF i \in S THEN NULL ELSE Names(can_interface)[i]]
  /\ Handled(can_interface') = Handled(can_interface) \ S

Registered(i, n) ==
  /\ Names(can_interface)[i] = NULL
  /\ \A j \in Slots : /\ Names(can_interface)[j] # n
                      /\ j < i => Names(can_interface)[j] # NULL
  /\ Names(can_interface') = [Names(can_interface) EXCEPT ![i] = n]
  /\ Handled(can_interface') = Handled(can_interface)

LEMMA StepsImplement ==
  ASSUME IInv, TypeOK, Step
  PROVE  \/ Same
         \/ \E i \in Slots : Opened(i) \/ Closed(i)
         \/ \E S \in {Slots} \cup {{i} : i \in Slots} : Released(S)
         \/ \E i \in Slots, n \in Device : Registered(i, n)
<1> DEFINE Abstract == \/ Same
                       \/ \E i \in Slots : Opened(i) \/ Closed(i)
                       \/ \E S \in {Slots} \cup {{i} : i \in Slots} : Released(S)
                       \/ \E i \in Slots, n \in Device : Registered(i, n)
<1>1. /\ can_interface \in [Slots -> IfaceType]
      /\ \A i \in Slots : Sound(can_interface[i])
  BY DEF IInv, Agree
<1>2. ASSUME \A j \in Slots :
               /\ can_interface'[j].name = can_interface[j].name
               /\ HasHandle(can_interface'[j]) <=> HasHandle(can_interface[j])
      PROVE  Abstract
  <2>1. Same
    BY <1>2 DEF Same, Names, Handled
  <2> QED BY <2>1
<1>3. ASSUME NEW i \in Slots, can_interface[i].name # NULL,
             \A j \in Slots :
               /\ can_interface'[j].name = can_interface[j].name
               /\ HasHandle(can_interface'[j]) <=> j = i \/ HasHandle(can_interface[j])
      PROVE  Abstract
  <2>1. Opened(i)
    BY <1>3 DEF Opened, Names, Handled
  <2> QED BY <2>1
<1>4. ASSUME NEW i \in Slots,
             \A j \in Slots :
               /\ can_interface'[j].name = can_interface[j].name
               /\ HasHandle(can_interface'[j]) <=> j # i /\ HasHandle(can_interface[j])
      PROVE  Abstract
  <2>1. Closed(i)
    BY <1>4 DEF Closed, Names, Handled
  <2> QED BY <2>1
<1> HIDE DEF Abstract
<1>5. ASSUME Quiet PROVE Abstract
  <2>1. \A j \in Slots :
          /\ can_interface'[j].name = can_interface[j].name
          /\ HasHandle(can_interface'[j]) <=> HasHandle(can_interface[j])
    BY <1>5 DEF Quiet
  <2> QED BY <1>2, <2>1
<1>6. ASSUME NEW i \in Slots, NEW b \in AnyBaud, NEW x \in IfaceType,
             can_interface' = [can_interface EXCEPT ![i] = [x EXCEPT !.baudrate = b]]
      PROVE  \A j \in Slots :
               /\ can_interface'[j].name =
                    IF j = i THEN x.name ELSE can_interface[j].name
               /\ HasHandle(can_interface'[j]) <=>
                    IF j = i THEN HasHandle(x) ELSE HasHandle(can_interface[j])
  <2>1. /\ [x EXCEPT !.baudrate = b].name = x.name
        /\ [x EXCEPT !.baudrate = b].internal = x.internal
    BY SetBaudType DEF IfaceType
  <2> QED BY <1>1, <1>6, <2>1 DEF HasHandle
<1>7. ASSUME NEW i \in Slots, NEW b \in AnyBaud, StoresBaud(i, b)
      PROVE  Abstract
  <2>1. \A j \in Slots :
          /\ can_interface'[j].name = can_interface[j].name
          /\ HasHandle(can_interface'[j]) <=> HasHandle(can_interface[j])
    BY <1>1, <1>6, <1>7 DEF StoresBaud, HasHandle
  <2> QED BY <1>2, <2>1
<1>8. ASSUME NEW i \in Slots, NEW b \in AnyBaud, NEW h \in Handle, NEW x \in IfaceType,
             Sound(x), x.vendor = "KVASER", x.name = can_interface[i].name,
             can_interface' = [can_interface EXCEPT ![i] = Open(x, b, h)]
      PROVE  Abstract
  <2>1. Open(x, b, h).name = x.name /\ HasHandle(Open(x, b, h)) /\ x.name # NULL
    BY <1>8, OpenFacts DEF Sound
  <2>2. /\ can_interface'[i] = Open(x, b, h)
        /\ \A j \in Slots \ {i} : can_interface'[j] = can_interface[j]
    BY <1>1, <1>8
  <2> QED BY <1>3, <1>8, <2>1, <2>2
<1>9. ASSUME NEW i \in Slots, NEW b \in AnyBaud, Opens(i, b)
      PROVE  Abstract
  <2>1. CASE OpenFails("open", i, can_interface[i], handle, b)
    <3>1. can_interface' = [can_interface EXCEPT ![i] = [can_interface[i] EXCEPT !.baudrate = b]]
      BY <2>1 DEF OpenFails
    <3>2. can_interface[i] \in IfaceType
      BY <1>1
    <3>3. \A j \in Slots :
            /\ can_interface'[j].name =
                 IF j = i THEN can_interface[i].name ELSE can_interface[j].name
            /\ HasHandle(can_interface'[j]) <=>
                 IF j = i THEN HasHandle(can_interface[i]) ELSE HasHandle(can_interface[j])
      BY <1>6, <3>1, <3>2
    <3> QED BY <1>2, <3>3
  <2>2. ASSUME NEW h \in Handle,
               OpenSucceeds("open", i, can_interface[i], handle, b, h)
        PROVE  Abstract
    BY <1>1, <1>8, <1>9, <2>2 DEF Opens, OpenSucceeds, OnKvaser
  <2> QED BY <1>9, <2>1, <2>2, OpenCases DEF Opens
<1>10. ASSUME NEW i \in Slots, NEW b \in AnyBaud, Sets(i, b)
       PROVE  Abstract
  <2> DEFINE x == CloseIface(can_interface[i])
             open == CloseHandles({i})
  <2>1. /\ x \in IfaceType /\ Sound(x) /\ ~HasHandle(x)
        /\ x.vendor = "KVASER" /\ x.name = can_interface[i].name
    BY <1>1, <1>10, CloseIfaceFacts, CloseIfaceSound DEF Sets, OnKvaser
  <2> HIDE DEF x, open
  <2>2. CASE OpenFails("set", i, x, open, b)
    <3>1. \A j \in Slots :
            /\ can_interface'[j].name =
                 IF j = i THEN x.name ELSE can_interface[j].name
            /\ HasHandle(can_interface'[j]) <=>
                 IF j = i THEN HasHandle(x) ELSE HasHandle(can_interface[j])
      BY <1>6, <2>1, <2>2 DEF OpenFails
    <3> QED BY <1>4, <2>1, <3>1
  <2>3. ASSUME NEW h \in Handle, OpenSucceeds("set", i, x, open, b, h)
        PROVE  Abstract
    BY <1>8, <2>1, <2>3 DEF OpenSucceeds
  <2> QED BY <1>10, <2>2, <2>3, OpenCases DEF Sets, x, open
<1>11. ASSUME NEW S \in {{}} \cup {{i} : i \in Slots}, Closes(S)
       PROVE  Abstract
  <2>1. \A j \in Slots :
          /\ can_interface'[j].name = can_interface[j].name
          /\ HasHandle(can_interface'[j]) <=> j \notin S /\ HasHandle(can_interface[j])
    BY <1>1, <1>11, CloseIfaceFacts DEF Closes, ClosedTable
  <2> QED BY <1>2, <1>4, <2>1
<1>12. ASSUME NEW S \in {{}, Slots} \cup {{i} : i \in Slots}, Releases(S)
       PROVE  Abstract
  <2>1. \A j \in S : /\ Cleared(CloseIface(can_interface[j])).name = NULL
                     /\ ~HasHandle(Cleared(CloseIface(can_interface[j])))
    BY <1>1, CloseIfaceFacts, ClearedType DEF IfaceType, HasHandle
  <2>2. \A j \in Slots :
          /\ can_interface'[j].name = IF j \in S THEN NULL ELSE can_interface[j].name
          /\ HasHandle(can_interface'[j]) <=> j \notin S /\ HasHandle(can_interface[j])
    BY <1>12, <2>1 DEF Releases, ReleaseSlots
  <2>3. CASE S = {}
    BY <1>2, <2>2, <2>3
  <2>4. CASE S # {}
    <3>1. Released(S)
      BY <2>2 DEF Released, Names, Handled
    <3> QED BY <2>4, <3>1 DEF Abstract
  <2> QED BY <2>3, <2>4
<1>13. ASSUME NEW c \in Channel, NEW i \in Slots, Registers(c, i)
       PROVE  Abstract
  <2> DEFINE x == [name |-> bus[c], vendor |-> "KVASER", opened |-> 0,
                   baudrate |-> CAN_BAUD_1M,
                   internal |-> [channel |-> c, handle |-> NoHandle]]
  <2>1. x.name = bus[c] /\ ~HasHandle(x)
    BY DEF HasHandle
  <2>2. can_interface' = [can_interface EXCEPT ![i] = x]
    BY <1>13 DEF Registers, RegisterChannel
  <2> HIDE DEF x
  <2>3. /\ bus[c] \in Device /\ can_interface[i].name = NULL
        /\ \A j \in Slots : /\ can_interface[j].name # bus[c]
                            /\ j < i => can_interface[j].name # NULL
    BY <1>13 DEF Registers, RegisterChannel, FirstFree, Free, AlreadyRegistered, TypeOK
  <2>4. ~HasHandle(can_interface[i])
    BY <1>1, <2>3 DEF Sound, HasHandle
  <2>5. \A j \in Slots :
          /\ can_interface'[j].name = IF j = i THEN bus[c] ELSE can_interface[j].name
          /\ HasHandle(can_interface'[j]) <=> HasHandle(can_interface[j])
    BY <1>1, <2>1, <2>2, <2>4
  <2>6. Registered(i, bus[c])
    BY <2>3, <2>5 DEF Registered, Names, Handled
  <2> QED BY <2>3, <2>6 DEF Abstract
<1> QED BY <1>5, <1>7, <1>9, <1>10, <1>11, <1>12, <1>13 DEF Step, Abstract

\* Every step is a step of CanLifecycle, or changes nothing that it shows.
LEMMA NextImplements ==
  ASSUME IInv, IInv', [Next]_vars
  PROVE  [Lifecycle!Next]_(Lifecycle!vars)
<1> DEFINE dev == [i \in Slots |-> can_interface[i].name]
           opn == {i \in Slots : OnKvaser(i) /\ HandleOf(i) # NoHandle}
<1>1. dev = Names(can_interface) /\ dev' = Names(can_interface')
  BY DEF Names
<1>2. opn = Handled(can_interface)
  BY Mapped DEF IInv, OnKvaser, HandleOf, Handled
<1>3. opn' = Handled(can_interface')
  BY Mapped DEF IInv, OnKvaser, HandleOf, Handled
<1>4. Slots = Lifecycle!Index
  BY DEF Slots, Lifecycle!Index
<1>5. TypeOK /\ Step
  BY IInvTypes, NextSteps
<1> HIDE DEF dev, opn
<1>6. CASE Same
  BY <1>1, <1>2, <1>3, <1>6 DEF Same, Lifecycle!vars, dev, opn
<1>7. ASSUME NEW i \in Slots, Opened(i)
      PROVE  Lifecycle!Open(i)
  BY <1>1, <1>2, <1>3, <1>7 DEF Opened, Names, Lifecycle!Open, dev, opn
<1>8. ASSUME NEW i \in Slots, Closed(i)
      PROVE  Lifecycle!Close(i)
  BY <1>1, <1>2, <1>3, <1>8 DEF Closed, Lifecycle!Close, dev, opn
<1>9. ASSUME NEW S, Released(S)
      PROVE  Lifecycle!Release(S)
  BY <1>1, <1>2, <1>3, <1>4, <1>9 DEF Released, Lifecycle!Release, dev, opn
<1>10. ASSUME NEW i \in Slots, NEW n \in Device, Registered(i, n)
       PROVE  Lifecycle!Register(i, n)
  BY <1>1, <1>2, <1>3, <1>4, <1>10 DEF Registered, Lifecycle!Register, dev, opn
<1> QED
  BY <1>4, <1>5, <1>6, <1>7, <1>8, <1>9, <1>10, StepsImplement DEF Lifecycle!Next

\* The table and its handles implement CanLifecycle: an index is free, or
\* registered and closed, or registered and open, and moves between these only
\* as the public interface promises.
THEOREM ImplementsLifecycle == Spec => Refinement
<1>1. Init => Lifecycle!Init
  BY DEF Init, Lifecycle!Init, Lifecycle!Index, Slots, ZeroIface, OnKvaser
<1>2. IInv /\ IInv' /\ [Next]_vars => [Lifecycle!Next]_(Lifecycle!vars)
  BY NextImplements
<1> QED BY <1>1, <1>2, Invariant, PTL DEF Spec, Refinement, Lifecycle!Spec
=============================================================================
