---------------------------- MODULE SoftingProofs ----------------------------
(***************************************************************************)
(* Proofs about the Softing back-end, for every table size and every set   *)
(* of channels and handles.                                                *)
(***************************************************************************)
EXTENDS Softing, CanCallsProofs, FiniteSetTheorems

IfaceType == Iface({"SOFTING"}, softing_ctx_t)

-----------------------------------------------------------------------------
(* A slot that is as it should be, and a table that agrees with the handles *)

HasHandle(iface) == iface.vendor = "SOFTING" /\ iface.internal.hChannel # NoHandle

\* The name, the vendor and the context of a slot say the same; a free slot is
\* not flagged, one with a handle is.  (A flag without a handle is possible.)
Sound(iface) ==
  /\ iface.name = NULL <=> iface.vendor = "NONE"
  /\ iface.name = NULL <=> iface.internal = NULL
  /\ iface.name = NULL => iface.opened = 0
  /\ HasHandle(iface) => iface.opened = 1

\* HandlesOwned over any table and any handles, so that can_set_baudrate can be
\* followed through the table between its close and its open.
Agree(tab, hdl) ==
  /\ tab \in [Slots -> IfaceType]
  /\ hdl \in [Handle -> Device \cup {NULL}]
  /\ \A i \in Slots : Sound(tab[i])
  /\ \A i \in Slots : HasHandle(tab[i]) =>
       /\ hdl[tab[i].internal.hChannel] = tab[i].name
       /\ \A j \in Slots \ {i} : HasHandle(tab[j]) =>
            tab[j].internal.hChannel # tab[i].internal.hChannel

LEMMA HandleType ==
  ASSUME NEW iface \in IfaceType, Sound(iface), HasHandle(iface)
  PROVE  iface.internal.hChannel \in Handle /\ iface.name \in Device
<1>1. iface.name # NULL /\ iface.internal # NULL
  BY DEF Sound, HasHandle
<1> QED BY <1>1 DEF IfaceType, Iface, HasHandle, softing_ctx_t

\* A slot may be written, and handles that no other slot has with it, when the
\* handle it has afterwards is its own.
LEMMA PutSlot ==
  ASSUME NEW tab, NEW hdl, Agree(tab, hdl), NEW i \in Slots,
         NEW x \in IfaceType, Sound(x),
         NEW open \in [Handle -> Device \cup {NULL}],
         \A j \in Slots \ {i} : HasHandle(tab[j]) =>
           open[tab[j].internal.hChannel] = hdl[tab[j].internal.hChannel],
         HasHandle(x) =>
           /\ open[x.internal.hChannel] = x.name
           /\ \A j \in Slots \ {i} : HasHandle(tab[j]) =>
                tab[j].internal.hChannel # x.internal.hChannel
  PROVE  Agree([tab EXCEPT ![i] = x], open)
<1> DEFINE new == [tab EXCEPT ![i] = x]
<1>1. new \in [Slots -> IfaceType] /\ \A j \in Slots : new[j] = IF j = i THEN x ELSE tab[j]
  BY DEF Agree
<1> HIDE DEF new
<1>2. \A j \in Slots : Sound(new[j])
  BY <1>1 DEF Agree
<1>3. ASSUME NEW j \in Slots, HasHandle(new[j])
      PROVE  /\ open[new[j].internal.hChannel] = new[j].name
             /\ \A k \in Slots \ {j} : HasHandle(new[k]) =>
                  new[k].internal.hChannel # new[j].internal.hChannel
  BY <1>1, <1>3 DEF Agree
<1> QED BY <1>1, <1>2, <1>3 DEF Agree, new

\* A handle that is closed is in no slot, and one that is in a slot is in no
\* other.
LEMMA InNoOther ==
  ASSUME NEW tab, NEW hdl, Agree(tab, hdl), NEW i \in Slots, NEW h \in Handle,
         hdl[h] = NULL \/ (tab[i].vendor = "SOFTING" /\ tab[i].internal.hChannel = h)
  PROVE  \A j \in Slots \ {i} : HasHandle(tab[j]) => tab[j].internal.hChannel # h
<1> SUFFICES ASSUME NEW j \in Slots \ {i}, HasHandle(tab[j])
             PROVE  tab[j].internal.hChannel # h
  OBVIOUS
<1>1. hdl[tab[j].internal.hChannel] # NULL
  BY HandleType, TableAssumption DEF Agree
<1>2. CASE hdl[h] = NULL
  BY <1>1, <1>2
<1>3. CASE tab[i].vendor = "SOFTING" /\ tab[i].internal.hChannel = h
  <2>1. HasHandle(tab[i])
    BY <1>3, SoftingAssumption DEF HasHandle
  <2> QED BY <1>3, <2>1 DEF Agree
<1> QED BY <1>2, <1>3

-----------------------------------------------------------------------------
(* Writing the context of a slot *)

Put(iface, h) == [iface EXCEPT !.internal.hChannel = h]
Opened(iface, h) == [iface EXCEPT !.internal.hChannel = h, !.opened = 1]

LEMMA PutFacts ==
  ASSUME NEW iface \in IfaceType, Sound(iface), iface.vendor = "SOFTING",
         NEW h \in Handle \cup {NoHandle}
  PROVE  /\ Put(iface, h) \in IfaceType
         /\ Put(iface, h).name = iface.name
         /\ Put(iface, h).vendor = "SOFTING"
         /\ Put(iface, h).opened = iface.opened
         /\ Put(iface, h).internal # NULL
         /\ Put(iface, h).internal.hChannel = h
         /\ HasHandle(Put(iface, h)) <=> h # NoHandle
         /\ h = NoHandle \/ h = iface.internal.hChannel => Sound(Put(iface, h))
<1> DEFINE x == [iface.internal EXCEPT !.hChannel = h]
           y == Put(iface, h)
<1>1. iface.name # NULL /\ iface.internal \in softing_ctx_t
  BY DEF Sound, IfaceType, Iface
<1>2. x \in softing_ctx_t /\ x.hChannel = h /\ x # NULL
  BY <1>1, SoftingAssumption DEF softing_ctx_t
<1>3. y = [iface EXCEPT !.internal = x]
  BY DEF Put, IfaceType, Iface
<1> HIDE DEF x
<1>4. /\ y \in IfaceType /\ y.name = iface.name /\ y.vendor = iface.vendor
      /\ y.opened = iface.opened /\ y.internal = x
  BY <1>2, <1>3 DEF IfaceType, Iface
<1> HIDE DEF y
<1>5. HasHandle(y) <=> h # NoHandle
  BY <1>2, <1>4 DEF HasHandle
<1>6. h = NoHandle \/ h = iface.internal.hChannel => Sound(y)
  BY <1>1, <1>2, <1>4, <1>5 DEF Sound, HasHandle
<1> QED BY <1>2, <1>4, <1>5, <1>6 DEF y

LEMMA OpenedFacts ==
  ASSUME NEW iface \in IfaceType, Sound(iface), iface.vendor = "SOFTING",
         NEW h \in Handle
  PROVE  /\ Opened(iface, h) \in IfaceType
         /\ Opened(iface, h).name = iface.name
         /\ Opened(iface, h).vendor = "SOFTING"
         /\ Opened(iface, h).opened = 1
         /\ Opened(iface, h).internal # NULL
         /\ Opened(iface, h).internal.hChannel = h
         /\ HasHandle(Opened(iface, h))
         /\ Sound(Opened(iface, h))
<1> DEFINE x == Put(iface, h)
           y == Opened(iface, h)
<1>1. /\ x \in IfaceType /\ x.name = iface.name /\ x.vendor = "SOFTING"
      /\ x.internal # NULL /\ x.internal.hChannel = h
  BY PutFacts
<1>2. y = [x EXCEPT !.opened = 1]
  BY DEF Put, Opened, IfaceType, Iface
<1> HIDE DEF x
<1>3. /\ y \in IfaceType /\ y.name = x.name /\ y.vendor = x.vendor
      /\ y.opened = 1 /\ y.internal = x.internal
  BY <1>1, <1>2 DEF IfaceType, Iface
<1> HIDE DEF y
<1>4. HasHandle(y)
  BY <1>1, <1>3, SoftingAssumption DEF HasHandle
<1>5. iface.name # NULL
  BY DEF Sound
<1>6. Sound(y)
  BY <1>1, <1>3, <1>4, <1>5 DEF Sound
<1> QED BY <1>1, <1>3, <1>4, <1>6 DEF y

LEMMA CloseFacts ==
  ASSUME NEW iface \in IfaceType, Sound(iface), iface.vendor = "SOFTING"
  PROVE  /\ CloseIface(iface) \in IfaceType
         /\ CloseIface(iface).name = iface.name
         /\ CloseIface(iface).vendor = "SOFTING"
         /\ CloseIface(iface).opened = 0
         /\ CloseIface(iface).internal.hChannel = NoHandle
         /\ ~HasHandle(CloseIface(iface))
         /\ Sound(CloseIface(iface))
<1> DEFINE x == Put(iface, NoHandle)
           y == CloseIface(iface)
<1>1. /\ x \in IfaceType /\ x.name = iface.name /\ x.vendor = "SOFTING"
      /\ x.internal # NULL /\ x.internal.hChannel = NoHandle
  BY PutFacts
<1>2. y = [x EXCEPT !.opened = 0]
  BY DEF Put, CloseIface, IfaceType, Iface
<1> HIDE DEF x
<1>3. /\ y \in IfaceType /\ y.name = x.name /\ y.vendor = x.vendor
      /\ y.opened = 0 /\ y.internal = x.internal
  BY <1>1, <1>2 DEF IfaceType, Iface
<1> HIDE DEF y
<1>4. ~HasHandle(y) /\ iface.name # NULL
  BY <1>1, <1>3 DEF HasHandle, Sound
<1>5. Sound(y)
  BY <1>1, <1>3, <1>4 DEF Sound
<1> QED BY <1>1, <1>3, <1>4, <1>5 DEF y

\* Recording a rate changes nothing else about a slot.
LEMMA BaudFacts ==
  ASSUME NEW iface \in IfaceType, NEW b \in AnyBaud
  PROVE  /\ [iface EXCEPT !.baudrate = b] \in IfaceType
         /\ [iface EXCEPT !.baudrate = b].name = iface.name
         /\ [iface EXCEPT !.baudrate = b].vendor = iface.vendor
         /\ [iface EXCEPT !.baudrate = b].opened = iface.opened
         /\ [iface EXCEPT !.baudrate = b].internal = iface.internal
         /\ HasHandle([iface EXCEPT !.baudrate = b]) <=> HasHandle(iface)
         /\ Sound(iface) => Sound([iface EXCEPT !.baudrate = b])
<1> DEFINE x == [iface EXCEPT !.baudrate = b]
<1>1. /\ x \in IfaceType /\ x.name = iface.name /\ x.vendor = iface.vendor
      /\ x.opened = iface.opened /\ x.internal = iface.internal
  BY SetBaudType DEF IfaceType
<1> HIDE DEF x
<1>2. HasHandle(x) <=> HasHandle(iface)
  BY <1>1 DEF HasHandle
<1>3. Sound(iface) => Sound(x)
  BY <1>1, <1>2 DEF Sound
<1> QED BY <1>1, <1>2, <1>3 DEF x

\* What the slots say of the driver does not depend on the recorded rates.
LEMMA RateAgrees ==
  ASSUME NEW tab, NEW hdl, Agree(tab, hdl),
         NEW new \in [Slots -> IfaceType],
         \A i \in Slots : /\ new[i].name = tab[i].name
                          /\ new[i].vendor = tab[i].vendor
                          /\ new[i].opened = tab[i].opened
                          /\ new[i].internal = tab[i].internal
  PROVE  Agree(new, hdl)
<1>1. \A i \in Slots : /\ HasHandle(new[i]) <=> HasHandle(tab[i])
                       /\ new[i].internal = tab[i].internal
                       /\ new[i].name = tab[i].name
                       /\ Sound(new[i])
  BY DEF Agree, Sound, HasHandle
<1> QED BY <1>1 DEF Agree

-----------------------------------------------------------------------------
(* What a step may do to the table and to the handles *)

Quiet == UNCHANGED <<can_interface, chan>>

\* The slots of S closed.
ClosedTable(S) ==
  [i \in Slots |-> IF i \in S /\ OnSofting(i) THEN CloseIface(can_interface[i])
                                              ELSE can_interface[i]]

\* can_open stores the rate before it finds that the slot is free.
StoresBaud(i, b) ==
  /\ i \in Slots
  /\ can_interface[i].vendor = "NONE"
  /\ can_interface' = [can_interface EXCEPT ![i].baudrate = b]
  /\ UNCHANGED chan

WithBaud(iface, b) == [iface EXCEPT !.baudrate = b]

Opens(i, b) ==
  OnSofting(i) /\ softing_open("open", i, WithBaud(can_interface[i], b), chan)

Sets(i, b) ==
  /\ OnSofting(i)
  /\ softing_open("set", i, WithBaud(CloseIface(can_interface[i]), b), CloseHandles({i}))

Closes(S) == can_interface' = ClosedTable(S) /\ chan' = CloseHandles(S)

Registers(c, i) == RegisterChannel(c, i) /\ UNCHANGED chan

Step ==
  \/ Quiet
  \/ \E i \in Slots, b \in AnyBaud : StoresBaud(i, b) \/ Opens(i, b) \/ Sets(i, b)
  \/ \E S \in {{}} \cup {{i} : i \in Slots} : Closes(S)
  \/ \E S \in {{}, Slots} \cup {{i} : i \in Slots} : ReleaseSlots(S)
  \/ \E c \in Device, i \in Slots : Registers(c, i)

LEMMA CallSteps ==
  ASSUME Call
  PROVE  Step
<1>1. ASSUME NEW wanted \in BOOLEAN, can_find_interfaces_mask(wanted)
      PROVE  Step
  BY <1>1 DEF can_find_interfaces_mask, Step, Quiet
<1>2. ASSUME NEW i \in CallIndex, NEW b \in AnyBaud, can_open(i, b)
      PROVE  Step
  <2>1. CASE OpenRejected(i, b) /\ UNCHANGED chan
    BY <2>1, OpenRejectedTable DEF Step, Quiet, StoresBaud
  <2>2. CASE Opens(i, b)
    BY <2>2 DEF OnSofting, Step, Opens
  <2> QED BY <1>2, <2>1, <2>2 DEF can_open, Opens, WithBaud
<1>3. ASSUME NEW i \in CallIndex, NEW b \in AnyBaud, can_set_baudrate(i, b)
      PROVE  Step
  <2>1. CASE SetRejected(i, b) /\ UNCHANGED chan
    BY <2>1 DEF SetRejected, Step, Quiet
  <2>2. CASE Sets(i, b)
    BY <2>2 DEF OnSofting, Step, Sets
  <2> QED BY <1>3, <2>1, <2>2 DEF can_set_baudrate, Sets, WithBaud
<1>4. ASSUME NEW i \in CallIndex
      PROVE  {i} \cap Slots \in {{}} \cup {{j} : j \in Slots}
  <2>1. CASE i \in Slots
    BY <2>1
  <2>2. CASE i \notin Slots
    BY <2>2
  <2> QED BY <2>1, <2>2
<1>5. ASSUME NEW i \in CallIndex, can_close(i)
      PROVE  Step
  <2>1. Closes({i} \cap Slots)
    BY <1>5 DEF can_close, Closes, ClosedTable
  <2> QED BY <1>4, <2>1 DEF Step
<1>6. ASSUME NEW i \in CallIndex, can_release(i)
      PROVE  Step
  BY <1>4, <1>6 DEF can_release, Step
<1>7. ASSUME can_release_interfaces
      PROVE  Step
  BY <1>7 DEF can_release_interfaces, Step
<1>8. ASSUME NEW i \in CallIndex, can_update(i)
      PROVE  Step
  <2>1. CASE Rejected("update", i) /\ UNCHANGED chan
    BY <2>1 DEF Rejected, Step, Quiet
  <2>2. CASE OnSofting(i) /\ softing_update(i)
    <3>1. CASE UNCHANGED <<can_interface, chan>>
      BY <3>1 DEF Step, Quiet
    <3>2. CASE ReleaseSlots({i})
      BY <2>2, <3>2 DEF OnSofting, Step
    <3> QED BY <2>2, <3>1, <3>2 DEF softing_update
  <2> QED BY <1>8, <2>1, <2>2 DEF can_update
<1>9. ASSUME NEW i \in CallIndex, can_send(i) \/ can_recv(i)
      PROVE  Step
  BY <1>9 DEF can_send, can_recv, Rejected, Step, Quiet
<1>10. ASSUME NEW i \in CallIndex, NEW bad \in BOOLEAN, can_get(i, bad)
       PROVE  Step
  BY <1>10 DEF can_get, Get, Step, Quiet
<1> QED BY <1>1, <1>2, <1>3, <1>5, <1>6, <1>7, <1>8, <1>9, <1>10 DEF Call

LEMMA NextSteps ==
  ASSUME [Next]_vars
  PROVE  Step
<1>1. ASSUME NEW c \in Device, softing_find_channel(c)
      PROVE  Step
  <2>1. CASE UNCHANGED can_interface
    BY <1>1, <2>1 DEF softing_find_channel, Step, Quiet
  <2>2. ASSUME NEW i \in Slots, RegisterChannel(c, i)
        PROVE  Step
    <3>1. Registers(c, i)
      BY <1>1, <2>2 DEF softing_find_channel, Registers
    <3> QED BY <3>1 DEF Step
  <2> QED BY <1>1, <2>1, <2>2 DEF softing_find_channel
<1>2. CASE softing_list \/ softing_find_end \/ Environment \/ UNCHANGED vars
  BY <1>2 DEF softing_list, softing_find_end, Environment, Plug, Unplug, vars, Step, Quiet
<1> QED BY <1>1, <1>2, CallSteps DEF Next, Scan

\* The outcomes of softing_open, on the slot and the handles as it finds them:
\* no handle, a handle that is closed again, a handle that is started.
OpenFails(op, i, iface, open, h) ==
  /\ h = iface.internal.hChannel \/ h = NoHandle
  /\ can_interface' = [can_interface EXCEPT ![i] = Put(iface, h)]
  /\ chan' = open
  /\ Return(op, -1, "canl2")

OpenAborts(op, i, iface, open, h) ==
  /\ open[h] = NULL \/ h = iface.internal.hChannel
  /\ can_interface' = [can_interface EXCEPT ![i] = Put(iface, NoHandle)]
  /\ chan' = [open EXCEPT ![h] = NULL]
  /\ Return(op, -1, "canl2")

OpenSucceeds(op, i, iface, open, h) ==
  /\ open[h] = NULL \/ h = iface.internal.hChannel
  /\ can_interface' = [can_interface EXCEPT ![i] = Opened(iface, h)]
  /\ chan' = [open EXCEPT ![h] = iface.name]
  /\ Return(op, 0, NULL)

LEMMA OpenCases ==
  ASSUME NEW op, NEW i, NEW iface, NEW open, softing_open(op, i, iface, open)
  PROVE  \/ \E h : OpenFails(op, i, iface, open, h)
         \/ \E h \in Handle : \/ OpenAborts(op, i, iface, open, h)
                              \/ OpenSucceeds(op, i, iface, open, h)
<1>1. CASE /\ \E h \in {iface.internal.hChannel, NoHandle} :
                can_interface' = [can_interface EXCEPT ![i] = Put(iface, h)]
           /\ chan' = open
           /\ Return(op, -1, "canl2")
  BY <1>1, Zenon DEF OpenFails
<1>2. CASE \E h \in Handle : \/ OpenAborts(op, i, iface, open, h)
                             \/ OpenSucceeds(op, i, iface, open, h)
  BY <1>2
<1> QED
  BY <1>1, <1>2, Zenon DEF softing_open, OpenAborts, OpenSucceeds, Put, Opened

-----------------------------------------------------------------------------
(* Every step keeps table and handles in agreement *)

\* softing_close on every slot of S.
LEMMA CloseAgrees ==
  ASSUME Agree(can_interface, chan), NEW S \in SUBSET Slots
  PROVE  Agree(ClosedTable(S), CloseHandles(S))
<1> DEFINE tab == ClosedTable(S)
           hdl == CloseHandles(S)
<1>1. /\ tab \in [Slots -> IfaceType]
      /\ hdl \in [Handle -> Device \cup {NULL}]
      /\ \A i \in Slots : Sound(tab[i])
  BY CloseFacts DEF Agree, ClosedTable, CloseHandles, OnSofting
<1>2. \A i \in Slots : HasHandle(tab[i]) => i \notin S /\ tab[i] = can_interface[i]
  BY CloseFacts DEF Agree, ClosedTable, OnSofting, HasHandle
<1>3. ASSUME NEW i \in Slots, HasHandle(tab[i])
      PROVE  hdl[tab[i].internal.hChannel] = chan[tab[i].internal.hChannel]
  <2>1. tab[i].internal.hChannel \in Handle
    BY <1>1, <1>3, HandleType
  <2>2. \A j \in S : hChannel(j) # tab[i].internal.hChannel
    <3> SUFFICES ASSUME NEW j \in S, hChannel(j) = tab[i].internal.hChannel
                 PROVE  FALSE
      OBVIOUS
    <3>1. HasHandle(can_interface[j]) /\ j # i
      BY <1>2, <1>3, <2>1, SoftingAssumption DEF hChannel, OnSofting, HasHandle
    <3> QED BY <1>2, <1>3, <3>1 DEF Agree, hChannel, OnSofting, HasHandle
  <2> QED BY <2>1, <2>2 DEF CloseHandles
<1> HIDE DEF tab, hdl
<1>4. \A i \in Slots : HasHandle(tab[i]) =>
        /\ hdl[tab[i].internal.hChannel] = tab[i].name
        /\ \A j \in Slots \ {i} : HasHandle(tab[j]) =>
             tab[j].internal.hChannel # tab[i].internal.hChannel
  BY <1>2, <1>3 DEF Agree
<1> QED BY <1>1, <1>4 DEF Agree, tab, hdl

\* can_release of every slot of S.
LEMMA ReleaseAgrees ==
  ASSUME Agree(can_interface, chan), NEW S \in SUBSET Slots, ReleaseSlots(S)
  PROVE  Agree(can_interface', chan')
<1> DEFINE tab == ClosedTable(S)
<1>1. Agree(tab, CloseHandles(S))
  BY CloseAgrees
<1>2. chan' = CloseHandles(S) /\ can_interface \in [Slots -> IfaceType]
  BY DEF ReleaseSlots, Agree
<1>3. \A i \in Slots : i \notin S => can_interface'[i] = tab[i]
  BY DEF ReleaseSlots, ClosedTable
<1>4. \A i \in S : can_interface'[i] = Cleared(can_interface[i])
  BY DEF ReleaseSlots
<1> HIDE DEF tab
<1>5. tab \in [Slots -> IfaceType]
  BY <1>1 DEF Agree
<1>6. \A i \in S : /\ can_interface'[i] \in IfaceType
                   /\ Sound(can_interface'[i])
                   /\ ~HasHandle(can_interface'[i])
  BY <1>2, <1>4, ClearedType DEF IfaceType, Sound, HasHandle
<1>7. can_interface' \in [Slots -> IfaceType]
  BY <1>3, <1>5, <1>6 DEF ReleaseSlots
<1>8. \A i \in Slots : HasHandle(can_interface'[i]) => can_interface'[i] = tab[i]
  BY <1>3, <1>6
<1> QED BY <1>1, <1>2, <1>3, <1>6, <1>7, <1>8 DEF Agree

LEMMA OpenAgrees ==
  ASSUME NEW tab, NEW hdl, Agree(tab, hdl), NEW i \in Slots, tab[i].vendor = "SOFTING",
         \A x : [can_interface EXCEPT ![i] = x] = [tab EXCEPT ![i] = x],
         NEW b \in AnyBaud, NEW op, softing_open(op, i, WithBaud(tab[i], b), hdl)
  PROVE  Agree(can_interface', chan')
<1> DEFINE iface == WithBaud(tab[i], b)
<1>1. /\ iface \in IfaceType /\ Sound(iface)
      /\ iface.vendor = "SOFTING" /\ iface.name = tab[i].name
      /\ iface.internal = tab[i].internal
  BY BaudFacts DEF Agree, WithBaud
<1> HIDE DEF iface
<1>2. /\ hdl \in [Handle -> Device \cup {NULL}]
      /\ iface.name \in Device
      /\ iface.internal.hChannel \in Handle \cup {NoHandle}
  BY <1>1 DEF Agree, Sound, IfaceType, Iface, softing_ctx_t
<1>3. \A j \in Slots \ {i} : HasHandle(tab[j]) => tab[j].internal.hChannel \in Handle
  BY HandleType DEF Agree
<1>4. ASSUME NEW h, OpenFails(op, i, iface, hdl, h)
      PROVE  Agree(can_interface', chan')
  <2> DEFINE x == Put(iface, h)
  <2>1. h \in Handle \cup {NoHandle}
    BY <1>2, <1>4 DEF OpenFails
  <2>2. /\ x \in IfaceType /\ Sound(x) /\ x.name = tab[i].name
        /\ x.internal.hChannel = h /\ (HasHandle(x) => h \in Handle)
    BY <1>1, <1>4, <2>1, PutFacts DEF OpenFails
  <2>3. can_interface' = [tab EXCEPT ![i] = x] /\ chan' = hdl
    BY <1>4 DEF OpenFails
  <2>4. HasHandle(x) => HasHandle(tab[i]) /\ tab[i].internal.hChannel = h
    BY <1>1, <1>4, <2>1, PutFacts DEF OpenFails, HasHandle
  <2> HIDE DEF x
  <2>5. HasHandle(x) => /\ hdl[x.internal.hChannel] = x.name
                        /\ \A j \in Slots \ {i} : HasHandle(tab[j]) =>
                             tab[j].internal.hChannel # x.internal.hChannel
    BY <2>2, <2>4 DEF Agree
  <2>6. Agree([tab EXCEPT ![i] = x], hdl)
    BY <1>2, <2>2, <2>5, PutSlot
  <2> QED BY <2>3, <2>6
<1>5. ASSUME NEW h \in Handle, OpenAborts(op, i, iface, hdl, h)
      PROVE  Agree(can_interface', chan')
  <2> DEFINE x == Put(iface, NoHandle)
             open == [hdl EXCEPT ![h] = NULL]
  <2>1. x \in IfaceType /\ Sound(x) /\ ~HasHandle(x)
    BY <1>1, PutFacts
  <2>2. can_interface' = [tab EXCEPT ![i] = x] /\ chan' = open
    BY <1>5 DEF OpenAborts
  <2>3. /\ open \in [Handle -> Device \cup {NULL}]
        /\ \A g \in Handle : g # h => open[g] = hdl[g]
    BY <1>2
  <2> HIDE DEF x, open
  <2>4. \A j \in Slots \ {i} : HasHandle(tab[j]) => tab[j].internal.hChannel # h
    BY <1>1, <1>5, InNoOther DEF OpenAborts
  <2>5. \A j \in Slots \ {i} : HasHandle(tab[j]) =>
          open[tab[j].internal.hChannel] = hdl[tab[j].internal.hChannel]
    BY <1>3, <2>3, <2>4
  <2>6. Agree([tab EXCEPT ![i] = x], open)
    BY <2>1, <2>3, <2>4, <2>5, PutSlot
  <2> QED BY <2>2, <2>6
<1>6. ASSUME NEW h \in Handle, OpenSucceeds(op, i, iface, hdl, h)
      PROVE  Agree(can_interface', chan')
  <2> DEFINE x == Opened(iface, h)
             open == [hdl EXCEPT ![h] = iface.name]
  <2>1. /\ x \in IfaceType /\ Sound(x)
        /\ x.name = iface.name /\ x.internal.hChannel = h
    BY <1>1, OpenedFacts
  <2>2. can_interface' = [tab EXCEPT ![i] = x] /\ chan' = open
    BY <1>6 DEF OpenSucceeds
  <2>3. /\ open \in [Handle -> Device \cup {NULL}]
        /\ open[h] = iface.name
        /\ \A g \in Handle : g # h => open[g] = hdl[g]
    BY <1>2
  <2> HIDE DEF x, open
  <2>4. \A j \in Slots \ {i} : HasHandle(tab[j]) => tab[j].internal.hChannel # h
    BY <1>1, <1>6, InNoOther DEF OpenSucceeds
  <2>5. \A j \in Slots \ {i} : HasHandle(tab[j]) =>
          open[tab[j].internal.hChannel] = hdl[tab[j].internal.hChannel]
    BY <1>3, <2>3, <2>4
  <2>6. Agree([tab EXCEPT ![i] = x], open)
    BY <2>1, <2>3, <2>4, <2>5, PutSlot
  <2> QED BY <2>2, <2>6
<1> QED BY <1>4, <1>5, <1>6, OpenCases DEF iface

\* The slot a channel is registered in.
NewIface(c) ==
  [name |-> c, vendor |-> "SOFTING", opened |-> 0,
   baudrate |-> CAN_BAUD_1M, internal |-> [hChannel |-> NoHandle]]

LEMMA NewIfaceFacts ==
  ASSUME NEW c \in Device
  PROVE  /\ NewIface(c) \in IfaceType
         /\ NewIface(c).name = c
         /\ Sound(NewIface(c)) /\ ~HasHandle(NewIface(c))
<1> DEFINE x == [hChannel |-> NoHandle]
<1>1. x \in softing_ctx_t /\ x.hChannel = NoHandle /\ x # NULL
  BY SoftingAssumption DEF softing_ctx_t
<1>2. c # NULL /\ CAN_BAUD_1M \in AnyBaud
  BY TableAssumption DEF AnyBaud
<1> HIDE DEF x
<1>3. NewIface(c) = [name |-> c, vendor |-> "SOFTING", opened |-> 0,
                     baudrate |-> CAN_BAUD_1M, internal |-> x]
  BY DEF NewIface, x
<1>4. NewIface(c) \in IfaceType
  BY <1>1, <1>2, <1>3 DEF IfaceType, Iface
<1> QED BY <1>1, <1>2, <1>3, <1>4 DEF Sound, HasHandle

\* A slot written without a handle, with the handles left alone.
LEMMA PutPlain ==
  ASSUME NEW tab, NEW hdl, Agree(tab, hdl), NEW i \in Slots,
         NEW x \in IfaceType, Sound(x), ~HasHandle(x)
  PROVE  Agree([tab EXCEPT ![i] = x], hdl)
<1>1. hdl \in [Handle -> Device \cup {NULL}]
  BY DEF Agree
<1> QED BY <1>1, PutSlot

\* A registration as far as the table and the handles go: any free slot does.
Fills(c, i) ==
  can_interface' = [can_interface EXCEPT ![i] = NewIface(c)] /\ UNCHANGED chan

LEMMA FillAgrees ==
  ASSUME Agree(can_interface, chan), NEW c \in Device, NEW i \in Slots, Fills(c, i)
  PROVE  Agree(can_interface', chan')
<1>1. Agree([can_interface EXCEPT ![i] = NewIface(c)], chan)
  BY NewIfaceFacts, PutPlain
<1> QED BY <1>1 DEF Fills

LEMMA StepAgrees ==
  ASSUME Agree(can_interface, chan), Step
  PROVE  Agree(can_interface', chan')
<1>1. CASE Quiet
  BY <1>1 DEF Quiet
<1>2. ASSUME NEW i \in Slots, NEW b \in AnyBaud, StoresBaud(i, b)
      PROVE  Agree(can_interface', chan')
  <2> DEFINE x == [can_interface[i] EXCEPT !.baudrate = b]
  <2>1. x \in IfaceType /\ Sound(x) /\ ~HasHandle(x)
    BY <1>2, BaudFacts DEF Agree, StoresBaud, HasHandle
  <2>2. can_interface' = [can_interface EXCEPT ![i] = x] /\ chan' = chan
    BY <1>2 DEF StoresBaud
  <2> HIDE DEF x
  <2>3. Agree([can_interface EXCEPT ![i] = x], chan)
    BY <2>1, PutPlain
  <2> QED BY <2>2, <2>3
<1>3. ASSUME NEW i \in Slots, NEW b \in AnyBaud, Opens(i, b)
      PROVE  Agree(can_interface', chan')
  BY <1>3, OpenAgrees DEF Opens, OnSofting
<1>4. ASSUME NEW i \in Slots, NEW b \in AnyBaud, Sets(i, b)
      PROVE  Agree(can_interface', chan')
  <2> DEFINE tab == ClosedTable({i})
  <2>1. Agree(tab, CloseHandles({i}))
    BY CloseAgrees
  <2>2. /\ tab[i] = CloseIface(can_interface[i])
        /\ \A x : [can_interface EXCEPT ![i] = x] = [tab EXCEPT ![i] = x]
    BY <1>4 DEF Agree, ClosedTable, Sets
  <2>3. tab[i].vendor = "SOFTING"
    BY <1>4, <2>2, CloseFacts DEF Agree, Sets, OnSofting
  <2> HIDE DEF tab
  <2> QED BY <1>4, <2>1, <2>2, <2>3, OpenAgrees DEF Sets
<1>5. ASSUME NEW S \in SUBSET Slots, Closes(S)
      PROVE  Agree(can_interface', chan')
  BY <1>5, CloseAgrees DEF Closes
<1>6. ASSUME NEW S \in SUBSET Slots, ReleaseSlots(S)
      PROVE  Agree(can_interface', chan')
  BY <1>6, ReleaseAgrees
<1>7. ASSUME NEW c \in Device, NEW i \in Slots, Registers(c, i)
      PROVE  Agree(can_interface', chan')
  <2>1. Fills(c, i)
    BY <1>7 DEF Registers, RegisterChannel, NewIface, Fills
  <2> QED BY <2>1, FillAgrees
<1>8. \A S \in {{}, Slots} \cup {{i} : i \in Slots} : S \in SUBSET Slots
  OBVIOUS
<1> QED BY <1>1, <1>2, <1>3, <1>4, <1>5, <1>6, <1>7, <1>8 DEF Step

-----------------------------------------------------------------------------
(* The variables the table is not part of *)

ScanType ==
  /\ ret \in Result(Reason)
  /\ present \subseteq Device
  /\ pc \in {"idle", "list", "find"}
  /\ room \in Nat
  /\ todo \subseteq Device

LEMMA EndScanType ==
  ASSUME ScanType, NEW why \in Reason \cup {NULL}, EndScan(why), UNCHANGED present
  PROVE  ScanType'
<1>1. ret' \in Result(Reason)
  BY ReturnType DEF EndScan, Op
<1> QED BY <1>1 DEF EndScan, ScanType

LEMMA CallScanType ==
  ASSUME ScanType, Call
  PROVE  ScanType'
<1> USE DEF scan
<1>1. ASSUME NEW wanted \in BOOLEAN, can_find_interfaces_mask(wanted)
      PROVE  ScanType'
  <2>1. CASE EndScan("memory")
    BY <1>1, <2>1, EndScanType DEF can_find_interfaces_mask, Reason
  <2>2. CASE pc' = "list" /\ room' = Cardinality(present) /\ ret' = NoCall /\ UNCHANGED todo
    <3>1. Cardinality(present) \in Nat
      BY FS_Subset, FS_CardinalityType, SoftingAssumption DEF ScanType
    <3> QED BY <1>1, <2>2, <3>1, NoCallType DEF can_find_interfaces_mask, ScanType
  <2>3. CASE Return("find", 0, NULL) /\ UNCHANGED scan
    <3>1. ret' \in Result(Reason)
      BY <2>3, ReturnType DEF Op
    <3> QED BY <1>1, <2>3, <3>1 DEF can_find_interfaces_mask, ScanType
  <2> QED BY <1>1, <2>1, <2>2, <2>3 DEF can_find_interfaces_mask
<1>2. ASSUME UNCHANGED <<present, scan>>, ret' \in Result(Reason)
      PROVE  ScanType'
  BY <1>2 DEF ScanType
<1>3. ASSUME NEW op \in Op, NEW i, NEW iface, NEW open, softing_open(op, i, iface, open)
      PROVE  ret' \in Result(Reason)
  <2>1. Return(op, -1, "canl2") \/ Return(op, 0, NULL)
    BY <1>3, OpenCases DEF OpenFails, OpenAborts, OpenSucceeds
  <2> QED BY <2>1, ReturnType DEF Reason
<1>4. ASSUME NEW i \in CallIndex, NEW b \in AnyBaud, can_open(i, b)
      PROVE  ScanType'
  BY <1>2, <1>3, <1>4, OpenRejectedType DEF can_open, Op
<1>5. ASSUME NEW i \in CallIndex, NEW b \in AnyBaud, can_set_baudrate(i, b)
      PROVE  ScanType'
  BY <1>2, <1>3, <1>5, SetRejectedType DEF can_set_baudrate, Op
<1>6. ASSUME NEW i \in CallIndex, can_close(i) \/ can_release(i)
      PROVE  ScanType'
  <2>1. ret' \in Result(Reason)
    BY <1>6, ReturnType DEF can_close, can_release, Op
  <2> QED BY <1>2, <1>6, <2>1 DEF can_close, can_release
<1>7. ASSUME NEW i \in CallIndex, can_update(i)
      PROVE  ScanType'
  <2>1. ASSUME softing_update(i) PROVE ret' \in Result(Reason)
    BY <2>1, ReturnType DEF softing_update, Op
  <2> QED BY <1>2, <1>7, <2>1, RejectedType DEF can_update, Op
<1>8. ASSUME NEW i \in CallIndex, can_send(i) \/ can_recv(i)
      PROVE  ScanType'
  <2>1. ASSUME NEW op \in Op, softing_transfer(op, i) PROVE ret' \in Result(Reason)
    BY <2>1, ReturnType DEF softing_transfer, Reason
  <2> QED BY <1>2, <1>8, <2>1, RejectedType DEF can_send, can_recv, Op
<1>9. ASSUME NEW i \in CallIndex, NEW bad \in BOOLEAN, can_get(i, bad)
      PROVE  ScanType'
  BY <1>2, <1>9, GetType DEF can_get
<1>10. CASE can_release_interfaces
  <2>1. ret' \in Result(Reason)
    BY <1>10, ReturnType DEF can_release_interfaces, Op
  <2> QED BY <1>2, <1>10, <2>1 DEF can_release_interfaces
<1> QED BY <1>1, <1>4, <1>5, <1>6, <1>7, <1>8, <1>9, <1>10 DEF Call

LEMMA NextScanType ==
  ASSUME ScanType, [Next]_vars
  PROVE  ScanType'
<1>1. CASE softing_list
  <2>1. CASE EndScan("canl2")
    BY <1>1, <2>1, EndScanType DEF softing_list, Reason
  <2> QED BY <1>1, <2>1 DEF softing_list, ScanType
<1>2. ASSUME NEW c \in Device, softing_find_channel(c)
      PROVE  ScanType'
  <2>1. CASE EndScan("memory") \/ EndScan(NULL)
    BY <1>2, <2>1, EndScanType DEF softing_find_channel, Reason
  <2>2. CASE todo' = todo \ {c} /\ UNCHANGED <<pc, room, ret>>
    BY <1>2, <2>2 DEF softing_find_channel, ScanType
  <2> QED BY <1>2, <2>1, <2>2 DEF softing_find_channel
<1>3. CASE softing_find_end
  BY <1>3, EndScanType DEF softing_find_end
<1>4. CASE Environment \/ UNCHANGED vars
  BY <1>4 DEF Environment, Plug, Unplug, vars, scan, ScanType
<1> QED BY <1>1, <1>2, <1>3, <1>4, CallScanType DEF Next, Scan

-----------------------------------------------------------------------------
(* The invariant of the specification *)

IInv == ScanType /\ Agree(can_interface, chan)

LEMMA InitIInv == ASSUME Init PROVE IInv
<1>1. ZeroIface \in IfaceType /\ Sound(ZeroIface) /\ ~HasHandle(ZeroIface)
  BY ZeroIfaceType DEF IfaceType, ZeroIface, Sound, HasHandle
<1>2. ScanType
  BY NoCallType DEF Init, ScanType
<1> QED BY <1>1, <1>2 DEF Init, IInv, Agree

LEMMA NextIInv == ASSUME IInv, [Next]_vars PROVE IInv'
<1>1. Agree(can_interface', chan')
  BY NextSteps, StepAgrees DEF IInv
<1>2. Agree(can_interface, chan)'
  BY <1>1 DEF Agree, Sound, HasHandle
<1> QED BY <1>2, NextScanType DEF IInv

LEMMA Invariant == Spec => []IInv
  BY InitIInv, NextIInv, PTL DEF Spec

\* Every variable keeps to its values, whatever the channels do meanwhile.
THEOREM TypeCorrect == Spec => []TypeOK
<1>1. IInv => TypeOK
  BY DEF IInv, ScanType, Agree, TypeOK, IfaceType
<1> QED BY <1>1, Invariant, PTL

LEMMA AgreeOwned ==
  ASSUME Agree(can_interface, chan)
  PROVE  HandlesOwned
<1>1. \A i \in Slots : /\ hChannel(i) # NoHandle <=> HasHandle(can_interface[i])
                       /\ HasHandle(can_interface[i]) =>
                            hChannel(i) = can_interface[i].internal.hChannel
  BY DEF hChannel, HasHandle, OnSofting
<1>2. \A i \in Slots : HasHandle(can_interface[i]) =>
        /\ chan[can_interface[i].internal.hChannel] = can_interface[i].name
        /\ can_interface[i].opened = 1
        /\ \A j \in Slots \ {i} : HasHandle(can_interface[j]) =>
             can_interface[j].internal.hChannel # can_interface[i].internal.hChannel
  BY DEF Agree, Sound
<1> QED BY <1>1, <1>2 DEF HandlesOwned

\* A handle in a context is open on the slot's own channel, in no other context,
\* and the slot is flagged: the error paths of softing_open close their own.
THEOREM HandlesAreOwned == Spec => []HandlesOwned
<1>1. IInv => HandlesOwned
  BY AgreeOwned DEF IInv
<1> QED BY <1>1, Invariant, PTL

-----------------------------------------------------------------------------
(* Where a flag without a handle, and a handle without a slot, come from *)

\* What softing_open leaves, read off the slot and the handles.
LEMMA OpenOutcome ==
  ASSUME IInv, NEW i \in Slots, NEW iface \in IfaceType, Sound(iface),
         iface.vendor = "SOFTING", NEW open, NEW op, softing_open(op, i, iface, open)
  PROVE  /\ \A j \in Slots \ {i} : can_interface'[j] = can_interface[j]
         /\ can_interface'[i].vendor = "SOFTING"
         /\ \/ /\ ret'.op = op /\ ret'.val = -1
               /\ can_interface'[i].opened = iface.opened
               /\ can_interface'[i].internal.hChannel \in {iface.internal.hChannel, NoHandle}
               /\ chan' = open
            \/ \E h \in Handle :
                 /\ ret'.op = op /\ ret'.val = -1
                 /\ can_interface'[i].opened = iface.opened
                 /\ can_interface'[i].internal.hChannel = NoHandle
                 /\ chan' = [open EXCEPT ![h] = NULL]
            \/ \E h \in Handle :
                 /\ ret'.op = op
                 /\ can_interface'[i].internal.hChannel = h
                 /\ chan' = [open EXCEPT ![h] = iface.name]
<1>1. can_interface \in [Slots -> IfaceType]
  BY DEF IInv, Agree
<1>2. iface.internal.hChannel \in Handle \cup {NoHandle}
  BY DEF Sound, IfaceType, Iface, softing_ctx_t
<1>3. ASSUME NEW h, OpenFails(op, i, iface, open, h)
      PROVE  /\ \A j \in Slots \ {i} : can_interface'[j] = can_interface[j]
             /\ can_interface'[i].vendor = "SOFTING"
             /\ ret'.op = op /\ ret'.val = -1
             /\ can_interface'[i].opened = iface.opened
             /\ can_interface'[i].internal.hChannel \in {iface.internal.hChannel, NoHandle}
             /\ chan' = open
  <2>1. can_interface'[i] = Put(iface, h) /\ ret'.op = op /\ ret'.val = -1
    BY <1>1, <1>3, ReturnFields DEF OpenFails
  <2>2. h \in {iface.internal.hChannel, NoHandle} /\ h \in Handle \cup {NoHandle}
    BY <1>2, <1>3 DEF OpenFails
  <2>3. \A j \in Slots \ {i} : can_interface'[j] = can_interface[j]
    BY <1>1, <1>3 DEF OpenFails
  <2> QED BY <1>3, <2>1, <2>2, <2>3, PutFacts DEF OpenFails
<1>4. ASSUME NEW h \in Handle, OpenAborts(op, i, iface, open, h)
      PROVE  /\ \A j \in Slots \ {i} : can_interface'[j] = can_interface[j]
             /\ can_interface'[i].vendor = "SOFTING"
             /\ ret'.op = op /\ ret'.val = -1
             /\ can_interface'[i].opened = iface.opened
             /\ can_interface'[i].internal.hChannel = NoHandle
             /\ chan' = [open EXCEPT ![h] = NULL]
  <2>1. can_interface'[i] = Put(iface, NoHandle) /\ ret'.op = op /\ ret'.val = -1
    BY <1>1, <1>4, ReturnFields DEF OpenAborts
  <2>2. \A j \in Slots \ {i} : can_interface'[j] = can_interface[j]
    BY <1>1, <1>4 DEF OpenAborts
  <2> QED BY <1>4, <2>1, <2>2, PutFacts DEF OpenAborts
<1>5. ASSUME NEW h \in Handle, OpenSucceeds(op, i, iface, open, h)
      PROVE  /\ \A j \in Slots \ {i} : can_interface'[j] = can_interface[j]
             /\ can_interface'[i].vendor = "SOFTING"
             /\ ret'.op = op
             /\ can_interface'[i].internal.hChannel = h
             /\ chan' = [open EXCEPT ![h] = iface.name]
  <2>1. can_interface'[i] = Opened(iface, h) /\ ret'.op = op
    BY <1>1, <1>5, ReturnFields DEF OpenSucceeds
  <2>2. \A j \in Slots \ {i} : can_interface'[j] = can_interface[j]
    BY <1>1, <1>5 DEF OpenSucceeds
  <2> QED BY <1>5, <2>1, <2>2, OpenedFacts DEF OpenSucceeds
<1> QED BY <1>3, <1>4, <1>5, OpenCases

\* The slots that the steps other than softing_open leave.
LEMMA PlainOutcome ==
  ASSUME IInv, NEW j \in Slots
  PROVE  /\ \A i \in Slots, b \in AnyBaud : StoresBaud(i, b) =>
              /\ can_interface'[j].vendor = can_interface[j].vendor
              /\ can_interface'[j].opened = can_interface[j].opened
              /\ can_interface'[j].internal = can_interface[j].internal
         /\ \A S \in SUBSET Slots : Closes(S) \/ ReleaseSlots(S) =>
              IF j \in S
              THEN \/ can_interface'[j].opened = 0
                   \/ can_interface'[j] = can_interface[j] /\ ~OnSofting(j)
              ELSE can_interface'[j] = can_interface[j]
         /\ \A c \in Device, i \in Slots : Registers(c, i) =>
              IF j = i THEN can_interface'[j].opened = 0 /\ hChannel(j) = NoHandle
                       ELSE can_interface'[j] = can_interface[j]
<1>1. /\ can_interface \in [Slots -> IfaceType]
      /\ can_interface[j] \in IfaceType /\ Sound(can_interface[j])
  BY DEF IInv, Agree
<1>2. ASSUME NEW i \in Slots, NEW b \in AnyBaud, StoresBaud(i, b)
      PROVE  /\ can_interface'[j].vendor = can_interface[j].vendor
             /\ can_interface'[j].opened = can_interface[j].opened
             /\ can_interface'[j].internal = can_interface[j].internal
  <2>1. can_interface'[j] = IF j = i THEN [can_interface[j] EXCEPT !.baudrate = b]
                                     ELSE can_interface[j]
    BY <1>1, <1>2 DEF StoresBaud
  <2> QED BY <1>1, <2>1, BaudFacts
<1>3. ASSUME NEW S \in SUBSET Slots, Closes(S) \/ ReleaseSlots(S)
      PROVE  IF j \in S
             THEN \/ can_interface'[j].opened = 0
                  \/ can_interface'[j] = can_interface[j] /\ ~OnSofting(j)
             ELSE can_interface'[j] = can_interface[j]
  <2>1. CASE Closes(S)
    BY <1>1, <2>1, CloseFacts DEF Closes, ClosedTable, OnSofting
  <2>2. CASE ReleaseSlots(S)
    BY <1>1, <2>2, ClearedType DEF ReleaseSlots, IfaceType
  <2> QED BY <1>3, <2>1, <2>2
<1>4. ASSUME NEW c \in Device, NEW i \in Slots, Registers(c, i)
      PROVE  IF j = i THEN can_interface'[j].opened = 0 /\ hChannel(j) = NoHandle
                      ELSE can_interface'[j] = can_interface[j]
  <2>1. /\ can_interface' = [can_interface EXCEPT ![i] = NewIface(c)]
        /\ can_interface[i].name = NULL
    BY <1>4 DEF Registers, RegisterChannel, FirstFree, Free, NewIface
  <2>2. CASE j = i
    <3>1. can_interface'[j].opened = 0
      BY <1>1, <2>1, <2>2 DEF NewIface
    <3>2. hChannel(j) = NoHandle
      BY <1>1, <2>1, <2>2 DEF Sound, hChannel, OnSofting
    <3> QED BY <2>2, <3>1, <3>2
  <2>3. CASE j # i
    BY <1>1, <2>1, <2>3
  <2> QED BY <2>2, <2>3
<1> QED BY <1>2, <1>3, <1>4

\* A slot that a step leaves as it was has the handle and the flag it had.
LEMMA SlotKept ==
  ASSUME NEW j \in Slots,
         can_interface'[j].vendor = can_interface[j].vendor,
         can_interface'[j].opened = can_interface[j].opened,
         can_interface'[j].internal = can_interface[j].internal
  PROVE  hChannel(j)' = hChannel(j) /\ (FlagMisleads(j)' <=> FlagMisleads(j))
  BY DEF FlagMisleads, hChannel, OnSofting

LEMMA NewFlag ==
  ASSUME IInv, Step, NEW i \in Slots, FlagMisleads(i)', ~FlagMisleads(i)
  PROVE  ret'.op = "open" /\ ret'.val = -1 /\ can_interface[i].opened = 1
<1>1. /\ can_interface[i] \in IfaceType /\ Sound(can_interface[i])
      /\ can_interface'[i].opened = 1 /\ hChannel(i)' = NoHandle
  BY DEF IInv, Agree, FlagMisleads
<1>2. ~ /\ can_interface'[i].vendor = can_interface[i].vendor
        /\ can_interface'[i].opened = can_interface[i].opened
        /\ can_interface'[i].internal = can_interface[i].internal
  BY SlotKept
<1>3. can_interface'[i] # can_interface[i]
  BY <1>2
<1>4. ~Quiet
  BY <1>3 DEF Quiet
<1>5. ASSUME NEW k \in Slots, NEW b \in AnyBaud, Opens(k, b)
      PROVE  ret'.op = "open" /\ ret'.val = -1 /\ can_interface[i].opened = 1
  <2> DEFINE iface == WithBaud(can_interface[k], b)
  <2>1. /\ iface \in IfaceType /\ Sound(iface) /\ iface.vendor = "SOFTING"
        /\ iface.opened = can_interface[k].opened
        /\ iface.internal = can_interface[k].internal
    BY <1>5, BaudFacts DEF IInv, Agree, Opens, OnSofting, WithBaud
  <2>2. softing_open("open", k, iface, chan) /\ OnSofting(k)
    BY <1>5 DEF Opens
  <2> HIDE DEF iface
  <2>3. k = i
    BY <1>3, <2>1, <2>2, OpenOutcome
  <2>4. hChannel(i)' = can_interface'[i].internal.hChannel
    BY <2>1, <2>2, <2>3, OpenOutcome DEF hChannel, OnSofting
  <2>5. hChannel(i) = iface.internal.hChannel
    BY <2>1, <2>2, <2>3 DEF hChannel
  <2> QED BY <1>1, <2>1, <2>2, <2>3, <2>4, <2>5, OpenOutcome, SoftingAssumption
<1>6. ASSUME NEW k \in Slots, NEW b \in AnyBaud, Sets(k, b)
      PROVE  FALSE
  <2> DEFINE iface == WithBaud(CloseIface(can_interface[k]), b)
             open == CloseHandles({k})
  <2>1. /\ iface \in IfaceType /\ Sound(iface) /\ iface.vendor = "SOFTING"
        /\ iface.opened = 0
    BY <1>6, CloseFacts, BaudFacts DEF IInv, Agree, Sets, OnSofting, WithBaud
  <2>2. softing_open("set", k, iface, open)
    BY <1>6 DEF Sets
  <2> HIDE DEF iface, open
  <2>3. k = i
    BY <1>3, <2>1, <2>2, OpenOutcome
  <2>4. hChannel(i)' = can_interface'[i].internal.hChannel
    BY <2>1, <2>2, <2>3, OpenOutcome DEF hChannel, OnSofting
  <2> QED BY <1>1, <2>1, <2>2, <2>3, <2>4, OpenOutcome, SoftingAssumption
<1>7. /\ \A k \in Slots, b \in AnyBaud : ~StoresBaud(k, b)
      /\ \A S \in SUBSET Slots : ~Closes(S) /\ ~ReleaseSlots(S)
      /\ \A c \in Device, k \in Slots : ~Registers(c, k)
  BY <1>1, <1>2, <1>3, PlainOutcome
<1>8. \A S \in {{}, Slots} \cup {{k} : k \in Slots} : S \in SUBSET Slots
  OBVIOUS
<1> QED BY <1>4, <1>5, <1>6, <1>7, <1>8 DEF Step

\* softing_open touches the handles it finds at the handle it gets only.
LEMMA OpenHandle ==
  ASSUME IInv, NEW i \in Slots, NEW iface \in IfaceType, Sound(iface),
         iface.vendor = "SOFTING", NEW open \in [Handle -> Device \cup {NULL}], NEW op,
         softing_open(op, i, iface, open),
         NEW h \in Handle, chan'[h] # NULL, hChannel(i)' # h
  PROVE  chan'[h] = open[h] /\ ret'.op = op
<1>1. hChannel(i)' = can_interface'[i].internal.hChannel
  BY OpenOutcome DEF hChannel, OnSofting
<1> QED BY <1>1, OpenOutcome

LEMMA NewStray ==
  ASSUME IInv, Step, NEW h \in Handle, chan'[h] # NULL,
         \A i \in Slots : hChannel(i)' # h, h \notin Stray
  PROVE  ret'.op = "open" /\ \E i \in Slots : hChannel(i) = h
<1>1. /\ can_interface \in [Slots -> IfaceType]
      /\ \A i \in Slots : Sound(can_interface[i])
      /\ chan \in [Handle -> Device \cup {NULL}]
  BY DEF IInv, Agree
<1>2. ASSUME chan[h] # NULL PROVE \E i \in Slots : hChannel(i) = h
  BY <1>2 DEF Stray
<1>3. ASSUME NEW k \in Slots, hChannel(k) = h, can_interface'[k] = can_interface[k]
      PROVE  FALSE
  BY <1>3, SlotKept
<1>4. CASE Quiet
  <2>1. chan'[h] = chan[h] /\ \A k \in Slots : can_interface'[k] = can_interface[k]
    BY <1>4 DEF Quiet
  <2> QED BY <1>2, <1>3, <2>1
<1>5. ASSUME NEW i \in Slots, NEW b \in AnyBaud, StoresBaud(i, b)
      PROVE  FALSE
  <2>1. PICK k \in Slots : hChannel(k) = h
    BY <1>2, <1>5 DEF StoresBaud
  <2>2. /\ can_interface'[k].vendor = can_interface[k].vendor
        /\ can_interface'[k].opened = can_interface[k].opened
        /\ can_interface'[k].internal = can_interface[k].internal
    BY <1>5, PlainOutcome
  <2> QED BY <2>1, <2>2, SlotKept
<1>6. ASSUME NEW i \in Slots, NEW b \in AnyBaud, Opens(i, b)
      PROVE  ret'.op = "open" /\ \E j \in Slots : hChannel(j) = h
  <2> DEFINE iface == WithBaud(can_interface[i], b)
  <2>1. iface \in IfaceType /\ Sound(iface) /\ iface.vendor = "SOFTING"
    BY <1>1, <1>6, BaudFacts DEF Opens, OnSofting, WithBaud
  <2>2. softing_open("open", i, iface, chan)
    BY <1>6 DEF Opens
  <2> HIDE DEF iface
  <2>3. chan'[h] = chan[h] /\ ret'.op = "open"
    BY <1>1, <2>1, <2>2, OpenHandle
  <2> QED BY <1>2, <2>3
<1>7. ASSUME NEW S \in SUBSET Slots, chan'[h] = CloseHandles(S)[h]
      PROVE  \E k \in Slots \ S : hChannel(k) = h
  <2>1. ~(\E k \in S : hChannel(k) = h) /\ chan[h] # NULL
    BY <1>7 DEF CloseHandles
  <2> QED BY <1>2, <2>1
<1>8. ASSUME NEW i \in Slots, NEW b \in AnyBaud, Sets(i, b)
      PROVE  FALSE
  <2> DEFINE iface == WithBaud(CloseIface(can_interface[i]), b)
             open == CloseHandles({i})
  <2>1. iface \in IfaceType /\ Sound(iface) /\ iface.vendor = "SOFTING"
    BY <1>1, <1>8, CloseFacts, BaudFacts DEF Sets, OnSofting, WithBaud
  <2>2. softing_open("set", i, iface, open)
    BY <1>8 DEF Sets
  <2>3. open \in [Handle -> Device \cup {NULL}]
    BY <1>1 DEF CloseHandles
  <2> HIDE DEF iface, open
  <2>4. chan'[h] = open[h]
    BY <2>1, <2>2, <2>3, OpenHandle
  <2>5. PICK k \in Slots \ {i} : hChannel(k) = h
    BY <1>7, <2>4 DEF open
  <2>6. can_interface'[k] = can_interface[k]
    BY <2>1, <2>2, OpenOutcome
  <2> QED BY <1>3, <2>5, <2>6
<1>9. ASSUME NEW S \in SUBSET Slots, Closes(S) \/ ReleaseSlots(S)
      PROVE  FALSE
  <2>1. PICK k \in Slots \ S : hChannel(k) = h
    BY <1>7, <1>9 DEF Closes, ReleaseSlots
  <2>2. can_interface'[k] = can_interface[k]
    BY <1>9, PlainOutcome
  <2> QED BY <1>3, <2>1, <2>2
<1>10. ASSUME NEW c \in Device, NEW i \in Slots, Registers(c, i)
       PROVE  FALSE
  <2>1. PICK k \in Slots : hChannel(k) = h
    BY <1>2, <1>10 DEF Registers
  <2>2. can_interface'[k] = can_interface[k]
    BY <1>10, <2>1, PlainOutcome, SoftingAssumption
  <2> QED BY <1>3, <2>1, <2>2
<1>11. \A S \in {{}, Slots} \cup {{k} : k \in Slots} : S \in SUBSET Slots
  OBVIOUS
<1> QED BY <1>4, <1>5, <1>6, <1>8, <1>9, <1>10, <1>11 DEF Step

\* Only can_open on an interface that is open does lasting damage: where it
\* fails it may leave the flag set with no handle behind it, and in every case
\* it may leave the old handle open with no slot to close it through.
THEOREM DamageNeedsReopen == Spec => DamageByReopenOnly
<1> DEFINE Damage ==
      /\ \A i \in Slots : FlagMisleads(i)' /\ ~FlagMisleads(i) =>
           ret'.op = "open" /\ ret'.val = -1 /\ can_interface[i].opened = 1
      /\ \A h \in Stray' \ Stray :
           ret'.op = "open" /\ \E i \in Slots : hChannel(i) = h
<1>1. ASSUME IInv, [Next]_vars PROVE Damage
  <2>1. \A i \in Slots : FlagMisleads(i)' /\ ~FlagMisleads(i) =>
          ret'.op = "open" /\ ret'.val = -1 /\ can_interface[i].opened = 1
    BY <1>1, NextSteps, NewFlag
  <2>2. ASSUME NEW h \in Stray', h \notin Stray
        PROVE  ret'.op = "open" /\ \E i \in Slots : hChannel(i) = h
    <3>1. h \in Handle /\ chan'[h] # NULL /\ \A i \in Slots : hChannel(i)' # h
      BY <2>2 DEF Stray
    <3> QED BY <1>1, <2>2, <3>1, NextSteps, NewStray
  <2> QED BY <2>1, <2>2
<1>2. IInv /\ [Next]_vars => [Damage]_vars
  BY <1>1
<1> QED BY <1>2, Invariant, PTL DEF Spec, DamageByReopenOnly

-----------------------------------------------------------------------------
(* The back-end implements CanLifecycle *)

\* The abstract state that a table stands for.
Names(tab) == [i \in Slots |-> tab[i].name]
Handled(tab) == {i \in Slots : HasHandle(tab[i])}

\* What a step does to the abstract state.
Same == /\ Names(can_interface') = Names(can_interface)
        /\ Handled(can_interface') = Handled(can_interface)

OpensIndex(i) ==
  /\ can_interface[i].name # NULL
  /\ Names(can_interface') = Names(can_interface)
  /\ Handled(can_interface') = Handled(can_interface) \cup {i}

ClosesIndex(i) ==
  /\ Names(can_interface') = Names(can_interface)
  /\ Handled(can_interface') = Handled(can_interface) \ {i}

FreesIndices(S) ==
  /\ Names(can_interface') =
       [i \in Slots |-> IF i \in S THEN NULL ELSE Names(can_interface)[i]]
  /\ Handled(can_interface') = Handled(can_interface) \ S

TakesIndex(i, n) ==
  /\ Names(can_interface)[i] = NULL
  /\ \A j \in Slots : /\ Names(can_interface)[j] # n
                      /\ j < i => Names(can_interface)[j] # NULL
  /\ Names(can_interface') = [Names(can_interface) EXCEPT ![i] = n]
  /\ Handled(can_interface') = Handled(can_interface)

\* softing_open opens an index, closes it, or leaves it as it is.
LEMMA OpenAbstract ==
  ASSUME IInv, NEW i \in Slots, NEW iface \in IfaceType, Sound(iface),
         iface.vendor = "SOFTING", iface.name = can_interface[i].name,
         NEW open, NEW op, softing_open(op, i, iface, open)
  PROVE  Same \/ OpensIndex(i) \/ ClosesIndex(i)
<1>1. can_interface \in [Slots -> IfaceType]
  BY DEF IInv, Agree
<1>2. iface.internal.hChannel \in Handle \cup {NoHandle} /\ iface.name # NULL
  BY DEF Sound, IfaceType, Iface, softing_ctx_t
<1>3. PICK x : /\ can_interface' = [can_interface EXCEPT ![i] = x]
               /\ x.name = iface.name
  <2>1. ASSUME NEW h, OpenFails(op, i, iface, open, h)
        PROVE  /\ can_interface' = [can_interface EXCEPT ![i] = Put(iface, h)]
               /\ Put(iface, h).name = iface.name
    BY <1>2, <2>1, PutFacts DEF OpenFails
  <2>2. ASSUME NEW h \in Handle, OpenAborts(op, i, iface, open, h)
        PROVE  /\ can_interface' = [can_interface EXCEPT ![i] = Put(iface, NoHandle)]
               /\ Put(iface, NoHandle).name = iface.name
    BY <2>2, PutFacts DEF OpenAborts
  <2>3. ASSUME NEW h \in Handle, OpenSucceeds(op, i, iface, open, h)
        PROVE  /\ can_interface' = [can_interface EXCEPT ![i] = Opened(iface, h)]
               /\ Opened(iface, h).name = iface.name
    BY <2>3, OpenedFacts DEF OpenSucceeds
  <2> QED BY <2>1, <2>2, <2>3, OpenCases
<1>4. \A j \in Slots : /\ can_interface'[j].name = can_interface[j].name
                       /\ j # i => can_interface'[j] = can_interface[j]
  BY <1>1, <1>3
<1>5. Names(can_interface') = Names(can_interface)
  BY <1>4 DEF Names
<1>6. CASE HasHandle(can_interface'[i])
  <2>1. Handled(can_interface') = Handled(can_interface) \cup {i}
    BY <1>4, <1>6 DEF Handled
  <2> QED BY <1>2, <1>5, <2>1 DEF OpensIndex
<1>7. CASE ~HasHandle(can_interface'[i])
  <2>1. Handled(can_interface') = Handled(can_interface) \ {i}
    BY <1>4, <1>7 DEF Handled
  <2> QED BY <1>5, <2>1 DEF ClosesIndex
<1> QED BY <1>6, <1>7

LEMMA StepsImplement ==
  ASSUME IInv, Step
  PROVE  \/ Same
         \/ \E i \in Slots : OpensIndex(i) \/ ClosesIndex(i)
         \/ \E S \in {Slots} \cup {{i} : i \in Slots} : FreesIndices(S)
         \/ \E i \in Slots, n \in Device : TakesIndex(i, n)
<1> DEFINE Abstract == \/ Same
                       \/ \E i \in Slots : OpensIndex(i) \/ ClosesIndex(i)
                       \/ \E S \in {Slots} \cup {{i} : i \in Slots} : FreesIndices(S)
                       \/ \E i \in Slots, n \in Device : TakesIndex(i, n)
<1>1. /\ can_interface \in [Slots -> IfaceType]
      /\ \A i \in Slots : Sound(can_interface[i])
  BY DEF IInv, Agree
<1>2. ASSUME Quiet PROVE Same
  BY <1>2 DEF Quiet, Same
<1>3. ASSUME NEW i \in Slots, NEW b \in AnyBaud, StoresBaud(i, b)
      PROVE  Same
  <2>1. /\ can_interface'[i] = [can_interface[i] EXCEPT !.baudrate = b]
        /\ \A j \in Slots \ {i} : can_interface'[j] = can_interface[j]
    BY <1>1, <1>3 DEF StoresBaud
  <2>2. can_interface'[i].name = can_interface[i].name
        /\ (HasHandle(can_interface'[i]) <=> HasHandle(can_interface[i]))
    BY <1>1, <2>1, BaudFacts
  <2>3. Names(can_interface') = Names(can_interface)
    BY <2>1, <2>2 DEF Names
  <2>4. Handled(can_interface') = Handled(can_interface)
    BY <2>1, <2>2 DEF Handled
  <2> QED BY <2>3, <2>4 DEF Same
<1>4. ASSUME NEW i \in Slots, NEW b \in AnyBaud, Opens(i, b) \/ Sets(i, b)
      PROVE  Same \/ OpensIndex(i) \/ ClosesIndex(i)
  <2>1. CASE Opens(i, b)
    BY <1>1, <2>1, BaudFacts, OpenAbstract DEF Opens, OnSofting, WithBaud
  <2>2. CASE Sets(i, b)
    <3> DEFINE iface == WithBaud(CloseIface(can_interface[i]), b)
    <3>1. /\ iface \in IfaceType /\ Sound(iface) /\ iface.vendor = "SOFTING"
          /\ iface.name = can_interface[i].name
      BY <1>1, <2>2, CloseFacts, BaudFacts DEF Sets, OnSofting, WithBaud
    <3>2. softing_open("set", i, iface, CloseHandles({i}))
      BY <2>2 DEF Sets
    <3> HIDE DEF iface
    <3> QED BY <3>1, <3>2, OpenAbstract
  <2> QED BY <1>4, <2>1, <2>2
<1>5. ASSUME NEW S \in {{}} \cup {{i} : i \in Slots}, Closes(S)
      PROVE  Same \/ \E i \in Slots : ClosesIndex(i)
  <2>1. \A j \in Slots :
          /\ can_interface'[j].name = can_interface[j].name
          /\ HasHandle(can_interface'[j]) <=> j \notin S /\ HasHandle(can_interface[j])
    BY <1>1, <1>5, CloseFacts DEF Closes, ClosedTable, OnSofting, HasHandle
  <2>2. Names(can_interface') = Names(can_interface)
    BY <2>1 DEF Names
  <2>3. Handled(can_interface') = Handled(can_interface) \ S
    BY <2>1 DEF Handled
  <2>4. CASE S = {}
    BY <2>2, <2>3, <2>4 DEF Same
  <2>5. ASSUME NEW i \in Slots, S = {i} PROVE ClosesIndex(i)
    BY <2>2, <2>3, <2>5 DEF ClosesIndex
  <2> QED BY <2>4, <2>5
<1>6. ASSUME NEW S \in {{}, Slots} \cup {{i} : i \in Slots}, ReleaseSlots(S)
      PROVE  Same \/ (S # {} /\ FreesIndices(S))
  <2>1. \A j \in S : /\ Cleared(can_interface[j]).name = NULL
                     /\ ~HasHandle(Cleared(can_interface[j]))
    BY <1>1, <1>6, ClearedType DEF IfaceType, HasHandle
  <2>2. \A j \in Slots :
          /\ can_interface'[j].name = IF j \in S THEN NULL ELSE can_interface[j].name
          /\ HasHandle(can_interface'[j]) <=> j \notin S /\ HasHandle(can_interface[j])
    BY <1>6, <2>1 DEF ReleaseSlots
  <2>3. FreesIndices(S)
    BY <2>2 DEF FreesIndices, Names, Handled
  <2>4. CASE S = {}
    BY <2>2, <2>4 DEF Same, Names, Handled
  <2> QED BY <2>3, <2>4
<1>7. ASSUME NEW c \in Device, NEW i \in Slots, Registers(c, i)
      PROVE  TakesIndex(i, c)
  <2>1. /\ can_interface' = [can_interface EXCEPT ![i] = NewIface(c)]
        /\ can_interface[i].name = NULL
        /\ \A j \in Slots : /\ can_interface[j].name # c
                            /\ j < i => can_interface[j].name # NULL
    BY <1>7 DEF Registers, RegisterChannel, AlreadyRegistered, FirstFree, Free, NewIface
  <2>2. ~HasHandle(can_interface[i])
    BY <1>1, <2>1 DEF Sound, HasHandle
  <2>3. \A j \in Slots :
          /\ can_interface'[j].name = IF j = i THEN c ELSE can_interface[j].name
          /\ HasHandle(can_interface'[j]) <=> HasHandle(can_interface[j])
    BY <1>1, <2>1, <2>2, NewIfaceFacts
  <2> QED BY <2>1, <2>3 DEF TakesIndex, Names, Handled
<1> HIDE DEF Abstract
<1>8. ASSUME Same PROVE Abstract
  BY <1>8 DEF Abstract
<1>9. ASSUME NEW i \in Slots, OpensIndex(i) \/ ClosesIndex(i) PROVE Abstract
  BY <1>9 DEF Abstract
<1>10. ASSUME NEW S \in {{}, Slots} \cup {{i} : i \in Slots}, S # {}, FreesIndices(S)
       PROVE  Abstract
  BY <1>10 DEF Abstract
<1>11. ASSUME NEW i \in Slots, NEW c \in Device, TakesIndex(i, c) PROVE Abstract
  BY <1>11 DEF Abstract
<1>12. Abstract
  BY <1>2, <1>3, <1>4, <1>5, <1>6, <1>7, <1>8, <1>9, <1>10, <1>11 DEF Step
<1> QED BY <1>12 DEF Abstract

\* Every step is a step of CanLifecycle, or changes nothing that it shows.
LEMMA NextImplements ==
  ASSUME IInv, [Next]_vars
  PROVE  [Lifecycle!Next]_(Lifecycle!vars)
<1> DEFINE dev == [i \in Slots |-> can_interface[i].name]
           opn == {i \in Slots : hChannel(i) # NoHandle}
<1>1. dev = Names(can_interface) /\ dev' = Names(can_interface')
  BY DEF Names
<1>2. opn = Handled(can_interface)
  BY DEF hChannel, OnSofting, Handled, HasHandle
<1>3. opn' = Handled(can_interface')
  BY DEF hChannel, OnSofting, Handled, HasHandle
<1>4. Slots = Lifecycle!Index
  BY DEF Slots, Lifecycle!Index
<1>5. Step
  BY NextSteps
<1> HIDE DEF dev, opn
<1>6. CASE Same
  BY <1>1, <1>2, <1>3, <1>6 DEF Same, Lifecycle!vars, dev, opn
<1>7. ASSUME NEW i \in Slots, OpensIndex(i)
      PROVE  Lifecycle!Open(i)
  BY <1>1, <1>2, <1>3, <1>7 DEF OpensIndex, Names, Lifecycle!Open, dev, opn
<1>8. ASSUME NEW i \in Slots, ClosesIndex(i)
      PROVE  Lifecycle!Close(i)
  BY <1>1, <1>2, <1>3, <1>8 DEF ClosesIndex, Lifecycle!Close, dev, opn
<1>9. ASSUME NEW S, FreesIndices(S)
      PROVE  Lifecycle!Release(S)
  BY <1>1, <1>2, <1>3, <1>4, <1>9 DEF FreesIndices, Lifecycle!Release, dev, opn
<1>10. ASSUME NEW i \in Slots, NEW n \in Device, TakesIndex(i, n)
       PROVE  Lifecycle!Register(i, n)
  BY <1>1, <1>2, <1>3, <1>4, <1>10 DEF TakesIndex, Lifecycle!Register, dev, opn
<1> QED
  BY <1>4, <1>5, <1>6, <1>7, <1>8, <1>9, <1>10, StepsImplement DEF Lifecycle!Next

\* Through softing_open's error paths too, an index is free, or registered and
\* closed, or registered and open, and moves between these only as the public
\* interface promises.
THEOREM ImplementsLifecycle == Spec => Refinement
<1>1. Init => Lifecycle!Init
  BY DEF Init, Lifecycle!Init, Lifecycle!Index, Slots, ZeroIface, hChannel, OnSofting
<1>2. IInv /\ [Next]_vars => [Lifecycle!Next]_(Lifecycle!vars)
  BY NextImplements
<1> QED BY <1>1, <1>2, Invariant, PTL DEF Spec, Refinement, Lifecycle!Spec
=============================================================================
