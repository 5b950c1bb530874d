----------------------------- MODULE PeakProofs ------------------------------
(***************************************************************************)
(* Proofs about the PEAK back-end, for every table size and every set of   *)
(* channels, named and unnamed.                                            *)
(***************************************************************************)
EXTENDS Peak, CanCallsProofs, FiniteSetTheorems

IfaceType == Iface({"PEAK"}, TPCANHandle)

-----------------------------------------------------------------------------
(* A slot that is as it should be, and a table that agrees with PCAN-Basic *)

\* The name, the vendor and the handle of a slot say the same, and the name is
\* that of the handle; a free slot is not flagged.
Sound(iface) ==
  /\ iface.name = NULL <=> iface.vendor = "NONE"
  /\ iface.name = NULL <=> iface.internal = NULL
  /\ iface.name = NULL => iface.opened = 0
  /\ iface.name # NULL => iface.name = lookup_bus_name(iface.internal)

\* InitializedOwned with what makes it inductive: names are registered once, and
\* a channel that is initialised is that of a slot flagged open.
Agree(tab, ini) ==
  /\ tab \in [Slots -> IfaceType]
  /\ ini \subseteq Channel
  /\ \A i \in Slots : Sound(tab[i])
  /\ \A i, j \in Slots : i # j /\ tab[i].name # NULL => tab[i].name # tab[j].name
  /\ \A c \in ini : \E i \in Slots : tab[i].internal = c /\ tab[i].opened = 1

LEMMA HandleFacts ==
  /\ NULL \notin TPCANHandle
  /\ Channel \subseteq TPCANHandle
  /\ PCAN_NONEBUS \in TPCANHandle \ Channel
  /\ lookup_bus_name(PCAN_NONEBUS) = NoneBus
  BY PeakAssumption DEF TPCANHandle, lookup_bus_name

\* Names are registered once, hence handles are.
LEMMA OwnHandle ==
  ASSUME NEW tab, NEW ini, Agree(tab, ini), NEW i \in Slots, NEW j \in Slots,
         i # j, tab[i].internal # NULL
  PROVE  tab[i].internal # tab[j].internal
  BY DEF Agree, Sound

LEMMA OnPeakType ==
  ASSUME NEW tab, NEW ini, Agree(tab, ini), NEW i \in Slots
  PROVE  /\ tab[i] \in IfaceType /\ Sound(tab[i])
         /\ tab[i].vendor = "PEAK" <=> tab[i].internal # NULL
         /\ tab[i].vendor = "PEAK" <=> tab[i].internal \in TPCANHandle
<1>1. tab[i] \in IfaceType /\ Sound(tab[i])
  BY DEF Agree
<1>2. /\ tab[i].vendor = "PEAK" \/ tab[i].vendor = "NONE"
      /\ tab[i].internal \in TPCANHandle \/ tab[i].internal = NULL
  BY <1>1 DEF IfaceType, Iface
<1> QED BY <1>1, <1>2, HandleFacts DEF Sound

\* A slot that keeps its name and its handle may be written while its channel
\* is initialised, or not.
LEMMA PutSlot ==
  ASSUME NEW tab, NEW ini, Agree(tab, ini), NEW i \in Slots, NEW x \in IfaceType,
         x.name = tab[i].name, x.vendor = tab[i].vendor, x.internal = tab[i].internal,
         x.name = NULL => x.opened = 0,
         NEW new \in SUBSET Channel,
         \A c \in new : c \in ini \/ c = x.internal,
         x.internal \in new => x.opened = 1
  PROVE  Agree([tab EXCEPT ![i] = x], new)
<1> DEFINE t == [tab EXCEPT ![i] = x]
<1>1. t \in [Slots -> IfaceType] /\ \A j \in Slots : t[j] = IF j = i THEN x ELSE tab[j]
  BY DEF Agree
<1> HIDE DEF t
<1>2. \A j \in Slots : Sound(t[j]) /\ t[j].name = tab[j].name
  BY <1>1 DEF Agree, Sound
<1>3. ASSUME NEW c \in new
      PROVE  \E j \in Slots : t[j].internal = c /\ t[j].opened = 1
  <2>1. CASE c = x.internal
    BY <1>1, <1>3, <2>1
  <2>2. CASE c \in ini /\ c # x.internal
    BY <1>1, <2>2 DEF Agree
  <2> QED BY <1>3, <2>1, <2>2
<1>4. \A j, k \in Slots : j # k /\ t[j].name # NULL => t[j].name # t[k].name
  BY <1>2 DEF Agree
<1> QED BY <1>1, <1>2, <1>3, <1>4 DEF Agree, t

\* What the slots say of the driver does not depend on the recorded rates.
LEMMA RateAgrees ==
  ASSUME NEW tab, NEW ini, Agree(tab, ini),
         NEW new \in [Slots -> IfaceType],
         \A i \in Slots : /\ new[i].name = tab[i].name
                          /\ new[i].vendor = tab[i].vendor
                          /\ new[i].opened = tab[i].opened
                          /\ new[i].internal = tab[i].internal
  PROVE  Agree(new, ini)
<1>1. \A i \in Slots : Sound(new[i])
  BY DEF Agree, Sound
<1>2. \A i, j \in Slots : i # j /\ new[i].name # NULL => new[i].name # new[j].name
  BY DEF Agree
<1>3. \A c \in ini : \E i \in Slots : new[i].internal = c /\ new[i].opened = 1
  BY DEF Agree
<1> QED BY <1>1, <1>2, <1>3 DEF Agree

-----------------------------------------------------------------------------
(* What a step may do to the table and to the channels *)

Quiet == UNCHANGED <<can_interface, init>>

\* can_open stores the rate before it finds that the slot is free.
StoresBaud(i, b) ==
  /\ i \in Slots
  /\ can_interface[i].vendor = "NONE"
  /\ can_interface' = [can_interface EXCEPT ![i].baudrate = b]
  /\ UNCHANGED init

Opens(i, b) == OnPeak(i) /\ peak_open("open", i, init, b, NULL)

Sets(i, b) ==
  OnPeak(i) /\ peak_open("set", i, Uninitialized({i}), b, CloseReason({i}))

Closes(i) ==
  UNCHANGED can_interface /\ init' = Uninitialized({i}) /\ ret'.op = "close"

Registers(c, i) == RegisterChannel(c, i) /\ UNCHANGED init

Releases(S) == ReleaseSlots(S) /\ (S = Slots \/ ret'.op \in {"release", "update"})

Step ==
  \/ Quiet
  \/ \E i \in Slots, b \in AnyBaud : StoresBaud(i, b) \/ Opens(i, b) \/ Sets(i, b)
  \/ \E i \in Slots : Closes(i)
  \/ \E S \in {{}, Slots} \cup {{i} : i \in Slots} : Releases(S)
  \/ \E c \in TPCANHandle, i \in Slots : Registers(c, i)

LEMMA CallSteps ==
  ASSUME Call
  PROVE  Step
<1>1. ASSUME NEW wanted \in BOOLEAN, can_find_interfaces_mask(wanted)
      PROVE  Step
  BY <1>1 DEF can_find_interfaces_mask, Step, Quiet
<1>2. ASSUME NEW i \in CallIndex, NEW b \in AnyBaud, can_open(i, b)
      PROVE  Step
  <2>1. CASE OpenRejected(i, b) /\ UNCHANGED init
    BY <2>1, OpenRejectedTable DEF Step, Quiet, StoresBaud
  <2>2. CASE Opens(i, b)
    BY <2>2 DEF OnPeak, Step, Opens
  <2> QED BY <1>2, <2>1, <2>2 DEF can_open, Opens
<1>3. ASSUME NEW i \in CallIndex, NEW b \in AnyBaud, can_set_baudrate(i, b)
      PROVE  Step
  <2>1. CASE SetRejected(i, b) /\ UNCHANGED init
    BY <2>1 DEF SetRejected, Step, Quiet
  <2>2. CASE Sets(i, b)
    BY <2>2 DEF OnPeak, Step, Sets
  <2> QED BY <1>3, <2>1, <2>2 DEF can_set_baudrate, Sets
<1>4. ASSUME NEW i \in CallIndex, can_close(i)
      PROVE  Step
  <2>1. CASE i \in Slots
    <3>1. Closes(i)
      BY <1>4, ReturnFields DEF can_close, Closes
    <3> QED BY <2>1, <3>1 DEF Step
  <2>2. CASE i \notin Slots
    <3>1. ChannelsOf({i}) = {}
      BY <2>2 DEF ChannelsOf, OnPeak
    <3>2. init' = init /\ UNCHANGED can_interface
      BY <1>4, <3>1 DEF can_close, Uninitialized
    <3> QED BY <3>2 DEF Step, Quiet
  <2> QED BY <2>1, <2>2
<1>5. ASSUME NEW i \in CallIndex, can_release(i)
      PROVE  Step
  <2>1. CASE i \in Slots
    <3>1. {i} \cap Slots = {i}
      BY <2>1
    <3>2. Releases({i})
      BY <1>5, <3>1, ReturnFields DEF can_release, Releases
    <3> QED BY <2>1, <3>2 DEF Step
  <2>2. CASE i \notin Slots
    <3>1. {i} \cap Slots = {}
      BY <2>2
    <3>2. Releases({})
      BY <1>5, <3>1, ReturnFields DEF can_release, Releases
    <3> QED BY <3>2 DEF Step
  <2> QED BY <2>1, <2>2
<1>6. ASSUME can_release_interfaces
      PROVE  Step
  BY <1>6 DEF can_release_interfaces, Releases, Step
<1>7. ASSUME NEW i \in CallIndex, can_update(i)
      PROVE  Step
  <2>1. CASE Rejected("update", i) /\ UNCHANGED init
    BY <2>1 DEF Rejected, Step, Quiet
  <2>2. CASE OnPeak(i) /\ peak_update(i)
    <3>1. CASE UNCHANGED <<can_interface, init>>
      BY <3>1 DEF Step, Quiet
    <3>2. CASE ReleaseSlots({i}) /\ Return("update", -1, CloseReason({i}))
      <4>1. Releases({i})
        BY <3>2, ReturnFields DEF Releases
      <4> QED BY <2>2, <4>1 DEF OnPeak, Step
    <3> QED BY <2>2, <3>1, <3>2 DEF peak_update
  <2> QED BY <1>7, <2>1, <2>2 DEF can_update
<1>8. ASSUME NEW i \in CallIndex, can_send(i) \/ can_recv(i)
      PROVE  Step
  BY <1>8 DEF can_send, can_recv, Rejected, Step, Quiet
<1>9. ASSUME NEW i \in CallIndex, NEW bad \in BOOLEAN, can_get(i, bad)
       PROVE  Step
  BY <1>9 DEF can_get, Get, Step, Quiet
<1> QED BY <1>1, <1>2, <1>3, <1>4, <1>5, <1>6, <1>7, <1>8, <1>9 DEF Call

LEMMA NextSteps ==
  ASSUME list \in Seq(TPCANHandle), [Next]_vars
  PROVE  Step
<1>1. CASE peak_find_channel
  <2>1. CASE UNCHANGED can_interface
    BY <1>1, <2>1 DEF peak_find_channel, Step, Quiet
  <2>2. ASSUME NEW i \in Slots, RegisterChannel(Head(list), i)
        PROVE  Step
    <3>1. Registers(Head(list), i) /\ Head(list) \in TPCANHandle
      BY <1>1, <2>2 DEF peak_find_channel, Registers
    <3> QED BY <3>1 DEF Step
  <2> QED BY <1>1, <2>1, <2>2 DEF peak_find_channel
<1>2. CASE peak_list \/ peak_find_end \/ Environment \/ UNCHANGED vars
  BY <1>2 DEF peak_list, peak_find_end, Environment, Plug, Unplug, vars, Step, Quiet
<1> QED BY <1>1, <1>2, CallSteps DEF Next

\* The outcomes of peak_open.
WithBaud(iface, b) == [iface EXCEPT !.baudrate = b]
Opened(iface, b) == [iface EXCEPT !.baudrate = b, !.opened = 1]

OpenFails(op, i, ready, b) ==
  /\ can_interface' = [can_interface EXCEPT ![i] = WithBaud(can_interface[i], b)]
  /\ init' = ready
  /\ ret'.op = op

OpenSucceeds(op, i, ready, b) ==
  /\ can_interface[i].internal \in attached \ ready
  /\ can_interface' = [can_interface EXCEPT ![i] = Opened(can_interface[i], b)]
  /\ init' = ready \cup {can_interface[i].internal}
  /\ ret'.op = op

LEMMA OpenCases ==
  ASSUME can_interface \in [Slots -> IfaceType], NEW op, NEW i \in Slots, NEW ready,
         NEW b, NEW why, peak_open(op, i, ready, b, why)
  PROVE  OpenFails(op, i, ready, b) \/ OpenSucceeds(op, i, ready, b)
<1>1. /\ [can_interface EXCEPT ![i].baudrate = b]
           = [can_interface EXCEPT ![i] = WithBaud(can_interface[i], b)]
      /\ [can_interface EXCEPT ![i].baudrate = b, ![i].opened = 1]
           = [can_interface EXCEPT ![i] = Opened(can_interface[i], b)]
  BY DEF WithBaud, Opened
<1> QED BY <1>1, ReturnFields DEF peak_open, OpenFails, OpenSucceeds

LEMMA OpenFacts ==
  ASSUME NEW iface \in IfaceType, NEW b \in AnyBaud
  PROVE  /\ WithBaud(iface, b) \in IfaceType
         /\ WithBaud(iface, b).name = iface.name
         /\ WithBaud(iface, b).vendor = iface.vendor
         /\ WithBaud(iface, b).opened = iface.opened
         /\ WithBaud(iface, b).internal = iface.internal
         /\ Opened(iface, b) \in IfaceType
         /\ Opened(iface, b).name = iface.name
         /\ Opened(iface, b).vendor = iface.vendor
         /\ Opened(iface, b).opened = 1
         /\ Opened(iface, b).internal = iface.internal
  BY DEF IfaceType, Iface, WithBaud, Opened

-----------------------------------------------------------------------------
(* Every step keeps table and channels in agreement *)

LEMMA UninitializedAgrees ==
  ASSUME Agree(can_interface, init), NEW S
  PROVE  Agree(can_interface, Uninitialized(S))
  BY DEF Agree, Uninitialized

\* After peak_close of slot i, its channel is not initialised.
LEMMA OwnClosed ==
  ASSUME NEW S, NEW i \in S, OnPeak(i)
  PROVE  can_interface[i].internal \notin Uninitialized(S)
  BY DEF Uninitialized, ChannelsOf

LEMMA OpenAgrees ==
  ASSUME attached \subseteq Channel,
         NEW ready, Agree(can_interface, ready), NEW i \in Slots, OnPeak(i),
         NEW b \in AnyBaud, NEW op, NEW why, peak_open(op, i, ready, b, why)
  PROVE  Agree(can_interface', init')
<1>1. /\ can_interface \in [Slots -> IfaceType]
      /\ can_interface[i] \in IfaceType
      /\ can_interface[i].internal \in TPCANHandle /\ can_interface[i].name # NULL
      /\ ready \subseteq Channel
  <2>1. can_interface[i] \in IfaceType /\ can_interface[i].internal \in TPCANHandle
    BY OnPeakType DEF OnPeak
  <2>2. can_interface[i].name # NULL
    BY <2>1, HandleFacts DEF Agree, Sound
  <2> QED BY <2>1, <2>2 DEF Agree
<1>2. CASE OpenFails(op, i, ready, b)
  <2> DEFINE x == WithBaud(can_interface[i], b)
  <2>1. /\ x \in IfaceType /\ x.name = can_interface[i].name
        /\ x.vendor = can_interface[i].vendor /\ x.opened = can_interface[i].opened
        /\ x.internal = can_interface[i].internal
    BY <1>1, OpenFacts
  <2>2. can_interface' = [can_interface EXCEPT ![i] = x] /\ init' = ready
    BY <1>2 DEF OpenFails
  <2> HIDE DEF x
  <2>3. x.internal \in ready => x.opened = 1
    <3>1. ASSUME x.internal \in ready PROVE x.opened = 1
      <4>1. PICK j \in Slots : /\ can_interface[j].internal = x.internal
                               /\ can_interface[j].opened = 1
        BY <3>1 DEF Agree
      <4>2. j = i
        BY <1>1, <2>1, <4>1, OwnHandle, HandleFacts
      <4> QED BY <2>1, <4>1, <4>2
    <3> QED BY <3>1
  <2>4. Agree([can_interface EXCEPT ![i] = x], ready)
    BY <1>1, <2>1, <2>3, PutSlot
  <2> QED BY <2>2, <2>4
<1>3. CASE OpenSucceeds(op, i, ready, b)
  <2> DEFINE x == Opened(can_interface[i], b)
             new == ready \cup {can_interface[i].internal}
  <2>1. /\ x \in IfaceType /\ x.name = can_interface[i].name
        /\ x.vendor = can_interface[i].vendor /\ x.opened = 1
        /\ x.internal = can_interface[i].internal
    BY <1>1, OpenFacts
  <2>2. can_interface' = [can_interface EXCEPT ![i] = x] /\ init' = new
    BY <1>3 DEF OpenSucceeds
  <2>3. new \in SUBSET Channel /\ \A c \in new : c \in ready \/ c = x.internal
    BY <1>1, <1>3, <2>1 DEF OpenSucceeds
  <2> HIDE DEF x, new
  <2>4. Agree([can_interface EXCEPT ![i] = x], new)
    BY <1>1, <2>1, <2>3, PutSlot
  <2> QED BY <2>2, <2>4
<1> QED BY <1>1, <1>2, <1>3, OpenCases

\* can_open stores the rate of a free slot.
LEMMA StoresBaudAgrees ==
  ASSUME Agree(can_interface, init), NEW i \in Slots, NEW b \in AnyBaud,
         StoresBaud(i, b)
  PROVE  Agree(can_interface', init')
<1> DEFINE x == WithBaud(can_interface[i], b)
<1>1. /\ can_interface[i] \in IfaceType /\ Sound(can_interface[i])
      /\ can_interface[i].internal = NULL /\ init \subseteq Channel
  BY DEF Agree, StoresBaud, Sound
<1>2. /\ x \in IfaceType /\ x.name = can_interface[i].name
      /\ x.vendor = can_interface[i].vendor /\ x.opened = can_interface[i].opened
      /\ x.internal = can_interface[i].internal
  BY <1>1, OpenFacts
<1>3. can_interface' = [can_interface EXCEPT ![i] = x] /\ init' = init
  BY DEF StoresBaud, WithBaud
<1> HIDE DEF x
<1>4. Agree([can_interface EXCEPT ![i] = x], init)
  BY <1>1, <1>2, PutSlot, PeakAssumption DEF Sound
<1> QED BY <1>3, <1>4

\* can_release of every slot of S.
LEMMA ReleaseAgrees ==
  ASSUME Agree(can_interface, init), NEW S \in SUBSET Slots, ReleaseSlots(S)
  PROVE  Agree(can_interface', init')
<1>1. /\ can_interface \in [Slots -> IfaceType]
      /\ \A i \in Slots : Sound(can_interface[i])
      /\ init \subseteq Channel
  BY DEF Agree
<1>2. \A i \in S : LET x == can_interface'[i] IN
        /\ x \in IfaceType /\ Sound(x) /\ x.name = NULL
  BY <1>1, ClearedType DEF ReleaseSlots, IfaceType, Sound
<1>3. \A i \in Slots : i \notin S => can_interface'[i] = can_interface[i]
  BY DEF ReleaseSlots
<1>4. can_interface' \in [Slots -> IfaceType] /\ \A i \in Slots : Sound(can_interface'[i])
  BY <1>1, <1>2, <1>3 DEF ReleaseSlots
<1>5. \A i, j \in Slots : i # j /\ can_interface'[i].name # NULL =>
        can_interface'[i].name # can_interface'[j].name
  BY <1>2, <1>3 DEF Agree
<1>6. ASSUME NEW c \in init'
      PROVE  \E i \in Slots : can_interface'[i].internal = c /\ can_interface'[i].opened = 1
  <2>1. c \in init /\ c \in Uninitialized(S)
    BY <1>6 DEF ReleaseSlots, Uninitialized
  <2>2. PICK i \in Slots : can_interface[i].internal = c /\ can_interface[i].opened = 1
    BY <2>1 DEF Agree
  <2>3. OnPeak(i)
    BY <1>1, <2>1, <2>2, OnPeakType, HandleFacts DEF OnPeak
  <2>4. i \notin S
    BY <2>1, <2>2, <2>3, OwnClosed
  <2> QED BY <1>3, <2>2, <2>4
<1>7. init' \subseteq Channel
  BY <1>1 DEF ReleaseSlots, Uninitialized
<1> QED BY <1>4, <1>5, <1>6, <1>7 DEF Agree

\* The slot a channel is registered in.
NewIface(c) ==
  [name |-> lookup_bus_name(c), vendor |-> "PEAK", opened |-> 0,
   baudrate |-> CAN_BAUD_1M, internal |-> c]

LEMMA NewIfaceFacts ==
  ASSUME NEW c \in TPCANHandle
  PROVE  /\ NewIface(c) \in IfaceType /\ Sound(NewIface(c))
         /\ NewIface(c).name = lookup_bus_name(c) /\ NewIface(c).name # NULL
         /\ NewIface(c).name \in Device
         /\ NewIface(c).opened = 0 /\ NewIface(c).internal = c
<1>1. lookup_bus_name(c) \in Device /\ lookup_bus_name(c) # NULL
  BY PeakAssumption, TableAssumption DEF lookup_bus_name
<1>2. c # NULL /\ CAN_BAUD_1M \in AnyBaud
  BY HandleFacts, TableAssumption DEF AnyBaud
<1>3. NewIface(c) \in IfaceType
  BY <1>1, <1>2 DEF NewIface, IfaceType, Iface
<1> QED BY <1>1, <1>2, <1>3 DEF NewIface, Sound

\* A registration as far as the table and the channels go: any free slot does.
Fills(c, i) ==
  /\ ~Registered(c)
  /\ Free(i)
  /\ can_interface' = [can_interface EXCEPT ![i] = NewIface(c)]
  /\ UNCHANGED init

LEMMA FillAgrees ==
  ASSUME Agree(can_interface, init), NEW c \in TPCANHandle, NEW i \in Slots, Fills(c, i)
  PROVE  Agree(can_interface', init')
<1> DEFINE x == NewIface(c)
<1>1. /\ can_interface \in [Slots -> IfaceType] /\ init \subseteq Channel
      /\ \A j \in Slots : Sound(can_interface[j])
  BY DEF Agree
<1>2. /\ can_interface' = [can_interface EXCEPT ![i] = x]
      /\ init' = init
      /\ can_interface[i].name = NULL
      /\ \A j \in Slots : can_interface[j].name # lookup_bus_name(c)
  BY DEF Fills, Registered, AlreadyRegistered, Free
<1>3. x \in IfaceType /\ Sound(x) /\ x.name = lookup_bus_name(c)
  BY NewIfaceFacts
<1> HIDE DEF x
<1>4. \A j \in Slots : can_interface'[j] = IF j = i THEN x ELSE can_interface[j]
  BY <1>1, <1>2
<1>5. can_interface' \in [Slots -> IfaceType] /\ \A j \in Slots : Sound(can_interface'[j])
  BY <1>1, <1>2, <1>3
<1>6. \A j, k \in Slots : j # k /\ can_interface'[j].name # NULL =>
        can_interface'[j].name # can_interface'[k].name
  BY <1>2, <1>3, <1>4 DEF Agree
<1>7. ASSUME NEW d \in init
      PROVE  \E j \in Slots : can_interface'[j].internal = d /\ can_interface'[j].opened = 1
  <2>1. PICK j \in Slots : can_interface[j].internal = d /\ can_interface[j].opened = 1
    BY DEF Agree
  <2>2. j # i
    BY <1>1, <1>2, <2>1 DEF Sound
  <2> QED BY <1>4, <2>1, <2>2
<1> QED BY <1>1, <1>2, <1>5, <1>6, <1>7 DEF Agree

LEMMA StepAgrees ==
  ASSUME attached \subseteq Channel, Agree(can_interface, init), Step
  PROVE  Agree(can_interface', init')
<1>1. CASE Quiet
  BY <1>1 DEF Quiet
<1>2. ASSUME NEW i \in Slots, NEW b \in AnyBaud, Opens(i, b) \/ Sets(i, b)
      PROVE  Agree(can_interface', init')
  BY <1>2, UninitializedAgrees, OpenAgrees DEF Opens, Sets
<1>3. ASSUME NEW i \in Slots, Closes(i)
      PROVE  Agree(can_interface', init')
  BY <1>3, UninitializedAgrees DEF Closes
<1>4. \A S \in {{}, Slots} \cup {{i} : i \in Slots} : S \in SUBSET Slots
  OBVIOUS
<1>5. ASSUME NEW c \in TPCANHandle, NEW i \in Slots, Registers(c, i)
      PROVE  Agree(can_interface', init')
  <2>1. Fills(c, i)
    BY <1>5 DEF Registers, RegisterChannel, FirstFree, Fills, NewIface
  <2> QED BY <2>1, FillAgrees
<1> QED BY <1>1, <1>2, <1>3, <1>4, <1>5, StoresBaudAgrees, ReleaseAgrees DEF Step, Releases

-----------------------------------------------------------------------------
(* The variables the table is not part of *)

ScanType ==
  /\ ret \in Result(Reason)
  /\ attached \subseteq Channel
  /\ pc \in {"idle", "list", "find"}
  /\ count \in 0 .. MaxInterfaces
  /\ list \in Seq(TPCANHandle) /\ Len(list) <= count
  /\ pc # "find" => list = <<>>
  /\ listed \subseteq Channel

LEMMA EndScanType ==
  ASSUME ScanType, NEW why \in Reason \cup {NULL}, EndScan(why), UNCHANGED attached
  PROVE  ScanType'
<1>1. ret' \in Result(Reason)
  BY ReturnType DEF EndScan, Op
<1> QED BY <1>1, TableAssumption DEF EndScan, ScanType

LEMMA CountType ==
  ASSUME NEW S \in SUBSET Channel
  PROVE  Cardinality(S) \in Nat
  BY FS_Subset, FS_CardinalityType, PeakAssumption

LEMMA CloseReasonType == \A S : CloseReason(S) \in Reason \cup {NULL}
  BY DEF CloseReason, Reason

LEMMA CallScanType ==
  ASSUME ScanType, Call
  PROVE  ScanType'
<1> USE DEF scan
<1>1. ASSUME NEW wanted \in BOOLEAN, can_find_interfaces_mask(wanted)
      PROVE  ScanType'
  <2>1. CASE \E why \in Reason : EndScan(why)
    BY <1>1, <2>1, EndScanType DEF can_find_interfaces_mask
  <2>2. CASE /\ pc' = "list" /\ ret' = NoCall /\ UNCHANGED <<list, listed>>
             /\ wanted /\ count' = Least(Cardinality(attached), MaxInterfaces)
    <3>1. count' \in 0 .. MaxInterfaces
      BY <2>2, CountType, TableAssumption DEF ScanType, Least
    <3> QED BY <1>1, <2>2, <3>1, NoCallType DEF can_find_interfaces_mask, ScanType
  <2>3. CASE Return("find", 0, NULL) /\ UNCHANGED scan
    <3>1. ret' \in Result(Reason)
      BY <2>3, ReturnType DEF Op
    <3> QED BY <1>1, <2>3, <3>1 DEF can_find_interfaces_mask, ScanType
  <2> QED BY <1>1, <2>1, <2>2, <2>3 DEF can_find_interfaces_mask
<1>2. ASSUME UNCHANGED <<attached, scan>>, ret' \in Result(Reason)
      PROVE  ScanType'
  BY <1>2 DEF ScanType
<1>3. ASSUME NEW op \in Op, NEW i, NEW ready, NEW b, NEW why \in Reason \cup {NULL},
             peak_open(op, i, ready, b, why)
      PROVE  ret' \in Result(Reason)
  <2>1. Return(op, -1, "pcan") \/ Return(op, 0, why)
    BY <1>3 DEF peak_open
  <2> QED BY <1>3, <2>1, ReturnType DEF Reason
<1>4. ASSUME NEW i \in CallIndex, NEW b \in AnyBaud, can_open(i, b)
      PROVE  ScanType'
  BY <1>2, <1>3, <1>4, OpenRejectedType DEF can_open, Op
<1>5. ASSUME NEW i \in CallIndex, NEW b \in AnyBaud, can_set_baudrate(i, b)
      PROVE  ScanType'
  BY <1>2, <1>3, <1>5, SetRejectedType, CloseReasonType DEF can_set_baudrate, Op
<1>6. ASSUME NEW i \in CallIndex, can_close(i) \/ can_release(i)
      PROVE  ScanType'
  <2>1. ret' \in Result(Reason)
    BY <1>6, ReturnType, CloseReasonType DEF can_close, can_release, Op
  <2> QED BY <1>2, <1>6, <2>1 DEF can_close, can_release
<1>7. ASSUME NEW i \in CallIndex, can_update(i)
      PROVE  ScanType'
  <2>1. ASSUME peak_update(i) PROVE ret' \in Result(Reason)
    BY <2>1, ReturnType, CloseReasonType DEF peak_update, Op
  <2> QED BY <1>2, <1>7, <2>1, RejectedType DEF can_update, Op
<1>8. ASSUME NEW i \in CallIndex, can_send(i) \/ can_recv(i)
      PROVE  ScanType'
  <2>1. ASSUME NEW op \in Op, peak_transfer(op, i) PROVE ret' \in Result(Reason)
    BY <2>1, ReturnType DEF peak_transfer, Reason
  <2> QED BY <1>2, <1>8, <2>1, RejectedType DEF can_send, can_recv, Op
<1>9. ASSUME NEW i \in CallIndex, NEW bad \in BOOLEAN, can_get(i, bad)
      PROVE  ScanType'
  BY <1>2, <1>9, GetType DEF can_get
<1>10. CASE can_release_interfaces
  <2>1. ret' \in Result(Reason)
    BY <1>10, ReturnType, CloseReasonType DEF can_release_interfaces, Op
  <2> QED BY <1>2, <1>10, <2>1 DEF can_release_interfaces
<1> QED BY <1>1, <1>4, <1>5, <1>6, <1>7, <1>8, <1>9, <1>10 DEF Call

\* The list that is read holds what PCAN-Basic wrote, wherever that ends.
LEMMA ListRead ==
  ASSUME ScanType, peak_list, ~EndScan("pcan")
  PROVE  /\ pc' = "find" /\ UNCHANGED <<can_interface, attached, init, count, ret>>
         /\ list' \in Seq(TPCANHandle) /\ Len(list') = count
         /\ listed' \subseteq Channel
         /\ \A c \in listed' : \E k \in 1 .. Len(list') : list'[k] = c
<1> DEFINE filled == Least(count, Cardinality(attached))
<1>1. PICK l \in [1 .. count -> TPCANHandle] :
        /\ pc' = "find" /\ list' = l /\ listed' = {l[k] : k \in 1 .. filled}
        /\ \A k \in 1 .. filled : l[k] \in attached
        /\ UNCHANGED <<can_interface, attached, init, count, ret>>
  BY DEF peak_list
<1>2. count \in Nat
  BY TableAssumption DEF ScanType
<1>3. l \in Seq(TPCANHandle) /\ Len(l) = count
  BY <1>2
<1>4. Cardinality(attached) \in Nat
  BY CountType DEF ScanType
<1>5. 1 .. filled \subseteq 1 .. count
  BY <1>2, <1>4 DEF Least
<1> HIDE DEF filled
<1>6. \A c \in listed' : \E k \in 1 .. count : l[k] = c
  BY <1>1, <1>5
<1>7. listed' \subseteq Channel
  BY <1>1, <1>5 DEF ScanType
<1> QED BY <1>1, <1>3, <1>6, <1>7

LEMMA NextScanType ==
  ASSUME ScanType, [Next]_vars
  PROVE  ScanType'
<1>1. CASE peak_list
  <2>1. CASE EndScan("pcan")
    BY <1>1, <2>1, EndScanType DEF peak_list, Reason
  <2>2. CASE ~EndScan("pcan")
    BY <1>1, <2>2, ListRead DEF ScanType
  <2> QED BY <2>1, <2>2
<1>2. CASE peak_find_channel
  <2>1. CASE EndScan("memory") \/ EndScan(NULL)
    BY <1>2, <2>1, EndScanType DEF peak_find_channel, Reason
  <2>2. CASE list' = Tail(list) /\ UNCHANGED <<pc, count, listed, ret>>
    <3>1. list' \in Seq(TPCANHandle) /\ Len(list') = Len(list) - 1
      BY <1>2, <2>2 DEF peak_find_channel, ScanType
    <3>2. Len(list) \in Nat /\ count \in Nat
      BY TableAssumption DEF ScanType
    <3> QED BY <1>2, <2>2, <3>1, <3>2 DEF peak_find_channel, ScanType
  <2> QED BY <1>2, <2>1, <2>2 DEF peak_find_channel
<1>3. CASE peak_find_end
  BY <1>3, EndScanType DEF peak_find_end
<1>4. CASE Environment \/ UNCHANGED vars
  BY <1>4 DEF Environment, Plug, Unplug, vars, scan, ScanType
<1> QED BY <1>1, <1>2, <1>3, <1>4, CallScanType DEF Next

-----------------------------------------------------------------------------
(* The invariant of the specification *)

IInv == ScanType /\ Agree(can_interface, init)

LEMMA InitIInv == ASSUME Init PROVE IInv
<1>1. ZeroIface \in IfaceType /\ Sound(ZeroIface) /\ ZeroIface.name = NULL
  BY ZeroIfaceType DEF IfaceType, ZeroIface, Sound
<1>2. ScanType
  BY NoCallType, TableAssumption DEF Init, ScanType
<1>3. Agree(can_interface, init)
  BY <1>1 DEF Init, Agree
<1> QED BY <1>2, <1>3 DEF IInv

LEMMA NextIInv == ASSUME IInv, [Next]_vars PROVE IInv'
<1>1. Agree(can_interface', init')
  BY NextSteps, StepAgrees DEF IInv, ScanType
<1>2. Agree(can_interface, init)'
  BY <1>1 DEF Agree, Sound, lookup_bus_name
<1> QED BY <1>2, NextScanType DEF IInv

LEMMA Invariant == Spec => []IInv
  BY InitIInv, NextIInv, PTL DEF Spec

\* Every variable keeps to its values: the list never holds more than was
\* allocated for it, however the channels come and go between count and list.
THEOREM TypeCorrect == Spec => []TypeOK
<1>1. IInv => TypeOK
  BY DEF IInv, ScanType, Agree, TypeOK, IfaceType
<1> QED BY <1>1, Invariant, PTL

\* Every channel that is initialised belongs to one slot, flagged open and under
\* the name of the channel, through which it can be uninitialised.
THEOREM InitializedAreOwned == Spec => []InitializedOwned
<1>1. ASSUME IInv PROVE InitializedOwned
  <2>1. init \subseteq {can_interface[i].internal : i \in Slots}
    BY <1>1 DEF IInv, Agree
  <2>2. ASSUME NEW i \in ReallyOpen
        PROVE  /\ can_interface[i].opened = 1
               /\ can_interface[i].name = lookup_bus_name(can_interface[i].internal)
               /\ \A j \in Slots \ {i} :
                    can_interface[j].internal # can_interface[i].internal
    <3>1. i \in Slots /\ can_interface[i].internal \in init
      BY <2>2 DEF ReallyOpen
    <3>2. can_interface[i].internal # NULL /\ Sound(can_interface[i])
      BY <1>1, <3>1, PeakAssumption DEF IInv, Agree
    <3>3. \A j \in Slots \ {i} : can_interface[j].internal # can_interface[i].internal
      BY <1>1, <3>1, <3>2, OwnHandle DEF IInv
    <3>4. PICK j \in Slots : /\ can_interface[j].internal = can_interface[i].internal
                             /\ can_interface[j].opened = 1
      BY <1>1, <3>1 DEF IInv, Agree
    <3> QED BY <3>1, <3>2, <3>3, <3>4 DEF Sound
  <2> QED BY <2>1, <2>2 DEF InitializedOwned
<1> QED BY <1>1, Invariant, PTL

-----------------------------------------------------------------------------
(* Where a flag without an initialised channel comes from *)

\* The closes that leave a flag: of the slot's own channel, or of all of them.
FlagLeft(i) ==
  \/ /\ ret'.op \in {"close", "set"}
     /\ init' = init \ {can_interface[i].internal}
  \/ /\ ret'.op \in {"close", "set", "release", "update"}
     /\ PCAN_NONEBUS \in ChannelsOf(Slots) /\ init' = {}

LEMMA NewFlag ==
  ASSUME IInv, Step, NEW i \in Slots, FlagMisleads(i)', ~FlagMisleads(i)
  PROVE  FlagLeft(i)
<1>1. /\ can_interface \in [Slots -> IfaceType]
      /\ can_interface[i] \in IfaceType /\ Sound(can_interface[i])
  BY DEF IInv, Agree
<1>2. can_interface'[i].opened = 1 /\ can_interface'[i].internal \notin init'
  BY DEF FlagMisleads, ReallyOpen
<1>3. can_interface[i].opened = 1 => can_interface[i].internal \in init
  BY DEF FlagMisleads, ReallyOpen
<1>4. ASSUME can_interface'[i].opened = can_interface[i].opened,
             can_interface'[i].internal = can_interface[i].internal, init \subseteq init'
      PROVE  FALSE
  BY <1>2, <1>3, <1>4
<1>12. ASSUME NEW k \in Slots, init' = Uninitialized({k}), ret'.op \in {"close", "set"},
              can_interface'[i].opened = can_interface[i].opened,
              can_interface'[i].internal = can_interface[i].internal
       PROVE  FlagLeft(i)
  <2>1. CASE PCAN_NONEBUS \in ChannelsOf({k})
    <3>1. PCAN_NONEBUS \in ChannelsOf(Slots)
      BY <2>1 DEF ChannelsOf
    <3>2. init' = {}
      BY <1>12, <2>1 DEF Uninitialized
    <3> QED BY <1>12, <3>1, <3>2 DEF FlagLeft
  <2>2. CASE PCAN_NONEBUS \notin ChannelsOf({k})
    <3>1. init' = init \ ChannelsOf({k})
      BY <1>12, <2>2 DEF Uninitialized
    <3>2. can_interface[i].internal \in ChannelsOf({k})
      BY <1>2, <1>3, <1>12, <3>1
    <3>3. ChannelsOf({k}) = {can_interface[i].internal}
      BY <3>2 DEF ChannelsOf
    <3> QED BY <1>12, <3>1, <3>3 DEF FlagLeft
  <2> QED BY <2>1, <2>2
<1>5. ~Quiet
  BY <1>4 DEF Quiet
<1>6. ASSUME NEW k \in Slots, NEW b \in AnyBaud, StoresBaud(k, b)
      PROVE  FALSE
  <2>1. can_interface'[i] = IF i = k THEN WithBaud(can_interface[i], b) ELSE can_interface[i]
    BY <1>1, <1>6 DEF StoresBaud, WithBaud
  <2> QED BY <1>1, <1>4, <1>6, <2>1, OpenFacts DEF StoresBaud
<1>7. ASSUME NEW k \in Slots, NEW b \in AnyBaud, Opens(k, b)
      PROVE  FALSE
  <2>1. CASE OpenFails("open", k, init, b)
    <3>1. /\ init' = init
          /\ can_interface'[i] = IF i = k THEN WithBaud(can_interface[i], b)
                                          ELSE can_interface[i]
      BY <1>1, <2>1 DEF OpenFails
    <3> QED BY <1>1, <1>4, <3>1, OpenFacts
  <2>2. CASE OpenSucceeds("open", k, init, b)
    <3>1. /\ init' = init \cup {can_interface[k].internal}
          /\ can_interface'[i] = IF i = k THEN Opened(can_interface[i], b)
                                          ELSE can_interface[i]
      BY <1>1, <2>2 DEF OpenSucceeds
    <3>2. CASE i = k
      BY <1>1, <1>2, <3>1, <3>2, OpenFacts
    <3>3. CASE i # k
      BY <1>4, <3>1, <3>3
    <3> QED BY <3>2, <3>3
  <2> QED BY <1>1, <1>7, <2>1, <2>2, OpenCases DEF Opens
<1>8. ASSUME NEW k \in Slots, NEW b \in AnyBaud, Sets(k, b)
      PROVE  FlagLeft(i)
  <2>1. CASE OpenFails("set", k, Uninitialized({k}), b)
    <3>1. /\ init' = Uninitialized({k}) /\ ret'.op = "set"
          /\ can_interface'[i] = IF i = k THEN WithBaud(can_interface[i], b)
                                          ELSE can_interface[i]
      BY <1>1, <2>1 DEF OpenFails
    <3>2. /\ can_interface'[i].opened = can_interface[i].opened
          /\ can_interface'[i].internal = can_interface[i].internal
      BY <1>1, <3>1, OpenFacts
    <3> QED BY <1>12, <3>1, <3>2
  <2>2. CASE OpenSucceeds("set", k, Uninitialized({k}), b)
    <3>1. /\ init' = Uninitialized({k}) \cup {can_interface[k].internal}
          /\ can_interface[k].internal # PCAN_NONEBUS
          /\ can_interface'[i] = IF i = k THEN Opened(can_interface[i], b)
                                          ELSE can_interface[i]
      BY <1>1, <2>2, PeakAssumption DEF OpenSucceeds, IInv, ScanType
    <3>2. CASE i = k
      BY <1>1, <1>2, <3>1, <3>2, OpenFacts
    <3>3. CASE i # k
      <4>1. ChannelsOf({k}) \subseteq {can_interface[k].internal}
        BY DEF ChannelsOf
      <4>2. init \subseteq init'
        BY <3>1, <4>1 DEF Uninitialized
      <4> QED BY <1>4, <3>1, <3>3, <4>2
    <3> QED BY <3>2, <3>3
  <2> QED BY <1>1, <1>8, <2>1, <2>2, OpenCases DEF Sets
<1>9. ASSUME NEW S \in SUBSET Slots, Releases(S)
      PROVE  FlagLeft(i)
  <2>1. CASE i \in S
    BY <1>1, <1>2, <1>9, <2>1, ClearedType DEF Releases, ReleaseSlots, IfaceType
  <2>2. CASE i \notin S
    <3>1. can_interface'[i] = can_interface[i] /\ ret'.op \in {"release", "update"}
      BY <1>9, <2>2 DEF Releases, ReleaseSlots
    <3>2. can_interface[i].internal \in init /\ can_interface[i].internal \notin init'
      BY <1>2, <1>3, <3>1
    <3>3. CASE PCAN_NONEBUS \in ChannelsOf(S)
      <4>1. PCAN_NONEBUS \in ChannelsOf(Slots)
        BY <3>3 DEF ChannelsOf
      <4>2. init' = {}
        BY <1>9, <3>3 DEF Releases, ReleaseSlots, Uninitialized
      <4> QED BY <3>1, <4>1, <4>2 DEF FlagLeft
    <3>4. CASE PCAN_NONEBUS \notin ChannelsOf(S)
      <4>1. init' = init \ ChannelsOf(S)
        BY <1>9, <3>4 DEF Releases, ReleaseSlots, Uninitialized
      <4>2. PICK j \in S : OnPeak(j) /\ can_interface[j].internal = can_interface[i].internal
        BY <3>2, <4>1 DEF ChannelsOf
      <4>3. can_interface[i].internal # NULL
        BY <3>2, PeakAssumption DEF IInv, Agree
      <4> QED BY <2>2, <4>2, <4>3, OwnHandle DEF IInv, OnPeak
    <3> QED BY <3>3, <3>4
  <2> QED BY <2>1, <2>2
<1>10. ASSUME NEW c \in TPCANHandle, NEW k \in Slots, Registers(c, k)
       PROVE  FALSE
  <2>1. /\ init' = init
        /\ can_interface'[i] = IF i = k THEN NewIface(c) ELSE can_interface[i]
    BY <1>1, <1>10 DEF Registers, RegisterChannel, NewIface
  <2> QED BY <1>2, <1>4, <2>1, NewIfaceFacts
<1>11. \A S \in {{}, Slots} \cup {{k} : k \in Slots} : S \in SUBSET Slots
  OBVIOUS
<1>13. ASSUME NEW k \in Slots, Closes(k)
       PROVE  FlagLeft(i)
  BY <1>12, <1>13 DEF Closes
<1> QED BY <1>5, <1>6, <1>7, <1>8, <1>9, <1>10, <1>11, <1>13 DEF Step

\* The flag comes to say open of a channel that is not initialised by the close of
\* that channel alone in can_close or can_set_baudrate, or by the close or release
\* of a slot with PCAN_NONEBUS, and in no other way.
THEOREM FlagIsLeftByClose == Spec => FlagLeftByClose
<1> DEFINE Left ==
      \A i \in Slots : FlagMisleads(i)' /\ ~FlagMisleads(i) => FlagLeft(i)
<1>1. ASSUME IInv, [Next]_vars PROVE Left
  BY <1>1, NextSteps, NewFlag DEF IInv, ScanType
<1>2. IInv /\ [Next]_vars => [Left]_vars
  BY <1>1
<1>3. ASSUME [][Left]_vars PROVE FlagLeftByClose
  BY <1>3 DEF FlagLeftByClose, FlagLeft
<1> QED BY <1>2, <1>3, Invariant, PTL DEF Spec

-----------------------------------------------------------------------------
(* The scan passes no listed channel over *)

\* While the scan runs, what PCAN-Basic listed is still in the list or has a
\* slot under its name.
Found(c) == \E i \in Slots : can_interface[i].name = lookup_bus_name(c)

ListedFound ==
  pc = "find" =>
    \A c \in listed : (\E k \in 1 .. Len(list) : list[k] = c) \/ Found(c)

\* A turn of the loop leaves a slot for the channel it comes to.
LEMMA TurnFinds ==
  ASSUME IInv, ListedFound, pc = "find", list # <<>>,
         \/ Registered(Head(list)) /\ UNCHANGED can_interface
         \/ \E i \in Slots : RegisterChannel(Head(list), i),
         list' = Tail(list), listed' = listed
  PROVE  ListedFound'
<1> SUFFICES ASSUME NEW c \in listed
             PROVE  \/ \E k \in 1 .. Len(list') : list'[k] = c
                    \/ \E i \in Slots : can_interface'[i].name = lookup_bus_name(c)
  BY DEF ListedFound, Found, lookup_bus_name
<1>1. /\ can_interface \in [Slots -> IfaceType]
      /\ list \in Seq(TPCANHandle) /\ listed \subseteq Channel
  BY DEF IInv, Agree, ScanType
<1>2. lookup_bus_name(c) # NULL /\ lookup_bus_name(Head(list)) # NULL
  BY PeakAssumption, TableAssumption DEF lookup_bus_name
<1>3. ASSUME Found(c) \/ c = Head(list)
      PROVE  \E i \in Slots : can_interface'[i].name = lookup_bus_name(c)
  <2>1. CASE Registered(Head(list)) /\ UNCHANGED can_interface
    BY <1>3, <2>1 DEF Registered, AlreadyRegistered, Found
  <2>2. ASSUME NEW i \in Slots, RegisterChannel(Head(list), i)
        PROVE  \E j \in Slots : can_interface'[j].name = lookup_bus_name(c)
    <3>1. /\ can_interface[i].name = NULL
          /\ \A j \in Slots : can_interface'[j] =
               IF j = i THEN NewIface(Head(list)) ELSE can_interface[j]
      BY <1>1, <2>2 DEF RegisterChannel, FirstFree, Free, NewIface
    <3>2. NewIface(Head(list)).name = lookup_bus_name(Head(list))
      BY DEF NewIface
    <3> QED BY <1>2, <1>3, <3>1, <3>2 DEF Found
  <2> QED BY <2>1, <2>2
<1>4. ASSUME NEW k \in 1 .. Len(list), list[k] = c, c # Head(list)
      PROVE  \E m \in 1 .. Len(list') : list'[m] = c
  <2>1. Head(list) = list[1] /\ Len(list) \in Nat /\ k # 1
    BY <1>1, <1>4
  <2>2. k - 1 \in 1 .. Len(list') /\ list'[k - 1] = c
    BY <1>1, <1>4, <2>1
  <2> QED BY <2>2
<1> QED BY <1>3, <1>4 DEF ListedFound

LEMMA NextFinds ==
  ASSUME IInv, ListedFound, [Next]_vars
  PROVE  ListedFound'
<1>1. CASE pc' # "find"
  BY <1>1 DEF ListedFound
<1>2. CASE UNCHANGED <<can_interface, pc, list, listed>>
  BY <1>2 DEF ListedFound, Found, lookup_bus_name
<1>3. CASE Call
  <2>1. pc' # "find"
    BY <1>3 DEF Call, can_find_interfaces_mask, can_open, can_set_baudrate, can_close,
       can_release, can_update, can_send, can_recv, can_get, can_release_interfaces,
       scan, EndScan
  <2> QED BY <1>1, <2>1
<1>4. CASE peak_list
  <2>1. CASE EndScan("pcan")
    BY <1>1, <2>1 DEF EndScan
  <2>2. CASE ~EndScan("pcan")
    BY <1>4, <2>2, ListRead DEF IInv, ListedFound
  <2> QED BY <2>1, <2>2
<1>5. CASE peak_find_channel
  <2>1. CASE EndScan(NULL) \/ EndScan("memory")
    BY <1>1, <2>1 DEF EndScan
  <2> QED BY <1>5, <2>1, TurnFinds DEF peak_find_channel
<1>6. CASE peak_find_end
  BY <1>1, <1>6 DEF peak_find_end, EndScan
<1>7. CASE Environment \/ UNCHANGED vars
  BY <1>2, <1>7 DEF Environment, Plug, Unplug, scan, vars
<1> QED BY <1>3, <1>4, <1>5, <1>6, <1>7 DEF Next

\* A scan that met no error leaves a slot for the name of every channel that
\* PCAN-Basic listed, or the table full.
THEOREM ScanIsComplete == Spec => FindComplete
<1> DEFINE Complete ==
      pc = "find" /\ pc' = "idle" /\ ret'.reason = NULL =>
        \/ TableFull
        \/ \A c \in listed : \E i \in Slots :
             can_interface[i].name = lookup_bus_name(c)
<1>1. ASSUME IInv, ListedFound, [Next]_vars PROVE Complete
  <2> SUFFICES ASSUME pc = "find", pc' = "idle", ret'.reason = NULL, ~TableFull
               PROVE  \A c \in listed : Found(c)
    BY DEF Found
  <2>1. CASE Call
    BY <2>1 DEF Call, can_find_interfaces_mask, can_open, can_set_baudrate, can_close,
       can_release, can_update, can_send, can_recv, can_get, can_release_interfaces
  <2>2. CASE peak_find_channel
    <3>1. EndScan("memory")
      BY <2>2 DEF peak_find_channel
    <3> QED BY <3>1, ReturnFields, PeakAssumption DEF EndScan, Reason
  <2>3. CASE peak_find_end
    <3>1. list = <<>> /\ Len(list) = 0
      BY <2>3 DEF peak_find_end
    <3>2. 1 .. Len(list) = {}
      BY <3>1
    <3> QED BY <1>1, <3>2 DEF ListedFound
  <2>4. ~(peak_list \/ Environment \/ UNCHANGED vars)
    BY DEF peak_list, Environment, Plug, Unplug, scan, vars
  <2> QED BY <1>1, <2>1, <2>2, <2>3, <2>4 DEF Next
<1>2. IInv /\ ListedFound /\ [Next]_vars => [Complete]_vars
  BY <1>1
<1>3. Init => ListedFound
  BY DEF Init, ListedFound
<1>4. IInv /\ ListedFound /\ [Next]_vars => ListedFound'
  BY NextFinds
<1> QED BY <1>2, <1>3, <1>4, Invariant, PTL DEF Spec, FindComplete

-----------------------------------------------------------------------------
(* The back-end implements CanLifecycle *)

\* The abstract state that a table and the initialised channels stand for.
Names(tab) == [i \in Slots |-> tab[i].name]
Ready(tab, ini) == {i \in Slots : tab[i].internal \in ini}

\* What a step does to the abstract state.
SameNames == Names(can_interface') = Names(can_interface)

Same ==
  SameNames /\ Ready(can_interface', init') = Ready(can_interface, init)

OpensIndex(i) ==
  /\ can_interface[i].name # NULL
  /\ SameNames
  /\ Ready(can_interface', init') = Ready(can_interface, init) \cup {i}

ClosesIndex(i) ==
  SameNames /\ Ready(can_interface', init') = Ready(can_interface, init) \ {i}

FreesIndices(S) ==
  /\ Names(can_interface') =
       [i \in Slots |-> IF i \in S THEN NULL ELSE Names(can_interface)[i]]
  /\ Ready(can_interface', init') = Ready(can_interface, init) \ S

\* The index i, of the device PCAN-NONEBUS, takes all open ones along.
ClosesAll(i) ==
  /\ can_interface[i].name = NoneBus
  /\ SameNames
  /\ Ready(can_interface', init') = {}

FreesAll(i) ==
  /\ can_interface[i].name = NoneBus
  /\ Names(can_interface') =
       [j \in Slots |-> IF j = i THEN NULL ELSE Names(can_interface)[j]]
  /\ Ready(can_interface', init') = {}

TakesIndex(i, n) ==
  /\ Names(can_interface)[i] = NULL
  /\ \A j \in Slots : /\ Names(can_interface)[j] # n
                      /\ j < i => Names(can_interface)[j] # NULL
  /\ Names(can_interface') = [Names(can_interface) EXCEPT ![i] = n]
  /\ Ready(can_interface', init') = Ready(can_interface, init)

\* Closing reaches the channel of one slot, which is no other slot's.
LEMMA OneClosed ==
  ASSUME IInv, NEW S \in SUBSET Slots, NEW j \in Slots,
         PCAN_NONEBUS \notin ChannelsOf(S)
  PROVE  can_interface[j].internal \in Uninitialized(S)
           <=> j \notin S /\ can_interface[j].internal \in init
<1>1. CASE can_interface[j].internal \notin init
  BY <1>1 DEF Uninitialized
<1>2. CASE can_interface[j].internal \in init
  <2>1. can_interface[j].internal # NULL /\ OnPeak(j)
    BY <1>2, OnPeakType, HandleFacts DEF IInv, Agree, OnPeak
  <2>2. \A k \in S : can_interface[k].internal = can_interface[j].internal => k = j
    BY <2>1, OwnHandle DEF IInv
  <2> QED BY <1>2, <2>1, <2>2 DEF Uninitialized, ChannelsOf
<1> QED BY <1>1, <1>2

\* The slot with PCAN_NONEBUS is that of the device PCAN-NONEBUS.
LEMMA AllClosed ==
  ASSUME IInv, NEW S \in SUBSET Slots, PCAN_NONEBUS \in ChannelsOf(S)
  PROVE  /\ Uninitialized(S) = {}
         /\ \E i \in S : can_interface[i].name = NoneBus
<1>1. PICK i \in S : OnPeak(i) /\ can_interface[i].internal = PCAN_NONEBUS
  BY DEF ChannelsOf
<1>2. can_interface[i].name = NoneBus
  BY <1>1, HandleFacts DEF IInv, Agree, Sound
<1> QED BY <1>1, <1>2 DEF Uninitialized

LEMMA StepsImplement ==
  ASSUME IInv, Step
  PROVE  \/ Same
         \/ \E i \in Slots : OpensIndex(i) \/ ClosesIndex(i)
         \/ \E i \in Slots : ClosesAll(i) \/ FreesAll(i)
         \/ \E S \in {Slots} \cup {{i} : i \in Slots} : FreesIndices(S)
         \/ \E i \in Slots, n \in Device : TakesIndex(i, n)
<1> DEFINE Abstract == \/ Same
                       \/ \E i \in Slots : OpensIndex(i) \/ ClosesIndex(i)
                       \/ \E i \in Slots : ClosesAll(i) \/ FreesAll(i)
                       \/ \E S \in {Slots} \cup {{i} : i \in Slots} : FreesIndices(S)
                       \/ \E i \in Slots, n \in Device : TakesIndex(i, n)
           Kept == \A j \in Slots :
                     /\ can_interface'[j].name = can_interface[j].name
                     /\ can_interface'[j].internal = can_interface[j].internal
<1>1. /\ can_interface \in [Slots -> IfaceType]
      /\ \A i \in Slots : Sound(can_interface[i])
      /\ init \subseteq Channel
  BY DEF IInv, Agree
<1>2. ASSUME Kept, init' = init PROVE Same
  BY <1>2 DEF Same, SameNames, Names, Ready
<1>3. ASSUME NEW i \in Slots, Kept, init' = Uninitialized({i})
      PROVE  ClosesIndex(i) \/ ClosesAll(i)
  <2>1. SameNames
    BY <1>3 DEF SameNames, Names
  <2>2. CASE PCAN_NONEBUS \notin ChannelsOf({i})
    <3>1. \A j \in Slots : can_interface'[j].internal \in init'
                             <=> j # i /\ can_interface[j].internal \in init
      BY <1>3, <2>2, OneClosed
    <3> QED BY <2>1, <3>1 DEF ClosesIndex, Ready
  <2>3. CASE PCAN_NONEBUS \in ChannelsOf({i})
    <3>1. init' = {} /\ can_interface[i].name = NoneBus
      BY <1>3, <2>3, AllClosed
    <3> QED BY <2>1, <3>1 DEF ClosesAll, Ready
  <2> QED BY <2>2, <2>3
<1>4. ASSUME NEW i \in Slots, NEW ready, OnPeak(i), Kept,
             can_interface[i].internal \in Channel,
             ready = init \/ ready = Uninitialized({i}),
             init' = ready \cup {can_interface[i].internal}
      PROVE  OpensIndex(i)
  <2>1. SameNames
    BY <1>4 DEF SameNames, Names
  <2>2. can_interface[i].name # NULL /\ can_interface[i].internal # NULL
    BY <1>1, <1>4 DEF OnPeak, Sound
  <2>3. \A j \in Slots : j # i => can_interface[j].internal # can_interface[i].internal
    BY <2>2, OwnHandle DEF IInv
  <2>4. \A j \in Slots : j # i => (can_interface[j].internal \in ready
                                     <=> can_interface[j].internal \in init)
    <3>1. PCAN_NONEBUS \notin ChannelsOf({i})
      BY <1>4, PeakAssumption DEF ChannelsOf
    <3> QED BY <1>4, <3>1, OneClosed
  <2>5. \A j \in Slots : can_interface'[j].internal \in init'
                           <=> j = i \/ can_interface[j].internal \in init
    BY <1>4, <2>3, <2>4
  <2> QED BY <2>1, <2>2, <2>5 DEF OpensIndex, Ready
<1>5. ASSUME NEW i \in Slots, NEW b \in AnyBaud, NEW x,
             x = WithBaud(can_interface[i], b) \/ x = Opened(can_interface[i], b),
             can_interface' = [can_interface EXCEPT ![i] = x]
      PROVE  Kept
  BY <1>1, <1>5, OpenFacts
<1> HIDE DEF Kept
<1>6. ASSUME Quiet PROVE Same
  BY <1>6 DEF Quiet, Same, SameNames
<1>7. ASSUME NEW i \in Slots, NEW b \in AnyBaud, StoresBaud(i, b)
      PROVE  Same
  BY <1>2, <1>5, <1>7 DEF StoresBaud, WithBaud
<1>8. ASSUME NEW i \in Slots, NEW b \in AnyBaud, NEW op, NEW ready, OnPeak(i),
             ready = init \/ ready = Uninitialized({i}),
             OpenFails(op, i, ready, b) \/ OpenSucceeds(op, i, ready, b)
      PROVE  Same \/ OpensIndex(i) \/ ClosesIndex(i) \/ ClosesAll(i)
  <2>1. CASE OpenFails(op, i, ready, b)
    <3>1. Kept /\ init' = ready
      BY <1>5, <2>1 DEF OpenFails
    <3> QED BY <1>2, <1>3, <1>8, <3>1
  <2>2. CASE OpenSucceeds(op, i, ready, b)
    <3>1. /\ Kept /\ init' = ready \cup {can_interface[i].internal}
          /\ can_interface[i].internal \in Channel
      BY <1>5, <2>2 DEF OpenSucceeds, IInv, ScanType
    <3> QED BY <1>4, <1>8, <3>1
  <2> QED BY <1>8, <2>1, <2>2
<1>9. ASSUME NEW i \in Slots, NEW b \in AnyBaud, Opens(i, b) \/ Sets(i, b)
      PROVE  Same \/ OpensIndex(i) \/ ClosesIndex(i) \/ ClosesAll(i)
  BY <1>1, <1>8, <1>9, OpenCases DEF Opens, Sets
<1>10. ASSUME NEW i \in Slots, Closes(i)
       PROVE  ClosesIndex(i) \/ ClosesAll(i)
  BY <1>3, <1>10 DEF Closes, Kept
<1>11. ASSUME NEW S \in {{}, Slots} \cup {{i} : i \in Slots}, ReleaseSlots(S)
       PROVE  Same \/ (S # {} /\ FreesIndices(S)) \/ \E i \in Slots : FreesAll(i)
  <2>1. \A j \in S : /\ Cleared(can_interface[j]).name = NULL
                     /\ Cleared(can_interface[j]).internal = NULL
    BY <1>1, <1>11, ClearedType DEF IfaceType
  <2>2. NULL \notin Uninitialized(S)
    BY <1>1, PeakAssumption DEF Uninitialized
  <2>3. \A j \in Slots :
          /\ can_interface'[j].name = IF j \in S THEN NULL ELSE can_interface[j].name
          /\ can_interface'[j].internal =
               IF j \in S THEN NULL ELSE can_interface[j].internal
    BY <1>11, <2>1 DEF ReleaseSlots
  <2>4. CASE S = Slots
    <3>1. 0 \in Slots
      BY TableAssumption DEF Slots
    <3>2. FreesIndices(Slots)
      BY <1>11, <2>2, <2>3, <2>4 DEF ReleaseSlots, FreesIndices, Names, Ready
    <3> QED BY <2>4, <3>1, <3>2
  <2>5. CASE PCAN_NONEBUS \notin ChannelsOf(S)
    <3>1. \A j \in Slots : can_interface'[j].internal \in init'
                             <=> j \notin S /\ can_interface[j].internal \in init
      BY <1>11, <2>2, <2>3, <2>5, OneClosed DEF ReleaseSlots
    <3>2. FreesIndices(S)
      BY <2>3, <3>1 DEF FreesIndices, Names, Ready
    <3>3. CASE S = {}
      BY <2>3, <3>1, <3>3 DEF Same, SameNames, Names, Ready
    <3> QED BY <3>2, <3>3
  <2>6. CASE S # Slots /\ PCAN_NONEBUS \in ChannelsOf(S)
    <3>1. /\ init' = {} /\ S \in SUBSET Slots
          /\ \E i \in S : can_interface[i].name = NoneBus
      BY <1>11, <2>6, AllClosed DEF ReleaseSlots
    <3>2. PICK i \in Slots : S = {i} /\ can_interface[i].name = NoneBus
      BY <1>11, <2>6, <3>1
    <3> QED BY <2>3, <3>1, <3>2 DEF FreesAll, Names, Ready
  <2> QED BY <2>4, <2>5, <2>6
<1>12. ASSUME NEW c \in TPCANHandle, NEW i \in Slots, Registers(c, i)
       PROVE  lookup_bus_name(c) \in Device /\ TakesIndex(i, lookup_bus_name(c))
  <2>1. /\ can_interface' = [can_interface EXCEPT ![i] = NewIface(c)]
        /\ init' = init
        /\ can_interface[i].name = NULL
        /\ \A j \in Slots : /\ can_interface[j].name # lookup_bus_name(c)
                            /\ j < i => can_interface[j].name # NULL
    BY <1>12 DEF Registers, RegisterChannel, Registered, AlreadyRegistered, FirstFree,
       Free, NewIface
  <2>2. NewIface(c).name = lookup_bus_name(c) /\ NewIface(c).internal = c
        /\ lookup_bus_name(c) \in Device /\ lookup_bus_name(c) # NULL
    BY NewIfaceFacts
  <2>3. can_interface[i].internal \notin init
    BY <1>1, <2>1, PeakAssumption DEF Sound
  <2>4. c \notin init
    <3>1. \A j \in Slots : can_interface[j].internal = c =>
            can_interface[j].name = lookup_bus_name(c)
      BY <1>1, HandleFacts DEF Sound
    <3> QED BY <2>1, <3>1 DEF IInv, Agree
  <2>5. \A j \in Slots :
          /\ can_interface'[j].name =
               IF j = i THEN lookup_bus_name(c) ELSE can_interface[j].name
          /\ can_interface'[j].internal \in init' <=> can_interface[j].internal \in init
    BY <1>1, <2>1, <2>2, <2>3, <2>4
  <2> QED BY <2>1, <2>2, <2>5 DEF TakesIndex, Names, Ready
<1> HIDE DEF Abstract
<1>13. ASSUME Same PROVE Abstract
  BY <1>13 DEF Abstract
<1>14. ASSUME NEW i \in Slots,
              OpensIndex(i) \/ ClosesIndex(i) \/ ClosesAll(i) \/ FreesAll(i)
       PROVE  Abstract
  BY <1>14 DEF Abstract
<1>15. ASSUME NEW S \in {{}, Slots} \cup {{i} : i \in Slots}, S # {}, FreesIndices(S)
       PROVE  Abstract
  BY <1>15 DEF Abstract
<1>16. ASSUME NEW i \in Slots, NEW n \in Device, TakesIndex(i, n) PROVE Abstract
  BY <1>16 DEF Abstract
<1>17. Abstract
  BY <1>6, <1>7, <1>9, <1>10, <1>11, <1>12, <1>13, <1>14, <1>15, <1>16
  DEF Step, Releases
<1> QED BY <1>17 DEF Abstract

\* Every step is a step of CanLifecycle, or changes nothing that it shows.
LEMMA NextImplements ==
  ASSUME IInv, [Next]_vars
  PROVE  [Lifecycle!Next]_(Lifecycle!vars)
<1> DEFINE dev == [i \in Slots |-> can_interface[i].name]
<1>1. dev = Names(can_interface) /\ dev' = Names(can_interface')
  BY DEF Names
<1>2. /\ ReallyOpen = Ready(can_interface, init)
      /\ ReallyOpen' = Ready(can_interface', init')
  BY DEF ReallyOpen, Ready
<1>3. Slots = Lifecycle!Index
  BY DEF Slots, Lifecycle!Index
<1>4. Step
  BY NextSteps DEF IInv, ScanType
<1> HIDE DEF dev
<1>5. CASE Same
  BY <1>1, <1>2, <1>5 DEF Same, SameNames, Lifecycle!vars, dev
<1>6. ASSUME NEW i \in Slots, OpensIndex(i)
      PROVE  Lifecycle!Open(i)
  BY <1>1, <1>2, <1>6 DEF OpensIndex, SameNames, Names, Lifecycle!Open, dev
<1>7. ASSUME NEW i \in Slots, ClosesIndex(i)
      PROVE  Lifecycle!Close(i)
  BY <1>1, <1>2, <1>7 DEF ClosesIndex, SameNames, Lifecycle!Close, dev
<1>8. ASSUME NEW S, FreesIndices(S)
      PROVE  Lifecycle!Release(S)
  BY <1>1, <1>2, <1>3, <1>8 DEF FreesIndices, Lifecycle!Release, dev
<1>9. ASSUME NEW i \in Slots, NEW n \in Device, TakesIndex(i, n)
      PROVE  Lifecycle!Register(i, n)
  BY <1>1, <1>2, <1>3, <1>9 DEF TakesIndex, Lifecycle!Register, dev
<1>10. ReallyOpen \in SUBSET {j \in Slots : dev[j] \in Device}
  <2>1. ASSUME NEW j \in ReallyOpen PROVE j \in Slots /\ dev[j] \in Device
    <3>1. j \in Slots /\ can_interface[j].internal \in Channel
      BY DEF ReallyOpen, IInv, Agree
    <3>2. can_interface[j].name \in Device
      BY <3>1, PeakAssumption DEF IInv, Agree, Sound, lookup_bus_name
    <3> QED BY <3>1, <3>2 DEF dev
  <2> QED BY <2>1
<1>11. ASSUME NEW i \in Slots, ClosesAll(i) \/ FreesAll(i)
       PROVE  Lifecycle!ClosedWith(i)
  <2>1. dev[i] \in {NoneBus} /\ ReallyOpen' = {}
    BY <1>2, <1>11 DEF ClosesAll, FreesAll, dev
  <2>2. ReallyOpen' = ReallyOpen \ ({i} \cup ReallyOpen)
    BY <2>1
  <2> QED BY <1>3, <1>10, <2>1, <2>2 DEF Lifecycle!ClosedWith, dev
<1>12. ASSUME NEW i \in Slots, ClosesAll(i)
       PROVE  Lifecycle!CloseWhole(i)
  BY <1>1, <1>11, <1>12 DEF ClosesAll, SameNames, Lifecycle!CloseWhole, dev
<1>13. ASSUME NEW i \in Slots, FreesAll(i)
       PROVE  Lifecycle!ReleaseWhole(i)
  <2>1. dev' = [dev EXCEPT ![i] = NULL]
    BY <1>1, <1>13 DEF FreesAll, Names, dev
  <2> QED BY <1>11, <1>13, <2>1 DEF Lifecycle!ReleaseWhole, dev
<1> QED
  BY <1>3, <1>4, <1>5, <1>6, <1>7, <1>8, <1>9, <1>12, <1>13, StepsImplement
  DEF Lifecycle!Next

\* Although peak_close leaves the flag, an index is free, or registered and
\* closed, or registered and open: it is open while its channel is initialised.
\* No call closes or frees another index than the one it names, but that of the
\* device PCAN-NONEBUS may take every other PEAK channel along.
THEOREM ImplementsLifecycle == Spec => Refinement
<1>1. Init => Lifecycle!Init
  BY DEF Init, Lifecycle!Init, Lifecycle!Index, Slots, ZeroIface, ReallyOpen
<1>2. IInv /\ [Next]_vars => [Lifecycle!Next]_(Lifecycle!vars)
  BY NextImplements
<1> QED BY <1>1, <1>2, Invariant, PTL DEF Spec, Refinement, Lifecycle!Spec
=============================================================================
