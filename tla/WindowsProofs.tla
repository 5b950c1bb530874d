---------------------------- MODULE WindowsProofs ----------------------------
(***************************************************************************)
(* Proofs about the Windows build: four back-ends over one table, for      *)
(* every table size and every set of devices of every vendor.  What was    *)
(* proved of a back-end alone is used here for what it sees of the table.  *)
(***************************************************************************)
EXTENDS Windows, CanCallsProofs

\* The table as it is for back-end v: the slots of the others are free to it.
ViewOf(tab, v) ==
  [i \in Slots |-> IF tab[i].vendor = v THEN tab[i] ELSE Cleared(tab[i])]

PeakView == ViewOf(can_interface, "PEAK")
KvaserView == ViewOf(can_interface, "KVASER")
IxxatView == ViewOf(can_interface, "IXXAT")
SoftingView == ViewOf(can_interface, "SOFTING")

PV == INSTANCE PeakProofs WITH
  Device <- Named \cup {NoneBus}, Channel <- PeakChannel, can_interface <- PeakView,
  attached <- peak_attached, init <- peak_init,
  count <- peak_count, list <- peak_list, listed <- peak_listed

KV == INSTANCE KvaserProofs WITH
  Device <- KvaserDevice, Handle <- KvaserHandle, can_interface <- KvaserView,
  bus <- kvaser_bus, handle <- kvaser_handle, next <- kvaser_next,
  count <- kvaser_count, steady <- kvaser_steady

XV == INSTANCE IxxatProofs WITH
  Device <- IxxatDevice, can_interface <- IxxatView, attached <- ixxat_attached,
  line <- ixxat_line, refs <- ixxat_refs, todo <- ixxat_todo,
  sockets <- ixxat_sockets, rx <- ixxat_rx, fifo <- ixxat_fifo

SV == INSTANCE SoftingProofs WITH
  Device <- SoftingDevice, Handle <- SoftingHandle, can_interface <- SoftingView,
  present <- softing_present, chan <- softing_chan, room <- softing_room,
  todo <- softing_todo

-----------------------------------------------------------------------------
(* The invariant *)

VendorName == {"IXXAT", "PEAK", "KVASER", "SOFTING"}

AnyName == Named \cup {NoneBus} \cup KvaserDevice \cup IxxatDevice \cup SoftingDevice

AnyContext ==
  PV!TPCANHandle \cup KV!kvaser_channel_info_t \cup XV!ixxat_ctx_t \cup SV!softing_ctx_t

WinIface ==
  [name : AnyName \cup {NULL}, vendor : VendorName \cup {"NONE"}, opened : {0, 1},
   baudrate : AnyBaud, internal : AnyContext \cup {NULL}]

Vacant(iface) == iface.name = NULL /\ iface.internal = NULL /\ iface.opened = 0

\* A slot that is no back-end's is free; a name is registered once, whoever did it.
Table(tab) ==
  /\ tab \in [Slots -> WinIface]
  /\ \A i \in Slots : tab[i].vendor = "NONE" => Vacant(tab[i])
  /\ \A i, j \in Slots : i # j /\ tab[i].name # NULL => tab[i].name # tab[j].name

\* Every back-end's own invariant holds of its slots.
Views ==
  /\ PV!Agree(PeakView, peak_init)
  /\ KV!Agree(KvaserView, kvaser_handle)
  /\ XV!Agree(IxxatView, ixxat_refs, ixxat_line)
  /\ SV!Agree(SoftingView, softing_chan)

\* What the scans of PEAK and Kvaser go through are handles and channels.
PeakScan ==
  /\ peak_attached \subseteq PeakChannel
  /\ peak_count \in Nat
  /\ peak_list \in Seq(PV!TPCANHandle)

KvaserScan ==
  /\ kvaser_bus \in [KV!Channel -> KvaserDevice \cup {NULL}]
  /\ kvaser_next \in Nat
  /\ kvaser_count \in 0 .. Channels

\* Ixxat is asked, and has slots, only once vciapi.dll is loaded.
Loaded ==
  /\ asking = "IXXAT" \/ "IXXAT" \in toAsk => dll = "loaded"
  /\ IxxatNeedsDll

IInv == Table(can_interface) /\ Views /\ PeakScan /\ KvaserScan /\ Loaded

-----------------------------------------------------------------------------
(* The assumptions of the back-ends *)

LEMMA PeakAssumes == PV!TableAssumption /\ PV!PeakAssumption
  BY WindowsAssumption DEF P!Reason, PV!Reason, P!IsFiniteSet, PV!IsFiniteSet

LEMMA SameHandles ==
  /\ P!TPCANHandle = PV!TPCANHandle
  /\ PeakChannel \subseteq PV!TPCANHandle
  /\ PCAN_NONEBUS \in PV!TPCANHandle \ PeakChannel
  /\ NULL \notin PV!TPCANHandle
  BY PeakAssumes DEF P!TPCANHandle, PV!TPCANHandle, PV!PeakAssumption

LEMMA KvaserAssumes == KV!TableAssumption /\ KV!KvaserAssumption
  BY WindowsAssumption DEF K!Channel, KV!Channel, K!kvaser_channel_info_t,
     KV!kvaser_channel_info_t

LEMMA IxxatAssumes == XV!TableAssumption /\ XV!IxxatAssumption
  BY WindowsAssumption DEF X!Name, XV!Name, X!Socket, XV!Socket, X!AnyBaud, XV!AnyBaud,
     X!ixxat_ctx_t, XV!ixxat_ctx_t, X!Kind, XV!Kind, X!Fifo, XV!Fifo

LEMMA SoftingAssumes == SV!TableAssumption /\ SV!SoftingAssumption
  BY WindowsAssumption DEF S!softing_ctx_t, SV!softing_ctx_t, S!IsFiniteSet, SV!IsFiniteSet

LEMMA AskedRates == Asked \subseteq AnyBaud
  BY WindowsAssumption DEF X!AnyBaud, AnyBaud

-----------------------------------------------------------------------------
(* What a step of one back-end does to the table as the others see it *)

\* v writes a slot of its own or a free one, or gives one back.
Touches(tab, new, v, i) ==
  \/ \E b \in AnyBaud : new[i] = [tab[i] EXCEPT !.baudrate = b]
  \/ tab[i].vendor \in {v, "NONE"} /\ new[i].vendor = v
  \/ tab[i].vendor \in {v, "NONE"} /\ new[i] = Cleared(tab[i])

\* Names are kept or given up, or one slot gets a name that no slot has.
NamesKept(tab, new) == \A i \in Slots : new[i].name \in {tab[i].name, NULL}

NameGiven(tab, new) ==
  \E k \in Slots : /\ \A i \in Slots : new[k].name # tab[i].name
                   /\ \A i \in Slots \ {k} : new[i].name = tab[i].name

Writes(tab, new, v) ==
  /\ new = [i \in Slots |-> new[i]]
  /\ \A i \in Slots : Touches(tab, new, v, i)
  /\ NamesKept(tab, new) \/ NameGiven(tab, new)

LEMMA WinCleared ==
  ASSUME NEW x \in WinIface
  PROVE  /\ Cleared(x) \in WinIface /\ Cleared(x).vendor = "NONE"
         /\ Vacant(Cleared(x)) /\ Cleared(x).baudrate = x.baudrate
  BY DEF WinIface, Cleared, Vacant

LEMMA WinSame ==
  ASSUME NEW x \in WinIface, NEW y \in WinIface,
         x.name = y.name, x.vendor = y.vendor, x.opened = y.opened,
         x.baudrate = y.baudrate, x.internal = y.internal
  PROVE  x = y
  BY DEF WinIface

LEMMA WinBaud ==
  ASSUME NEW x \in WinIface, NEW b \in AnyBaud
  PROVE  LET y == [x EXCEPT !.baudrate = b] IN
         /\ y \in WinIface /\ y.baudrate = b
         /\ y.name = x.name /\ y.vendor = x.vendor /\ y.opened = x.opened
         /\ y.internal = x.internal
  BY DEF WinIface

\* All that the others see of it is a rate.
LEMMA OthersSeeRates ==
  ASSUME NEW tab, Table(tab), NEW new \in [Slots -> WinIface], NEW v \in VendorName,
         NEW w \in VendorName \ {v}, \A i \in Slots : Touches(tab, new, v, i)
  PROVE  ViewOf(new, w) =
           [i \in Slots |-> [ViewOf(tab, w)[i] EXCEPT !.baudrate = new[i].baudrate]]
<1> SUFFICES ASSUME NEW i \in Slots
             PROVE  ViewOf(new, w)[i] = [ViewOf(tab, w)[i] EXCEPT !.baudrate = new[i].baudrate]
  BY DEF ViewOf
<1>1. tab[i] \in WinIface /\ new[i] \in WinIface /\ w # "NONE"
  BY DEF Table, VendorName
<1>2. new[i].baudrate \in AnyBaud
  BY <1>1 DEF WinIface
<1>3. ASSUME new[i].vendor # w, tab[i].vendor # w
      PROVE  ViewOf(new, w)[i] = [ViewOf(tab, w)[i] EXCEPT !.baudrate = new[i].baudrate]
  <2>1. ViewOf(new, w)[i] = Cleared(new[i]) /\ ViewOf(tab, w)[i] = Cleared(tab[i])
    BY <1>3 DEF ViewOf
  <2> DEFINE y == [Cleared(tab[i]) EXCEPT !.baudrate = new[i].baudrate]
  <2>2. /\ Cleared(tab[i]) \in WinIface /\ Cleared(new[i]) \in WinIface
        /\ Cleared(tab[i]).vendor = "NONE" /\ Cleared(new[i]).vendor = "NONE"
        /\ Vacant(Cleared(tab[i])) /\ Vacant(Cleared(new[i]))
        /\ Cleared(new[i]).baudrate = new[i].baudrate
    BY <1>1, WinCleared
  <2>3. /\ y \in WinIface /\ y.vendor = "NONE" /\ Vacant(y)
        /\ y.baudrate = new[i].baudrate
    BY <1>2, <2>2, WinBaud DEF Vacant
  <2> HIDE DEF y
  <2>4. Cleared(new[i]) = y
    BY <2>2, <2>3, WinSame DEF Vacant
  <2> QED BY <2>1, <2>4 DEF y
<1>4. CASE \E b \in AnyBaud : new[i] = [tab[i] EXCEPT !.baudrate = b]
  <2>1. PICK b \in AnyBaud : new[i] = [tab[i] EXCEPT !.baudrate = b]
    BY <1>4
  <2>2. new[i].vendor = tab[i].vendor /\ new[i].baudrate = b
    BY <1>1, <2>1, WinBaud
  <2>3. CASE tab[i].vendor = w
    BY <2>1, <2>2, <2>3 DEF ViewOf
  <2>4. CASE tab[i].vendor # w
    BY <1>3, <2>2, <2>4
  <2> QED BY <2>3, <2>4
<1>5. CASE tab[i].vendor \in {v, "NONE"} /\ new[i].vendor = v
  BY <1>1, <1>3, <1>5
<1>6. CASE tab[i].vendor \in {v, "NONE"} /\ new[i] = Cleared(tab[i])
  <2>1. new[i].vendor = "NONE"
    BY <1>1, <1>6, WinCleared
  <2> QED BY <1>1, <1>3, <1>6, <2>1
<1> QED BY <1>4, <1>5, <1>6 DEF Touches

\* The table stays one, if what v wrote is typed.
LEMMA TableKept ==
  ASSUME NEW tab, Table(tab), NEW new, NEW v \in VendorName, Writes(tab, new, v),
         \A i \in Slots : new[i].vendor = v => new[i] \in WinIface
  PROVE  Table(new)
<1>1. ASSUME NEW i \in Slots
      PROVE  new[i] \in WinIface /\ (new[i].vendor = "NONE" => Vacant(new[i]))
  <2>1. tab[i] \in WinIface /\ (tab[i].vendor = "NONE" => Vacant(tab[i])) /\ v # "NONE"
    BY DEF Table, VendorName
  <2>2. ASSUME NEW b \in AnyBaud, new[i] = [tab[i] EXCEPT !.baudrate = b]
        PROVE  new[i] \in WinIface /\ (new[i].vendor = "NONE" => Vacant(new[i]))
    BY <2>1, <2>2, WinBaud DEF Vacant
  <2>3. CASE new[i] = Cleared(tab[i])
    BY <2>1, <2>3, WinCleared
  <2> QED BY <2>1, <2>2, <2>3 DEF Writes, Touches
<1>2. new \in [Slots -> WinIface]
  BY <1>1 DEF Writes
<1>3. ASSUME NEW i \in Slots, NEW j \in Slots, i # j, new[i].name # NULL
      PROVE  new[i].name # new[j].name
  <2>1. CASE NamesKept(tab, new)
    BY <1>3, <2>1 DEF NamesKept, Table
  <2>2. CASE NameGiven(tab, new)
    BY <1>3, <2>2 DEF NameGiven, Table
  <2> QED BY <2>1, <2>2 DEF Writes
<1> QED BY <1>1, <1>2, <1>3 DEF Table

-----------------------------------------------------------------------------
(* What a step of v does to the table, and to the view of v *)

LEMMA ViewIs ==
  ASSUME NEW tab, Table(tab), NEW v \in VendorName, NEW i \in Slots
  PROVE  /\ tab[i] \in WinIface /\ v # "NONE"
         /\ tab[i].vendor \in {v, "NONE"} => ViewOf(tab, v)[i] = tab[i]
         /\ tab[i].vendor # v => ViewOf(tab, v)[i] = Cleared(tab[i])
         /\ ViewOf(tab, v)[i].vendor = v <=> tab[i].vendor = v
         /\ ViewOf(tab, v)[i].name \in {tab[i].name, NULL}
<1>1. tab[i] \in WinIface /\ (tab[i].vendor = "NONE" => Vacant(tab[i])) /\ v # "NONE"
  BY DEF Table, VendorName
<1>2. ViewOf(tab, v)[i] = IF tab[i].vendor = v THEN tab[i] ELSE Cleared(tab[i])
  BY DEF ViewOf
<1>3. ASSUME tab[i].vendor = "NONE"
      PROVE  Cleared(tab[i]) = tab[i]
  BY <1>1, <1>3, WinCleared, WinSame DEF Vacant
<1>4. Cleared(tab[i]).vendor = "NONE" /\ Cleared(tab[i]).name = NULL
  BY <1>1, WinCleared DEF Vacant
<1> QED BY <1>1, <1>2, <1>3, <1>4

LEMMA Untouched ==
  ASSUME NEW tab, Table(tab), NEW v \in VendorName
  PROVE  Writes(tab, tab, v)
<1>1. ASSUME NEW i \in Slots PROVE Touches(tab, tab, v, i)
  <2>1. tab[i] = [tab[i] EXCEPT !.baudrate = tab[i].baudrate] /\ tab[i].baudrate \in AnyBaud
    BY DEF Table, WinIface
  <2> QED BY <2>1 DEF Touches
<1>2. tab = [i \in Slots |-> tab[i]]
  BY DEF Table
<1> QED BY <1>1, <1>2 DEF Writes, NamesKept

Rated(iface, b) == [iface EXCEPT !.baudrate = b]

\* A slot of v, or the rate of a free one, is written.
LEMMA Puts ==
  ASSUME NEW tab, Table(tab), NEW v \in VendorName, NEW i \in Slots, NEW x,
         x.vendor = tab[i].vendor, x.name = tab[i].name,
         \/ tab[i].vendor = v
         \/ tab[i].vendor = "NONE" /\ \E b \in AnyBaud : x = Rated(tab[i], b)
  PROVE  /\ Writes(tab, [tab EXCEPT ![i] = x], v)
         /\ ViewOf([tab EXCEPT ![i] = x], v) = [ViewOf(tab, v) EXCEPT ![i] = x]
<1> DEFINE new == [tab EXCEPT ![i] = x]
<1>1. \A j \in Slots : new[j] = IF j = i THEN x ELSE tab[j]
  BY DEF Table
<1>2. new = [j \in Slots |-> new[j]]
  BY DEF Table
<1> HIDE DEF new
<1>3. ASSUME NEW j \in Slots PROVE Touches(tab, new, v, j)
  <2>1. CASE j = i
    BY <1>1, <2>1 DEF Touches, Rated
  <2>2. CASE j # i
    <3>1. Touches(tab, tab, v, j)
      BY Untouched DEF Writes
    <3> QED BY <1>1, <2>2, <3>1 DEF Touches
  <2> QED BY <2>1, <2>2
<1>4. NamesKept(tab, new)
  BY <1>1 DEF NamesKept
<1>5. x.vendor # v => Cleared(x) = x
  <2> HAVE x.vendor # v
  <2>1. PICK b \in AnyBaud : x = [tab[i] EXCEPT !.baudrate = b]
    BY DEF Rated
  <2>2. tab[i] \in WinIface /\ tab[i].vendor = "NONE" /\ Vacant(tab[i])
    BY DEF Table
  <2>3. x \in WinIface /\ x.vendor = "NONE" /\ Vacant(x)
    BY <2>1, <2>2, WinBaud DEF Vacant
  <2> QED BY <2>3, WinCleared, WinSame DEF Vacant
<1>6. ASSUME NEW j \in Slots
      PROVE  ViewOf(new, v)[j] = IF j = i THEN x ELSE ViewOf(tab, v)[j]
  BY <1>1, <1>5 DEF ViewOf
<1>7. ViewOf(new, v) = [ViewOf(tab, v) EXCEPT ![i] = x]
  BY <1>6 DEF ViewOf
<1> QED BY <1>2, <1>3, <1>4, <1>7 DEF Writes, new

ClearedIn(tab, T) == [i \in Slots |-> IF i \in T THEN Cleared(tab[i]) ELSE tab[i]]

LEMMA ClearsTwice ==
  ASSUME NEW tab, Table(tab), NEW v \in VendorName, NEW i \in Slots
  PROVE  Cleared(ViewOf(tab, v)[i]) = Cleared(tab[i])
<1>1. tab[i] \in WinIface
  BY DEF Table
<1>2. Cleared(Cleared(tab[i])) = Cleared(tab[i])
  BY <1>1, WinCleared, WinSame DEF Vacant
<1> QED BY <1>2 DEF ViewOf

\* Slots of v are cleared, or free ones.
LEMMA Clears ==
  ASSUME NEW tab, Table(tab), NEW v \in VendorName, NEW T \in SUBSET Slots,
         \A i \in T : tab[i].vendor \in {v, "NONE"}
  PROVE  LET new == ClearedIn(tab, T) IN
         Writes(tab, new, v) /\ ViewOf(new, v) = ClearedIn(ViewOf(tab, v), T)
<1> DEFINE new == ClearedIn(tab, T)
<1>1. \A j \in Slots : new[j] = IF j \in T THEN Cleared(tab[j]) ELSE tab[j]
  BY DEF ClearedIn
<1>2. new = [j \in Slots |-> new[j]]
  BY DEF ClearedIn
<1> HIDE DEF new
<1>3. ASSUME NEW j \in Slots PROVE Touches(tab, new, v, j) /\ new[j].name \in {tab[j].name, NULL}
  <2>1. CASE j \in T
    <3>1. Cleared(tab[j]).name = NULL
      BY WinCleared DEF Table, Vacant
    <3> QED BY <1>1, <2>1, <3>1 DEF Touches
  <2>2. CASE j \notin T
    <3>1. Touches(tab, tab, v, j)
      BY Untouched DEF Writes
    <3> QED BY <1>1, <2>2, <3>1 DEF Touches
  <2> QED BY <2>1, <2>2
<1>4. ASSUME NEW j \in Slots
      PROVE  ViewOf(new, v)[j] = IF j \in T THEN Cleared(ViewOf(tab, v)[j])
                                            ELSE ViewOf(tab, v)[j]
  <2>1. CASE j \in T
    <3>1. Cleared(tab[j]).vendor = "NONE" /\ v # "NONE" /\ tab[j] \in WinIface
      BY WinCleared DEF Table, VendorName
    <3>2. Cleared(Cleared(tab[j])) = Cleared(tab[j])
      BY <3>1, WinCleared, WinSame DEF Vacant
    <3> QED BY <1>1, <2>1, <3>1, <3>2, ClearsTwice DEF ViewOf
  <2>2. CASE j \notin T
    BY <1>1, <2>2 DEF ViewOf
  <2> QED BY <2>1, <2>2
<1>5. ViewOf(new, v) = ClearedIn(ViewOf(tab, v), T)
  BY <1>4 DEF ViewOf, ClearedIn
<1> QED BY <1>2, <1>3, <1>5 DEF Writes, NamesKept, new

\* Every slot is cleared.
LEMMA ClearsAll ==
  ASSUME NEW tab, Table(tab)
  PROVE  LET new == [i \in Slots |-> Cleared(tab[i])] IN
         /\ Table(new)
         /\ \A i \in Slots : new[i].vendor = "NONE"
         /\ \A v \in VendorName : ViewOf(new, v) = ClearedIn(ViewOf(tab, v), Slots)
<1> DEFINE new == [i \in Slots |-> Cleared(tab[i])]
<1>1. \A i \in Slots : /\ tab[i] \in WinIface
                       /\ new[i] \in WinIface /\ new[i].vendor = "NONE" /\ Vacant(new[i])
  BY WinCleared DEF Table
<1>2. Table(new)
  BY <1>1 DEF Table, Vacant
<1>3. ASSUME NEW v \in VendorName
      PROVE  ViewOf(new, v) = ClearedIn(ViewOf(tab, v), Slots)
  <2>1. ASSUME NEW i \in Slots PROVE ViewOf(new, v)[i] = Cleared(ViewOf(tab, v)[i])
    <3>1. ViewOf(new, v)[i] = new[i]
      BY <1>1, <1>2, ViewIs
    <3> QED BY <3>1, ClearsTwice
  <2> QED BY <2>1 DEF ViewOf, ClearedIn
<1> QED BY <1>1, <1>2, <1>3

Fresh(tab, n) == n # NULL /\ \A j \in Slots : tab[j].name # n

\* A free slot gets a name that no slot has.
LEMMA FillsSlot ==
  ASSUME NEW tab, Table(tab), NEW v \in VendorName, NEW i \in Slots,
         tab[i].vendor = "NONE",
         NEW x, x.vendor = v, Fresh(tab, x.name)
  PROVE  /\ Writes(tab, [tab EXCEPT ![i] = x], v)
         /\ ViewOf([tab EXCEPT ![i] = x], v) = [ViewOf(tab, v) EXCEPT ![i] = x]
         /\ ViewOf(tab, v)[i].name = NULL
         /\ Fresh(ViewOf(tab, v), x.name)
<1> DEFINE new == [tab EXCEPT ![i] = x]
<1>1. \A j \in Slots : new[j] = IF j = i THEN x ELSE tab[j]
  BY DEF Table
<1>2. new = [j \in Slots |-> new[j]]
  BY DEF Table
<1> HIDE DEF new
<1>3. ASSUME NEW j \in Slots PROVE Touches(tab, new, v, j)
  <2>1. CASE j = i
    BY <1>1, <2>1 DEF Touches
  <2>2. CASE j # i
    <3>1. Touches(tab, tab, v, j)
      BY Untouched DEF Writes
    <3> QED BY <1>1, <2>2, <3>1 DEF Touches
  <2> QED BY <2>1, <2>2
<1>4. NameGiven(tab, new)
  <2>1. \A j \in Slots : new[i].name # tab[j].name
    BY <1>1 DEF Fresh
  <2>2. \A j \in Slots \ {i} : new[j].name = tab[j].name
    BY <1>1
  <2> QED BY <2>1, <2>2 DEF NameGiven
<1>5. \A j \in Slots : ViewOf(new, v)[j] = IF j = i THEN x ELSE ViewOf(tab, v)[j]
  BY <1>1 DEF ViewOf
<1>6. ViewOf(new, v) = [ViewOf(tab, v) EXCEPT ![i] = x]
  BY <1>5 DEF ViewOf
<1>7. tab[i].name = NULL /\ \A j \in Slots : ViewOf(tab, v)[j].name \in {tab[j].name, NULL}
  BY ViewIs DEF Table, Vacant
<1>8. Fresh(ViewOf(tab, v), x.name)
  BY <1>7 DEF Fresh
<1> QED BY <1>2, <1>3, <1>4, <1>6, <1>7, <1>8 DEF Writes, new

LEMMA PutsNow ==
  ASSUME Table(can_interface), NEW v \in VendorName, NEW i \in Slots,
         can_interface[i].vendor = v,
         NEW x, x.vendor = v, x.name = can_interface[i].name,
         can_interface' = [can_interface EXCEPT ![i] = x]
  PROVE  /\ Writes(can_interface, can_interface', v)
         /\ ViewOf(can_interface', v) = [ViewOf(can_interface, v) EXCEPT ![i] = x]
<1>1. x.vendor = can_interface[i].vendor
  OBVIOUS
<1>2. /\ Writes(can_interface, [can_interface EXCEPT ![i] = x], v)
      /\ ViewOf([can_interface EXCEPT ![i] = x], v) = [ViewOf(can_interface, v) EXCEPT ![i] = x]
  BY ONLY <1>1, Table(can_interface), v \in VendorName, i \in Slots,
     can_interface[i].vendor = v, x.name = can_interface[i].name, Puts
<1> QED BY <1>2

LEMMA FillsNow ==
  ASSUME Table(can_interface), NEW v \in VendorName, NEW i \in Slots,
         can_interface[i].vendor = "NONE",
         NEW x, x.vendor = v, Fresh(can_interface, x.name),
         can_interface' = [can_interface EXCEPT ![i] = x]
  PROVE  /\ Writes(can_interface, can_interface', v)
         /\ ViewOf(can_interface', v) = [ViewOf(can_interface, v) EXCEPT ![i] = x]
         /\ ViewOf(can_interface, v)[i].name = NULL
         /\ Fresh(ViewOf(can_interface, v), x.name)
<1>1. /\ Writes(can_interface, [can_interface EXCEPT ![i] = x], v)
      /\ ViewOf([can_interface EXCEPT ![i] = x], v) = [ViewOf(can_interface, v) EXCEPT ![i] = x]
      /\ ViewOf(can_interface, v)[i].name = NULL
      /\ Fresh(ViewOf(can_interface, v), x.name)
  BY ONLY Table(can_interface), v \in VendorName, i \in Slots,
     can_interface[i].vendor = "NONE", x.vendor = v, Fresh(can_interface, x.name), FillsSlot
<1> QED BY <1>1

LEMMA PrimedViews ==
  /\ PeakView' = ViewOf(can_interface', "PEAK")
  /\ KvaserView' = ViewOf(can_interface', "KVASER")
  /\ IxxatView' = ViewOf(can_interface', "IXXAT")
  /\ SoftingView' = ViewOf(can_interface', "SOFTING")
  BY DEF PeakView, KvaserView, IxxatView, SoftingView, ViewOf, Cleared

\* A slot without a name is no back-end's.
LEMMA FreeIsNone ==
  ASSUME Table(can_interface), Views, NEW i \in Slots, Free(i)
  PROVE  can_interface[i].vendor = "NONE"
<1>1. can_interface[i].vendor \in VendorName \cup {"NONE"}
  BY DEF Table, WinIface
<1>2. /\ PV!Sound(PeakView[i]) /\ KV!Sound(KvaserView[i])
      /\ XV!Sound(IxxatView[i]) /\ SV!Sound(SoftingView[i])
  BY DEF Views, PV!Agree, KV!Agree, XV!Agree, SV!Agree, PV!Slots, KV!Slots, XV!Slots,
     SV!Slots, Slots
<1>3. \A v \in VendorName : can_interface[i].vendor = v =>
        ViewOf(can_interface, v)[i] = can_interface[i]
  BY ViewIs
<1> QED BY <1>1, <1>2, <1>3 DEF Free, PV!Sound, KV!Sound, XV!Sound, SV!Sound, PeakView,
           KvaserView, IxxatView, SoftingView, VendorName

-----------------------------------------------------------------------------
(* PEAK beside the others *)

PeakKept ==
  /\ Writes(can_interface, can_interface', "PEAK")
  /\ PV!Agree(PeakView', peak_init')

LEMMA PeakSees ==
  ASSUME Table(can_interface), NEW i
  PROVE  /\ P!OnPeak(i) <=> PV!OnPeak(i)
         /\ P!OnPeak(i) => /\ i \in Slots /\ can_interface[i].vendor = "PEAK"
                           /\ PeakView[i] = can_interface[i]
<1>1. CASE i \in Slots
  BY <1>1, ViewIs DEF P!OnPeak, PV!OnPeak, P!Slots, PV!Slots, Slots, PeakView, VendorName
<1>2. CASE i \notin Slots
  BY <1>2 DEF P!OnPeak, PV!OnPeak, P!Slots, PV!Slots, Slots
<1> QED BY <1>1, <1>2

LEMMA PeakCloses ==
  ASSUME Table(can_interface), NEW T
  PROVE  /\ P!Uninitialized(T) = PV!Uninitialized(T)
         /\ P!CloseReason(T) = PV!CloseReason(T)
<1>1. P!ChannelsOf(T) = PV!ChannelsOf(T)
  BY PeakSees DEF P!ChannelsOf, PV!ChannelsOf
<1>2. \A i : P!OnPeak(i) /\ P!UninitializeFails(i, T)
              <=> PV!OnPeak(i) /\ PV!UninitializeFails(i, T)
  BY PeakSees DEF P!UninitializeFails, PV!UninitializeFails
<1> QED BY <1>1, <1>2 DEF P!Uninitialized, PV!Uninitialized, P!CloseReason, PV!CloseReason

LEMMA PeakOpens ==
  ASSUME Table(can_interface), NEW i, P!OnPeak(i), NEW op, NEW ready, NEW b, NEW text,
         P!peak_open(op, i, ready, b, text)
  PROVE  /\ Writes(can_interface, can_interface', "PEAK")
         /\ PV!peak_open(op, i, ready, b, text)
<1>1. i \in Slots /\ can_interface[i].vendor = "PEAK" /\ PeakView[i] = can_interface[i]
  BY PeakSees
<1>2. can_interface[i] \in WinIface /\ can_interface \in [Slots -> WinIface]
  BY <1>1 DEF Table
<1> DEFINE x == [can_interface[i] EXCEPT !.baudrate = b]
           y == [can_interface[i] EXCEPT !.baudrate = b, !.opened = 1]
<1>3. /\ x.vendor = "PEAK" /\ x.name = can_interface[i].name
      /\ y.vendor = "PEAK" /\ y.name = can_interface[i].name
  BY <1>1, <1>2 DEF WinIface
<1>4. /\ [can_interface EXCEPT ![i].baudrate = b] = [can_interface EXCEPT ![i] = x]
      /\ [can_interface EXCEPT ![i].baudrate = b, ![i].opened = 1]
           = [can_interface EXCEPT ![i] = y]
  OBVIOUS
<1>5. /\ [PeakView EXCEPT ![i].baudrate = b] = [PeakView EXCEPT ![i] = x]
      /\ [PeakView EXCEPT ![i].baudrate = b, ![i].opened = 1] = [PeakView EXCEPT ![i] = y]
  BY <1>1
<1> HIDE DEF x, y
<1>6. /\ Writes(can_interface, [can_interface EXCEPT ![i] = x], "PEAK")
      /\ ViewOf([can_interface EXCEPT ![i] = x], "PEAK") = [PeakView EXCEPT ![i] = x]
      /\ Writes(can_interface, [can_interface EXCEPT ![i] = y], "PEAK")
      /\ ViewOf([can_interface EXCEPT ![i] = y], "PEAK") = [PeakView EXCEPT ![i] = y]
  <2>1. "PEAK" \in VendorName
    BY DEF VendorName
  <2>2. \A z : z.vendor = "PEAK" /\ z.name = can_interface[i].name =>
          LET new == [can_interface EXCEPT ![i] = z] IN
          Writes(can_interface, new, "PEAK")
            /\ ViewOf(new, "PEAK") = [ViewOf(can_interface, "PEAK") EXCEPT ![i] = z]
    BY <1>1, <2>1, Puts
  <2> QED BY <1>3, <2>2 DEF PeakView
<1>7. CASE /\ can_interface' = [can_interface EXCEPT ![i] = x]
           /\ peak_init' = ready /\ P!Return(op, -1, "pcan")
  BY <1>5, <1>6, <1>7, PrimedViews DEF PV!peak_open, P!Return, PV!Return
<1>8. CASE /\ can_interface[i].internal \in peak_attached \ ready
           /\ can_interface' = [can_interface EXCEPT ![i] = y]
           /\ peak_init' = ready \cup {can_interface[i].internal} /\ P!Return(op, 0, text)
  BY <1>1, <1>5, <1>6, <1>8, PrimedViews DEF PV!peak_open, P!Return, PV!Return
<1> QED BY <1>4, <1>7, <1>8 DEF P!peak_open

LEMMA PeakQuiet ==
  ASSUME Table(can_interface), UNCHANGED <<can_interface, peak_init>>
  PROVE  Writes(can_interface, can_interface', "PEAK") /\ PV!Quiet
  BY Untouched, PrimedViews DEF VendorName, PV!Quiet, PeakView

LEMMA PeakReleases ==
  ASSUME Table(can_interface), PV!Agree(PeakView, peak_init),
         NEW T \in SUBSET Slots, \A i \in T : can_interface[i].vendor \in {"PEAK", "NONE"},
         P!ReleaseSlots(T)
  PROVE  PeakKept
<1>1. "PEAK" \in VendorName
  BY DEF VendorName
<1>2. can_interface' = ClearedIn(can_interface, T)
  BY DEF P!ReleaseSlots, P!Slots, Slots, P!Cleared, Cleared, ClearedIn
<1>3. /\ Writes(can_interface, can_interface', "PEAK")
      /\ PeakView' = ClearedIn(PeakView, T)
  BY <1>1, <1>2, Clears, PrimedViews DEF PeakView
<1>4. peak_init' = PV!Uninitialized(T)
  BY PeakCloses DEF P!ReleaseSlots
<1>5. PV!ReleaseSlots(T)
  BY <1>3, <1>4 DEF PV!ReleaseSlots, PV!Slots, Slots, PV!Cleared, Cleared, ClearedIn
<1>6. T \in SUBSET PV!Slots
  BY DEF PV!Slots, Slots
<1>7. PV!Agree(PeakView', peak_init')
  BY <1>5, <1>6, PeakAssumes, PV!ReleaseAgrees
<1> QED BY <1>3, <1>7 DEF PeakKept

LEMMA PeakCalls ==
  ASSUME Table(can_interface), PV!Agree(PeakView, peak_init), PeakScan,
         NEW i \in CallIndex, Vendor(i) \in {"PEAK", "NONE"}, PeakCall(i)
  PROVE  PeakKept
<1>1. ASSUME Writes(can_interface, can_interface', "PEAK"), PV!Step
      PROVE  PeakKept
  BY <1>1, PeakAssumes, PV!StepAgrees DEF PeakKept, PeakScan
<1>2. ASSUME UNCHANGED <<can_interface, peak_init>>
      PROVE  PeakKept
  BY <1>1, <1>2, PeakQuiet DEF PV!Step
<1>3. ASSUME NEW op, NEW ready, PV!Agree(PeakView, ready), P!OnPeak(i),
             NEW b \in AnyBaud, NEW text, P!peak_open(op, i, ready, b, text)
      PROVE  PeakKept
  <2>1. /\ Writes(can_interface, can_interface', "PEAK")
        /\ PV!peak_open(op, i, ready, b, text) /\ PV!OnPeak(i) /\ i \in PV!Slots
    BY <1>3, PeakOpens, PeakSees DEF PV!OnPeak
  <2>2. b \in PV!AnyBaud
    BY DEF PV!AnyBaud, AnyBaud
  <2>3. PV!Agree(PeakView', peak_init')
    BY <1>3, <2>1, <2>2, PeakAssumes, PV!OpenAgrees DEF PeakScan
  <2> QED BY <2>1, <2>3 DEF PeakKept
<1>4. ASSUME NEW b \in Asked, P!can_open(i, b)
      PROVE  PeakKept
  <2>1. CASE UNCHANGED <<can_interface, peak_init>>
    BY <1>2, <2>1
  <2>2. CASE /\ P!NoInterface("open", i) /\ peak_init' = peak_init
             /\ can_interface' = [can_interface EXCEPT ![i].baudrate = b]
    <3> DEFINE x == Rated(can_interface[i], b)
    <3>1. /\ i \in Slots /\ can_interface[i].vendor = "NONE" /\ b \in AnyBaud
          /\ can_interface[i] \in WinIface /\ "PEAK" \in VendorName
      BY <2>2, AskedRates DEF P!NoInterface, P!Slots, Slots, Table, VendorName
    <3>2. x.vendor = can_interface[i].vendor /\ x.name = can_interface[i].name
      BY <3>1, WinBaud DEF Rated
    <3>3. can_interface' = [can_interface EXCEPT ![i] = x]
      BY <2>2 DEF Rated
    <3>4. PeakView[i] = can_interface[i] /\ PeakView[i].vendor = "NONE"
      BY <3>1, ViewIs DEF PeakView
    <3> HIDE DEF x
    <3>5. /\ Writes(can_interface, can_interface', "PEAK")
          /\ PeakView' = [PeakView EXCEPT ![i] = x]
      <4>1. \E d \in AnyBaud : x = Rated(can_interface[i], d)
        BY <3>1 DEF x
      <4>2. /\ Writes(can_interface, [can_interface EXCEPT ![i] = x], "PEAK")
            /\ ViewOf([can_interface EXCEPT ![i] = x], "PEAK")
                 = [ViewOf(can_interface, "PEAK") EXCEPT ![i] = x]
        BY <3>1, <3>2, <4>1, Puts
      <4> QED BY <3>3, <4>2, PrimedViews DEF PeakView
    <3>6. PV!StoresBaud(i, b)
      BY <2>2, <3>1, <3>4, <3>5 DEF PV!StoresBaud, PV!Slots, Slots, x, Rated
    <3>7. i \in PV!Slots /\ b \in PV!AnyBaud
      BY <3>1 DEF PV!Slots, Slots, PV!AnyBaud, AnyBaud
    <3> QED BY <1>1, <3>5, <3>6, <3>7 DEF PV!Step
  <2>3. CASE P!OnPeak(i) /\ P!peak_open("open", i, peak_init, b, NULL)
    BY <1>3, <2>3, AskedRates
  <2> QED BY <1>4, <2>1, <2>2, <2>3 DEF P!can_open, P!OpenRejected
<1>5. ASSUME NEW b \in Asked, P!can_set_baudrate(i, b)
      PROVE  PeakKept
  <2>1. CASE P!SetRejected(i, b) /\ UNCHANGED peak_init
    BY <1>2, <2>1 DEF P!SetRejected
  <2>2. CASE P!OnPeak(i) /\ P!peak_open("set", i, P!Uninitialized({i}), b, P!CloseReason({i}))
    <3>1. PV!Agree(PeakView, P!Uninitialized({i}))
      BY PeakCloses, PeakAssumes, PV!UninitializedAgrees
    <3> QED BY <1>3, <2>2, <3>1, AskedRates
  <2> QED BY <1>5, <2>1, <2>2 DEF P!can_set_baudrate
<1>6. ASSUME P!can_close(i)
      PROVE  PeakKept
  <2>1. can_interface' = can_interface /\ peak_init' = PV!Uninitialized({i})
    BY <1>6, PeakCloses DEF P!can_close
  <2>2. Writes(can_interface, can_interface', "PEAK") /\ PeakView' = PeakView
    BY <2>1, Untouched, PrimedViews DEF VendorName, PeakView
  <2>3. PV!Agree(PeakView, PV!Uninitialized({i}))
    BY PeakAssumes, PV!UninitializedAgrees
  <2> QED BY <2>1, <2>2, <2>3 DEF PeakKept
<1>7. ASSUME P!can_release(i)
      PROVE  PeakKept
  <2>1. P!ReleaseSlots({i} \cap Slots)
    BY <1>7 DEF P!can_release, P!Slots, Slots
  <2>2. \A j \in {i} \cap Slots : can_interface[j].vendor \in {"PEAK", "NONE"}
    BY DEF Vendor
  <2> QED BY <2>1, <2>2, PeakReleases
<1>8. ASSUME P!can_update(i)
      PROVE  PeakKept
  <2>1. CASE UNCHANGED <<can_interface, peak_init>>
    BY <1>2, <2>1
  <2>2. CASE P!OnPeak(i) /\ P!ReleaseSlots({i})
    BY <2>2, PeakSees, PeakReleases
  <2> QED BY <1>8, <2>1, <2>2 DEF P!can_update, P!Rejected, P!peak_update
<1>9. ASSUME P!can_send(i) \/ P!can_recv(i)
      PROVE  PeakKept
  BY <1>2, <1>9 DEF P!can_send, P!can_recv, P!Rejected
<1> QED BY <1>4, <1>5, <1>6, <1>7, <1>8, <1>9 DEF PeakCall

LEMMA PeakFills ==
  ASSUME Table(can_interface), Views, NEW c \in PV!TPCANHandle, NEW i \in Slots,
         P!RegisterChannel(c, i), UNCHANGED peak_init
  PROVE  PeakKept
<1> DEFINE x == PV!NewIface(c)
<1>1. /\ can_interface[i].vendor = "NONE"
      /\ can_interface' = [can_interface EXCEPT ![i] = x]
      /\ \A j \in Slots : can_interface[j].name # PV!lookup_bus_name(c)
  BY FreeIsNone DEF P!RegisterChannel, P!Registered, P!AlreadyRegistered, P!FirstFree, P!Free,
     Free, P!Slots, Slots, P!lookup_bus_name, PV!lookup_bus_name, PV!NewIface
<1>2. x.name = PV!lookup_bus_name(c) /\ x.name # NULL /\ x.vendor = "PEAK"
  BY PeakAssumes, PV!NewIfaceFacts DEF PV!NewIface
<1> HIDE DEF x
<1>3. Fresh(can_interface, x.name) /\ "PEAK" \in VendorName
  BY <1>1, <1>2 DEF Fresh, VendorName
<1>4. /\ Writes(can_interface, can_interface', "PEAK")
      /\ PeakView' = [PeakView EXCEPT ![i] = x]
      /\ PeakView[i].name = NULL
      /\ Fresh(PeakView, x.name)
  BY <1>1, <1>2, <1>3, FillsNow, PrimedViews DEF PeakView
<1>5. PV!Fills(c, i) /\ i \in PV!Slots
  BY <1>2, <1>4 DEF PV!Fills, PV!Registered, PV!AlreadyRegistered, PV!Free, PV!Slots, Slots,
     Fresh, x
<1>6. PV!Agree(PeakView', peak_init')
  BY <1>5, PeakAssumes, PV!FillAgrees DEF Views
<1> QED BY <1>4, <1>6 DEF PeakKept

LEMMA PeakStays ==
  ASSUME Table(can_interface), Views, UNCHANGED <<can_interface, peak_init>>
  PROVE  PeakKept
  BY Untouched, PrimedViews DEF VendorName, PeakKept, PeakView, Views

LEMMA PeakScans ==
  ASSUME Table(can_interface), Views, PeakScan,
         P!peak_list \/ P!peak_find_channel \/ P!peak_find_end
  PROVE  PeakKept /\ PeakScan'
<1>1. ASSUME NEW text, P!EndScan(text), UNCHANGED <<can_interface, peak_attached, peak_init>>
      PROVE  PeakKept /\ PeakScan'
  BY <1>1, PeakStays DEF P!EndScan, PeakScan
<1>2. CASE P!peak_list
  <2>1. CASE P!EndScan("pcan")
    BY <1>1, <1>2, <2>1 DEF P!peak_list
  <2>2. CASE ~P!EndScan("pcan")
    <3>1. /\ peak_list' \in [1 .. peak_count -> PV!TPCANHandle]
          /\ UNCHANGED <<can_interface, peak_init, peak_attached, peak_count>>
      BY <1>2, <2>2, SameHandles DEF P!peak_list
    <3>2. peak_list' \in Seq(PV!TPCANHandle)
      BY <3>1 DEF PeakScan
    <3> QED BY <3>1, <3>2, PeakStays DEF PeakScan
  <2> QED BY <2>1, <2>2
<1>3. CASE P!peak_find_channel
  <2>1. CASE UNCHANGED can_interface /\ (P!EndScan("memory") \/ P!EndScan(NULL))
    BY <1>1, <1>3, <2>1 DEF P!peak_find_channel
  <2>2. CASE peak_list' = Tail(peak_list) /\ UNCHANGED peak_count
    <3>1. Head(peak_list) \in PV!TPCANHandle /\ peak_list' \in Seq(PV!TPCANHandle)
      BY <1>3, <2>2 DEF P!peak_find_channel, PeakScan
    <3>2. PeakScan'
      BY <1>3, <2>2, <3>1 DEF P!peak_find_channel, PeakScan
    <3>3. CASE UNCHANGED can_interface
      BY <1>3, <3>2, <3>3, PeakStays DEF P!peak_find_channel
    <3>4. ASSUME NEW i \in P!Slots, P!RegisterChannel(Head(peak_list), i)
          PROVE  PeakKept
      BY <1>3, <3>1, <3>4, PeakFills DEF P!peak_find_channel, P!Slots, Slots
    <3> QED BY <1>3, <2>2, <3>2, <3>3, <3>4 DEF P!peak_find_channel, P!EndScan
  <2> QED BY <1>3, <2>1, <2>2 DEF P!peak_find_channel
<1>4. CASE P!peak_find_end
  BY <1>1, <1>4 DEF P!peak_find_end
<1> QED BY <1>2, <1>3, <1>4

LEMMA PeakAsked ==
  ASSUME PeakScan, P!can_find_interfaces_mask(TRUE)
  PROVE  UNCHANGED <<can_interface, peak_init>> /\ PeakScan'
<1>1. UNCHANGED <<can_interface, peak_init, peak_attached>>
  BY DEF P!can_find_interfaces_mask
<1>2. PV!Cardinality(peak_attached) \in Nat
  BY PeakAssumes, PV!CountType DEF PeakScan
<1>3. P!Cardinality(peak_attached) \in Nat
  BY <1>2 DEF P!Cardinality, PV!Cardinality, P!IsFiniteSet, PV!IsFiniteSet
<1>4. P!Least(P!Cardinality(peak_attached), MaxInterfaces) \in Nat
  BY <1>3, TableAssumption DEF P!Least
<1>5. peak_count' \in Nat /\ peak_list' \in Seq(PV!TPCANHandle)
  <2>1. CASE \E text \in P!Reason : P!EndScan(text)
    BY <2>1 DEF P!EndScan
  <2>2. CASE /\ peak_count' = P!Least(P!Cardinality(peak_attached), MaxInterfaces)
             /\ peak_list' = peak_list
    BY <1>4, <2>2 DEF PeakScan
  <2> QED BY <2>1, <2>2 DEF P!can_find_interfaces_mask
<1> QED BY <1>1, <1>5 DEF PeakScan

LEMMA PeakEnvironment ==
  ASSUME PeakScan, P!Environment
  PROVE  UNCHANGED <<can_interface, peak_init>> /\ PeakScan'
  BY DEF P!Environment, P!Plug, P!Unplug, P!scan, PeakScan

-----------------------------------------------------------------------------
(* Kvaser beside the others *)

KvaserKept ==
  /\ Writes(can_interface, can_interface', "KVASER")
  /\ KV!Agree(KvaserView', kvaser_handle')

LEMMA KvaserSees ==
  ASSUME Table(can_interface), NEW i
  PROVE  /\ K!OnKvaser(i) <=> KV!OnKvaser(i)
         /\ K!OnKvaser(i) => /\ i \in Slots /\ can_interface[i].vendor = "KVASER"
                             /\ KvaserView[i] = can_interface[i]
<1>1. CASE i \in Slots
  BY <1>1, ViewIs DEF K!OnKvaser, KV!OnKvaser, K!Slots, KV!Slots, Slots, KvaserView, VendorName
<1>2. CASE i \notin Slots
  BY <1>2 DEF K!OnKvaser, KV!OnKvaser, K!Slots, KV!Slots, Slots
<1> QED BY <1>1, <1>2

LEMMA KvaserCloses ==
  ASSUME NEW T, \A i \in T : KvaserView[i] = can_interface[i]
  PROVE  K!CloseHandles(T) = KV!CloseHandles(T)
  BY DEF K!CloseHandles, KV!CloseHandles, K!HasHandle, KV!HasHandle

LEMMA KvaserClosed == \A x : K!CloseIface(x) = KV!CloseIface(x)
  BY DEF K!CloseIface, KV!CloseIface, K!HasHandle, KV!HasHandle

\* A slot that is closed and cleared is as one that is cleared.
LEMMA KvaserClears ==
  ASSUME NEW x \in KV!IfaceType
  PROVE  Cleared(KV!CloseIface(x)) = Cleared(x)
<1>1. CASE ~KV!HasHandle(x)
  BY <1>1 DEF KV!CloseIface
<1>2. CASE KV!HasHandle(x)
  BY <1>2 DEF KV!CloseIface, Cleared, KV!IfaceType, KV!Iface
<1> QED BY <1>1, <1>2

LEMMA KvaserPuts ==
  ASSUME Table(can_interface), NEW i \in Slots, can_interface[i].vendor = "KVASER",
         NEW x, x.vendor = "KVASER", x.name = can_interface[i].name,
         NEW op, NEW handles, NEW v, NEW text, K!OpenOutcome(op, i, x, handles, v, text)
  PROVE  /\ Writes(can_interface, can_interface', "KVASER")
         /\ KV!OpenOutcome(op, i, x, handles, v, text)
<1>1. "KVASER" \in VendorName
  BY DEF VendorName
<1>2. can_interface' = [can_interface EXCEPT ![i] = x]
  BY DEF K!OpenOutcome
<1>3. /\ Writes(can_interface, can_interface', "KVASER")
      /\ KvaserView' = [KvaserView EXCEPT ![i] = x]
  BY <1>1, <1>2, PutsNow, PrimedViews DEF KvaserView
<1> QED BY <1>3 DEF K!OpenOutcome, KV!OpenOutcome, K!Return, KV!Return

LEMMA KvaserOpens ==
  ASSUME Table(can_interface), KV!Agree(KvaserView, kvaser_handle),
         NEW i, K!OnKvaser(i), NEW op, NEW iface \in KV!IfaceType, NEW open,
         iface.vendor = "KVASER", iface.name = can_interface[i].name, KV!Sound(iface),
         NEW b \in AnyBaud, K!kvaser_open(op, i, iface, open, b)
  PROVE  /\ Writes(can_interface, can_interface', "KVASER")
         /\ KV!kvaser_open(op, i, iface, open, b)
<1>1. i \in Slots /\ can_interface[i].vendor = "KVASER"
  BY KvaserSees
<1> DEFINE Goal == /\ Writes(can_interface, can_interface', "KVASER")
                   /\ KV!kvaser_open(op, i, iface, open, b)
           x == [iface EXCEPT !.baudrate = b]
           c == iface.internal.channel
           given(h) == [open EXCEPT ![h] = c]
           closed(h) == [given(h) EXCEPT ![h] = NULL]
           y(h) == [x EXCEPT !.opened = 1, !.internal.handle = h]
<1>2. /\ x.vendor = "KVASER" /\ x.name = can_interface[i].name
      /\ \A h : y(h).vendor = "KVASER" /\ y(h).name = can_interface[i].name
  BY DEF KV!IfaceType, KV!Iface
<1>3. KV!kvaser_open(op, i, iface, open, b) <=>
        \/ KV!OpenOutcome(op, i, x, open, -1, "canlib")
        \/ /\ kvaser_bus[c] # NULL
           /\ \E h \in KvaserHandle :
                /\ open[h] = NULL
                /\ \/ KV!OpenOutcome(op, i, x, closed(h), -1, "canlib")
                   \/ KV!OpenOutcome(op, i, y(h), given(h), 0, NULL)
  BY DEF KV!kvaser_open, KV!canClose
<1>4. \/ K!OpenOutcome(op, i, x, open, -1, "canlib")
      \/ /\ kvaser_bus[c] # NULL
         /\ \E h \in KvaserHandle :
              /\ open[h] = NULL
              /\ \/ K!OpenOutcome(op, i, x, closed(h), -1, "canlib")
                 \/ K!OpenOutcome(op, i, y(h), given(h), 0, NULL)
  BY DEF K!kvaser_open, K!canClose
<1> HIDE DEF Goal, x, c, given, closed, y
<1>5. CASE K!OpenOutcome(op, i, x, open, -1, "canlib")
  <2>1. /\ Writes(can_interface, can_interface', "KVASER")
        /\ KV!OpenOutcome(op, i, x, open, -1, "canlib")
    BY <1>1, <1>2, <1>5, KvaserPuts
  <2> QED BY <1>3, <2>1
<1>6. ASSUME NEW h \in KvaserHandle, kvaser_bus[c] # NULL, open[h] = NULL,
             K!OpenOutcome(op, i, x, closed(h), -1, "canlib")
      PROVE  Goal
  <2>1. /\ Writes(can_interface, can_interface', "KVASER")
        /\ KV!OpenOutcome(op, i, x, closed(h), -1, "canlib")
    BY <1>1, <1>2, <1>6, KvaserPuts
  <2> QED BY <1>3, <1>6, <2>1 DEF Goal
<1>7. ASSUME NEW h \in KvaserHandle, kvaser_bus[c] # NULL, open[h] = NULL,
             K!OpenOutcome(op, i, y(h), given(h), 0, NULL)
      PROVE  Goal
  <2>1. /\ Writes(can_interface, can_interface', "KVASER")
        /\ KV!OpenOutcome(op, i, y(h), given(h), 0, NULL)
    BY <1>1, <1>2, <1>7, KvaserPuts
  <2> QED BY <1>3, <1>7, <2>1 DEF Goal
<1> QED BY <1>4, <1>5, <1>6, <1>7 DEF Goal

LEMMA KvaserTypes ==
  ASSUME Table(can_interface), KV!Agree(KvaserView, kvaser_handle), NEW i, K!OnKvaser(i)
  PROVE  /\ can_interface[i] \in KV!IfaceType /\ KV!Sound(can_interface[i])
         /\ can_interface[i].vendor = "KVASER" /\ KvaserView[i] = can_interface[i]
         /\ i \in Slots /\ i \in KV!Slots /\ KV!OnKvaser(i)
<1>1. /\ i \in Slots /\ i \in KV!Slots /\ KV!OnKvaser(i)
      /\ can_interface[i].vendor = "KVASER" /\ KvaserView[i] = can_interface[i]
  BY KvaserSees DEF KV!Slots, Slots
<1>2. KvaserView[i] \in KV!IfaceType /\ KV!Sound(KvaserView[i])
  BY <1>1 DEF KV!Agree
<1> QED BY <1>1, <1>2

LEMMA KvaserReleases ==
  ASSUME Table(can_interface), KV!Agree(KvaserView, kvaser_handle), NEW i, K!OnKvaser(i),
         K!ReleaseSlots({i})
  PROVE  KvaserKept
<1>1. /\ can_interface[i] \in KV!IfaceType /\ can_interface[i].vendor = "KVASER"
      /\ KvaserView[i] = can_interface[i] /\ i \in Slots
  BY KvaserTypes
<1>2. \A j \in {i} : Cleared(KV!CloseIface(KvaserView[j])) = Cleared(KvaserView[j])
  BY <1>1, KvaserClears
<1>3. can_interface' = ClearedIn(can_interface, {i})
  <2>1. \A j \in {i} : Cleared(KV!CloseIface(can_interface[j])) = Cleared(can_interface[j])
    BY <1>1, KvaserClears
  <2> QED BY <2>1, KvaserClosed DEF K!ReleaseSlots, K!Slots, Slots, K!Cleared, Cleared,
             ClearedIn
<1>4. /\ Writes(can_interface, can_interface', "KVASER")
      /\ KvaserView' = ClearedIn(KvaserView, {i})
  <2>1. "KVASER" \in VendorName /\ {i} \in SUBSET Slots
    BY <1>1 DEF VendorName
  <2>2. \A j \in {i} : can_interface[j].vendor \in {"KVASER", "NONE"}
    BY <1>1
  <2>3. /\ Writes(can_interface, ClearedIn(can_interface, {i}), "KVASER")
        /\ ViewOf(ClearedIn(can_interface, {i}), "KVASER")
             = ClearedIn(ViewOf(can_interface, "KVASER"), {i})
    BY <2>1, <2>2, Clears
  <2> QED BY <1>3, <2>3, PrimedViews DEF KvaserView
<1>5. kvaser_handle' = KV!CloseHandles({i})
  BY <1>1, KvaserCloses DEF K!ReleaseSlots
<1>6. KV!ReleaseSlots({i})
  BY <1>2, <1>4, <1>5 DEF KV!ReleaseSlots, KV!Slots, Slots, KV!Cleared, Cleared, ClearedIn
<1>7. {i} \in SUBSET KV!Slots
  BY <1>1 DEF KV!Slots, Slots
<1>8. KV!Agree(KvaserView', kvaser_handle')
  BY <1>6, <1>7, KvaserAssumes, KV!ReleaseAgrees
<1> QED BY <1>4, <1>8 DEF KvaserKept

LEMMA KvaserStays ==
  ASSUME Table(can_interface), KV!Agree(KvaserView, kvaser_handle),
         UNCHANGED <<can_interface, kvaser_handle>>
  PROVE  KvaserKept
  BY Untouched, PrimedViews DEF VendorName, KvaserKept, KvaserView

LEMMA KvaserCalls ==
  ASSUME Table(can_interface), KV!Agree(KvaserView, kvaser_handle), KvaserScan,
         NEW i \in CallIndex, Vendor(i) = "KVASER", KvaserCall(i)
  PROVE  KvaserKept
<1>1. /\ i \in Slots /\ i \in K!Slots /\ can_interface[i].vendor = "KVASER"
      /\ K!OnKvaser(i)
  BY DEF Vendor, K!OnKvaser, K!Slots, Slots
<1>2. /\ can_interface[i] \in KV!IfaceType /\ KV!Sound(can_interface[i])
      /\ KvaserView[i] = can_interface[i] /\ i \in KV!Slots /\ KV!OnKvaser(i)
  BY <1>1, KvaserTypes
<1>3. ASSUME Writes(can_interface, can_interface', "KVASER"), KV!Step
      PROVE  KvaserKept
  BY <1>3, KvaserAssumes, KV!StepAgrees DEF KvaserKept, KvaserScan
<1>4. \A b \in Asked : b \in AnyBaud /\ b \in KV!AnyBaud
  BY AskedRates DEF KV!AnyBaud, AnyBaud
<1>5. ASSUME NEW b \in Asked, K!can_open(i, b)
      PROVE  KvaserKept
  <2>1. K!kvaser_open("open", i, can_interface[i], kvaser_handle, b)
    BY <1>1, <1>5 DEF K!can_open, K!OpenRejected, K!OutOfRange, K!NoInterface
  <2>2. /\ Writes(can_interface, can_interface', "KVASER")
        /\ KV!kvaser_open("open", i, can_interface[i], kvaser_handle, b)
    BY <1>1, <1>2, <1>4, <2>1, KvaserOpens
  <2>3. KV!Opens(i, b)
    BY <1>2, <2>2 DEF KV!Opens
  <2> QED BY <1>2, <1>3, <1>4, <2>2, <2>3 DEF KV!Step
<1>6. ASSUME NEW b \in Asked, K!can_set_baudrate(i, b)
      PROVE  KvaserKept
  <2>1. CASE K!SetRejected(i, b) /\ UNCHANGED kvaser_handle
    BY <2>1, KvaserStays DEF K!SetRejected
  <2>2. CASE K!kvaser_open("set", i, K!CloseIface(can_interface[i]), K!CloseHandles({i}), b)
    <3> DEFINE x == KV!CloseIface(can_interface[i])
    <3>1. x \in KV!IfaceType /\ KV!Sound(x) /\ x.name = can_interface[i].name
          /\ x.vendor = "KVASER"
      BY <1>1, <1>2, KvaserAssumes, KV!CloseIfaceFacts, KV!CloseIfaceSound
    <3>2. K!kvaser_open("set", i, x, KV!CloseHandles({i}), b)
      BY <1>2, <2>2, KvaserClosed, KvaserCloses
    <3> HIDE DEF x
    <3>3. /\ Writes(can_interface, can_interface', "KVASER")
          /\ KV!kvaser_open("set", i, x, KV!CloseHandles({i}), b)
      BY <1>1, <1>4, <3>1, <3>2, KvaserOpens
    <3>4. KV!Sets(i, b)
      BY <1>2, <3>3 DEF KV!Sets, x
    <3> QED BY <1>2, <1>3, <1>4, <3>3, <3>4 DEF KV!Step
  <2> QED BY <1>6, <2>1, <2>2 DEF K!can_set_baudrate
<1>7. ASSUME K!can_close(i)
      PROVE  KvaserKept
  <2> DEFINE x == KV!CloseIface(can_interface[i])
  <2>1. x.vendor = "KVASER" /\ x.name = can_interface[i].name
    BY <1>1, <1>2, KvaserAssumes, KV!CloseIfaceFacts
  <2>2. can_interface' = [can_interface EXCEPT ![i] = x]
    BY <1>1, <1>7, KvaserClosed DEF K!can_close, K!Slots, Slots, Table
  <2> HIDE DEF x
  <2>3. /\ Writes(can_interface, can_interface', "KVASER")
        /\ KvaserView' = [KvaserView EXCEPT ![i] = x]
    BY <1>1, <2>1, <2>2, PutsNow, PrimedViews DEF KvaserView, VendorName
  <2>4. KvaserView' = KV!ClosedTable({i})
    BY <1>2, <2>3 DEF KV!ClosedTable, KV!Slots, Slots, KvaserView, ViewOf, x
  <2>5. kvaser_handle' = KV!CloseHandles({i})
    <3>1. {i} \cap K!Slots = {i}
      BY <1>1
    <3> QED BY <1>2, <1>7, <3>1, KvaserCloses DEF K!can_close
  <2>6. KV!Agree(KV!ClosedTable({i}), KV!CloseHandles({i}))
    <3>1. {i} \in SUBSET KV!Slots
      BY <1>2
    <3> QED BY <3>1, KvaserAssumes, KV!CloseAgrees
  <2> QED BY <2>3, <2>4, <2>5, <2>6 DEF KvaserKept
<1>8. ASSUME K!can_release(i)
      PROVE  KvaserKept
  <2>1. {i} \cap K!Slots = {i}
    BY <1>1
  <2>2. K!ReleaseSlots({i})
    BY <1>8, <2>1 DEF K!can_release
  <2> QED BY <1>1, <2>2, KvaserReleases
<1>9. ASSUME K!can_update(i)
      PROVE  KvaserKept
  <2>1. CASE UNCHANGED <<can_interface, kvaser_handle>>
    BY <2>1, KvaserStays
  <2>2. CASE K!ReleaseSlots({i})
    BY <1>1, <2>2, KvaserReleases
  <2> QED BY <1>9, <2>1, <2>2 DEF K!can_update, K!Rejected, K!kvaser_update
<1>10. ASSUME K!can_send(i) \/ K!can_recv(i)
       PROVE  KvaserKept
  BY <1>10, KvaserStays DEF K!can_send, K!can_recv, K!Rejected, K!canlib
<1> QED BY <1>5, <1>6, <1>7, <1>8, <1>9, <1>10 DEF KvaserCall

LEMMA KvaserFills ==
  ASSUME Table(can_interface), Views, KvaserScan, NEW c \in KV!Channel, NEW i \in Slots,
         K!RegisterChannel(c, i), UNCHANGED kvaser_handle
  PROVE  KvaserKept
<1> DEFINE x == KV!NewIface(c)
<1>1. /\ can_interface[i].vendor = "NONE"
      /\ can_interface' = [can_interface EXCEPT ![i] = x]
      /\ kvaser_bus[c] # NULL
      /\ \A j \in Slots : can_interface[j].name # kvaser_bus[c]
  BY FreeIsNone DEF K!RegisterChannel, K!AlreadyRegistered, K!FirstFree, K!Free, Free,
     K!Slots, Slots, KV!NewIface
<1>2. x.name = kvaser_bus[c] /\ x.vendor = "KVASER"
  BY DEF KV!NewIface
<1> HIDE DEF x
<1>3. Fresh(can_interface, x.name) /\ "KVASER" \in VendorName
  BY <1>1, <1>2 DEF Fresh, VendorName
<1>4. /\ Writes(can_interface, can_interface', "KVASER")
      /\ KvaserView' = [KvaserView EXCEPT ![i] = x]
  BY <1>1, <1>2, <1>3, FillsNow, PrimedViews DEF KvaserView
<1>5. KV!Fills(c, i) /\ i \in KV!Slots
  BY <1>1, <1>4 DEF KV!Fills, KV!Slots, Slots, x
<1>6. KV!Agree(KvaserView', kvaser_handle')
  BY <1>5, KvaserAssumes, KV!FillAgrees DEF Views, KvaserScan
<1> QED BY <1>4, <1>6 DEF KvaserKept

LEMMA KvaserScans ==
  ASSUME Table(can_interface), Views, KvaserScan,
         K!kvaser_find_channel \/ K!kvaser_find_end
  PROVE  KvaserKept /\ KvaserScan'
<1>1. ASSUME NEW text, K!EndScan(text), UNCHANGED <<can_interface, kvaser_bus, kvaser_handle>>
      PROVE  KvaserKept /\ KvaserScan'
  <2>1. kvaser_next' = 0 /\ kvaser_count' = 0 /\ 0 \in 0 .. Channels
    BY <1>1, KvaserAssumes DEF K!EndScan
  <2> QED BY <1>1, <2>1, KvaserStays DEF KvaserScan, Views, KV!Channel
<1>2. CASE K!kvaser_find_channel
  <2>1. CASE UNCHANGED can_interface /\ (K!EndScan("canlib") \/ K!EndScan("memory")
                                          \/ K!EndScan(NULL))
    BY <1>1, <1>2, <2>1 DEF K!kvaser_find_channel, K!canlib
  <2>2. CASE kvaser_next' = kvaser_next + 1 /\ UNCHANGED kvaser_count
    <3>1. kvaser_next \in KV!Channel
      BY <1>2, KvaserAssumes DEF K!kvaser_find_channel, KvaserScan, KV!Channel
    <3>2. UNCHANGED <<kvaser_handle, kvaser_bus>>
      BY <1>2 DEF K!kvaser_find_channel, K!canlib
    <3>3. KvaserScan'
      <4>1. kvaser_next \in Nat /\ kvaser_next' = kvaser_next + 1
        BY <2>2 DEF KvaserScan
      <4>2. kvaser_next' \in Nat
        BY ONLY <4>1
      <4> QED BY <2>2, <3>2, <4>2 DEF KvaserScan, KV!Channel
    <3>4. CASE UNCHANGED can_interface
      BY <3>2, <3>3, <3>4, KvaserStays DEF Views
    <3>5. ASSUME NEW i \in K!Slots, K!RegisterChannel(kvaser_next, i)
          PROVE  KvaserKept
      BY <3>1, <3>2, <3>5, KvaserFills DEF K!Slots, Slots
    <3> QED BY <1>2, <3>3, <3>4, <3>5 DEF K!kvaser_find_channel
  <2> QED BY <1>2, <2>1, <2>2 DEF K!kvaser_find_channel
<1>3. CASE K!kvaser_find_end
  BY <1>1, <1>3 DEF K!kvaser_find_end, K!canlib
<1> QED BY <1>2, <1>3

LEMMA KvaserAsked ==
  ASSUME KvaserScan, K!can_find_interfaces_mask(TRUE)
  PROVE  UNCHANGED <<can_interface, kvaser_handle>> /\ KvaserScan'
<1>1. UNCHANGED <<can_interface, kvaser_handle, kvaser_bus>>
  BY DEF K!can_find_interfaces_mask, K!canlib
<1>2. KV!NumberOfChannels \in 0 .. Channels
  BY KvaserAssumes, KV!CountType
<1>3. K!NumberOfChannels = KV!NumberOfChannels
  BY DEF K!NumberOfChannels, KV!NumberOfChannels, K!Attached, KV!Attached, K!Channel, KV!Channel
<1>4. kvaser_next' \in Nat /\ kvaser_count' \in 0 .. Channels
  <2>1. CASE UNCHANGED K!scan
    BY <2>1 DEF K!scan, KvaserScan
  <2>2. CASE /\ kvaser_next' = 0
             /\ kvaser_count' = IF K!NumberOfChannels > MaxInterfaces
                                THEN MaxInterfaces ELSE K!NumberOfChannels
    BY <1>2, <1>3, <2>2, KvaserAssumes
  <2> QED BY <2>1, <2>2 DEF K!can_find_interfaces_mask
<1> QED BY <1>1, <1>4 DEF KvaserScan, KV!Channel

LEMMA KvaserEnvironment ==
  ASSUME KvaserScan, K!Environment
  PROVE  UNCHANGED <<can_interface, kvaser_handle>> /\ KvaserScan'
  BY DEF K!Environment, K!Plug, K!Unplug, K!scan, K!Channel, KV!Channel, KvaserScan

-----------------------------------------------------------------------------
(* Ixxat beside the others *)

IxxatKept ==
  /\ Writes(can_interface, can_interface', "IXXAT")
  /\ XV!Agree(IxxatView', ixxat_refs', ixxat_line')

LEMMA IxxatSees ==
  ASSUME Table(can_interface), NEW i
  PROVE  /\ X!OnIxxat(i) <=> XV!OnIxxat(i)
         /\ X!Held(i) = XV!Held(i)
         /\ X!OnIxxat(i) => /\ i \in Slots /\ can_interface[i].vendor = "IXXAT"
                            /\ IxxatView[i] = can_interface[i]
                            /\ X!SocketOf(i) = XV!SocketOf(i)
<1>1. CASE i \in Slots
  <2>1. X!OnIxxat(i) <=> XV!OnIxxat(i)
    BY <1>1, ViewIs DEF X!OnIxxat, XV!OnIxxat, X!Slots, XV!Slots, Slots, IxxatView, VendorName
  <2>2. X!OnIxxat(i) => can_interface[i].vendor = "IXXAT" /\ IxxatView[i] = can_interface[i]
    BY <1>1, ViewIs DEF X!OnIxxat, IxxatView, VendorName
  <2> QED BY <1>1, <2>1, <2>2 DEF X!SocketOf, XV!SocketOf, X!Held, XV!Held
<1>2. CASE i \notin Slots
  BY <1>2 DEF X!OnIxxat, XV!OnIxxat, X!Slots, XV!Slots, Slots, X!Held, XV!Held
<1> QED BY <1>1, <1>2

LEMMA IxxatCloses ==
  ASSUME Table(can_interface), NEW T
  PROVE  X!RefsWithout(T) = XV!RefsWithout(T) /\ X!LineWithout(T) = XV!LineWithout(T)
<1>1. X!Kind = XV!Kind /\ \A R : X!Cardinality(R) = XV!Cardinality(R)
  BY DEF X!Kind, XV!Kind, X!Fifo, XV!Fifo, X!Cardinality, XV!Cardinality,
     X!IsFiniteSet, XV!IsFiniteSet
<1>2. \A k : {i \in T : k \in X!Held(i)} = {i \in T : k \in XV!Held(i)}
  BY IxxatSees
<1>3. X!RefsWithout(T) = XV!RefsWithout(T)
  BY <1>1, <1>2 DEF X!RefsWithout, XV!RefsWithout
<1>4. {X!SocketOf(i) : i \in {j \in T : "can" \in X!Held(j)}}
        = {XV!SocketOf(i) : i \in {j \in T : "can" \in XV!Held(j)}}
  <2>1. ASSUME NEW i \in T, "can" \in X!Held(i) PROVE X!SocketOf(i) = XV!SocketOf(i)
    BY <2>1, IxxatSees DEF X!Held
  <2> QED BY <2>1, IxxatSees
<1>5. X!LineWithout(T) = XV!LineWithout(T)
  BY <1>4 DEF X!LineWithout, XV!LineWithout
<1> QED BY <1>3, <1>5

LEMMA IxxatTypes ==
  ASSUME Table(can_interface), XV!Agree(IxxatView, ixxat_refs, ixxat_line),
         NEW i, X!OnIxxat(i)
  PROVE  /\ can_interface[i] \in XV!IfaceType /\ XV!Sound(can_interface[i])
         /\ can_interface[i].vendor = "IXXAT" /\ IxxatView[i] = can_interface[i]
         /\ i \in Slots /\ i \in XV!Slots /\ XV!OnIxxat(i)
         /\ X!SocketOf(i) = XV!SocketOf(i)
<1>1. /\ i \in Slots /\ i \in XV!Slots /\ XV!OnIxxat(i)
      /\ can_interface[i].vendor = "IXXAT" /\ IxxatView[i] = can_interface[i]
      /\ X!SocketOf(i) = XV!SocketOf(i)
  BY IxxatSees DEF XV!Slots, Slots
<1>2. IxxatView[i] \in XV!IfaceType /\ XV!Sound(IxxatView[i])
  BY <1>1 DEF XV!Agree
<1> QED BY <1>1, <1>2

LEMMA IxxatUnheld == \A x : X!Unheld(x) = XV!Unheld(x)
  BY Zenon DEF X!Unheld, XV!Unheld

\* A line that starts writes the slot, with the pointers it was given.
LEMMA IxxatStarts ==
  ASSUME Table(can_interface), XV!Agree(IxxatView, ixxat_refs, ixxat_line),
         NEW i, X!OnIxxat(i), NEW iface \in XV!IfaceType, XV!Sound(iface),
         iface.vendor = "IXXAT", iface.name = can_interface[i].name,
         NEW running, NEW counts, X!StartSucceeds(i, iface, running, counts)
  PROVE  /\ Writes(can_interface, can_interface', "IXXAT")
         /\ XV!StartSucceeds(i, iface, running, counts)
<1>1. /\ i \in Slots /\ can_interface[i].vendor = "IXXAT" /\ "IXXAT" \in VendorName
      /\ X!SocketOf(i) = XV!SocketOf(i)
  BY IxxatTypes DEF VendorName
<1>2. X!Fifo = XV!Fifo /\ X!Kind = XV!Kind
  BY DEF X!Fifo, XV!Fifo, X!Kind, XV!Kind
<1>3. /\ iface.internal.board \in ixxat_attached
      /\ counts["can"] < MaxRefs
      /\ ixxat_line' = running \cup {XV!SocketOf(i)}
  BY <1>1 DEF X!StartSucceeds
<1>4. PICK got \in SUBSET {k \in XV!Fifo : counts[k] < MaxRefs} :
        \E kept \in SUBSET ((iface.internal.held \cap XV!Fifo) \ got) :
          /\ ixxat_refs' = [k \in XV!Kind |-> IF k \in got \cup {"can"} THEN counts[k] + 1
                                                                     ELSE counts[k]]
          /\ can_interface' = [can_interface EXCEPT
               ![i] = [iface EXCEPT !.internal.held = {"can"} \cup got \cup kept]]
  BY <1>2, Zenon DEF X!StartSucceeds
<1>5. PICK kept \in SUBSET ((iface.internal.held \cap XV!Fifo) \ got) :
          /\ ixxat_refs' = [k \in XV!Kind |-> IF k \in got \cup {"can"} THEN counts[k] + 1
                                                                     ELSE counts[k]]
          /\ can_interface' = [can_interface EXCEPT
               ![i] = [iface EXCEPT !.internal.held = {"can"} \cup got \cup kept]]
  BY <1>4, Zenon
<1> DEFINE x == [iface EXCEPT !.internal.held = {"can"} \cup got \cup kept]
<1>6. x = XV!Started(iface, got, kept)
  BY Zenon DEF XV!Started
<1>7. x.vendor = "IXXAT" /\ x.name = iface.name
  <2>1. got \in SUBSET XV!Fifo /\ kept \in SUBSET XV!Fifo
    BY <1>4, <1>5
  <2>2. /\ XV!Started(iface, got, kept).name = iface.name
        /\ XV!Holds(XV!Started(iface, got, kept)) = {"can"} \cup got \cup kept
    BY ONLY <2>1, iface \in XV!IfaceType, XV!Sound(iface), iface.vendor = "IXXAT",
       IxxatAssumes, XV!StartedFacts
  <2> HIDE DEF x
  <2> QED BY <1>6, <2>2 DEF XV!Holds
<1>8. can_interface' = [can_interface EXCEPT ![i] = x]
  BY <1>5
<1> HIDE DEF x
<1>9. /\ Writes(can_interface, can_interface', "IXXAT")
      /\ IxxatView' = [IxxatView EXCEPT ![i] = x]
  <2>1. x.vendor = "IXXAT" /\ x.name = can_interface[i].name
    BY <1>7
  <2>2. /\ Writes(can_interface, can_interface', "IXXAT")
        /\ ViewOf(can_interface', "IXXAT") = [ViewOf(can_interface, "IXXAT") EXCEPT ![i] = x]
    BY ONLY <1>1, <1>8, <2>1, Table(can_interface), PutsNow
  <2> QED BY ONLY <2>2, PrimedViews DEF IxxatView
<1>10. IxxatView' = [IxxatView EXCEPT
         ![i] = [iface EXCEPT !.internal.held = {"can"} \cup got \cup kept]]
  BY <1>9, Zenon DEF x
<1>11. XV!StartSucceeds(i, iface, running, counts)
  BY <1>3, <1>4, <1>5, <1>10, Zenon DEF XV!StartSucceeds
<1> QED BY <1>9, <1>11

LEMMA IxxatOpens ==
  ASSUME Table(can_interface), XV!Agree(IxxatView, ixxat_refs, ixxat_line),
         NEW i, X!OnIxxat(i), NEW b \in AnyBaud, X!ixxat_open(i, b)
  PROVE  IxxatKept
<1>1. /\ can_interface[i] \in XV!IfaceType /\ XV!Sound(can_interface[i])
      /\ can_interface[i].vendor = "IXXAT" /\ IxxatView[i] = can_interface[i]
      /\ i \in Slots /\ i \in XV!Slots /\ XV!OnIxxat(i)
      /\ X!SocketOf(i) = XV!SocketOf(i)
  BY IxxatTypes
<1>2. b \in XV!AnyBaud /\ "IXXAT" \in VendorName
  BY DEF XV!AnyBaud, AnyBaud, VendorName
<1> DEFINE y == [can_interface[i] EXCEPT !.baudrate = b]
           z == [y EXCEPT !.opened = 1]
<1>3. CASE /\ can_interface' = [can_interface EXCEPT ![i] = y]
           /\ X!StartFails(X!SocketOf(i), ixxat_line)
           /\ UNCHANGED ixxat_refs
           /\ X!Return("open", -1, "vci")
  <2>1. y.vendor = "IXXAT" /\ y.name = can_interface[i].name
    BY <1>1 DEF XV!IfaceType, XV!Iface
  <2> HIDE DEF y
  <2>2. /\ Writes(can_interface, can_interface', "IXXAT")
        /\ ViewOf(can_interface', "IXXAT") = [ViewOf(can_interface, "IXXAT") EXCEPT ![i] = y]
    BY ONLY <1>1, <1>2, <1>3, <2>1, Table(can_interface), PutsNow
  <2>3. IxxatView' = [IxxatView EXCEPT ![i] = y]
    BY ONLY <2>2, PrimedViews DEF IxxatView
  <2>4. XV!StartFails(XV!SocketOf(i), ixxat_line)
    BY <1>1, <1>3 DEF X!StartFails, XV!StartFails
  <2>5. XV!OpenFails(i, b)
    BY <1>1, <1>3, <2>3, <2>4 DEF XV!OpenFails, X!Return, XV!Return, y
  <2>6. XV!Agree(IxxatView', ixxat_refs', ixxat_line')
    BY <1>1, <1>2, <2>5, IxxatAssumes, XV!OpenFailsAgrees
  <2> QED BY <2>2, <2>6 DEF IxxatKept
<1>4. CASE X!StartSucceeds(i, z, ixxat_line, ixxat_refs) /\ X!Return("open", 0, NULL)
  <2>1. /\ z \in XV!IfaceType /\ z.name = can_interface[i].name /\ z.vendor = "IXXAT"
        /\ z.internal = can_interface[i].internal
    BY <1>1, <1>2 DEF XV!IfaceType, XV!Iface, XV!AnyBaud, AnyBaud
  <2>2. XV!Sound(z)
    BY <1>1, <2>1 DEF XV!Sound, XV!Sock
  <2> HIDE DEF z
  <2>3. /\ Writes(can_interface, can_interface', "IXXAT")
        /\ XV!StartSucceeds(i, z, ixxat_line, ixxat_refs)
    BY ONLY <1>4, <2>1, <2>2, Table(can_interface), X!OnIxxat(i),
       XV!Agree(IxxatView, ixxat_refs, ixxat_line), IxxatStarts
  <2>4. XV!OpenStarts(i, b)
    BY <1>1, <1>4, <2>3 DEF XV!OpenStarts, X!Return, XV!Return, z
  <2>5. XV!Agree(IxxatView', ixxat_refs', ixxat_line')
    BY <1>1, <1>2, <2>4, IxxatAssumes, XV!OpenStartsAgrees
  <2> QED BY <2>3, <2>5 DEF IxxatKept
<1> QED BY <1>3, <1>4, Zenon DEF X!ixxat_open

LEMMA IxxatSets ==
  ASSUME Table(can_interface), XV!Agree(IxxatView, ixxat_refs, ixxat_line),
         NEW i, X!OnIxxat(i), NEW b \in AnyBaud, X!ixxat_set_baudrate(i, b)
  PROVE  IxxatKept
<1>1. /\ can_interface[i] \in XV!IfaceType /\ XV!Sound(can_interface[i])
      /\ can_interface[i].vendor = "IXXAT" /\ IxxatView[i] = can_interface[i]
      /\ i \in Slots /\ i \in XV!Slots /\ XV!OnIxxat(i)
      /\ X!SocketOf(i) = XV!SocketOf(i)
  BY IxxatTypes
<1>2. b \in XV!AnyBaud /\ "IXXAT" \in VendorName
  BY DEF XV!AnyBaud, AnyBaud, VendorName
<1>3. /\ X!RefsWithout({i}) = XV!RefsWithout({i})
      /\ X!LineWithout({i}) = XV!LineWithout({i})
      /\ X!Unheld(can_interface[i]) = XV!Unheld(can_interface[i])
  BY IxxatCloses, IxxatUnheld
<1> DEFINE y == XV!Unheld(can_interface[i])
           z == [y EXCEPT !.baudrate = b]
<1>4. /\ y \in XV!IfaceType /\ XV!Sound(y) /\ y.vendor = "IXXAT"
      /\ y.name = can_interface[i].name
  BY <1>1, IxxatAssumes, XV!UnheldFacts
<1> HIDE DEF y
<1>5. CASE /\ can_interface' = [can_interface EXCEPT ![i] = y]
           /\ ixxat_refs' = XV!RefsWithout({i})
           /\ X!StartFails(X!SocketOf(i), XV!LineWithout({i}))
           /\ X!Return("set", -1, "vci")
  <2>1. /\ Writes(can_interface, can_interface', "IXXAT")
        /\ ViewOf(can_interface', "IXXAT") = [ViewOf(can_interface, "IXXAT") EXCEPT ![i] = y]
    BY ONLY <1>1, <1>2, <1>4, <1>5, Table(can_interface), PutsNow
  <2>2. IxxatView' = [IxxatView EXCEPT ![i] = y]
    BY ONLY <2>1, PrimedViews DEF IxxatView
  <2>3. XV!StartFails(XV!SocketOf(i), XV!LineWithout({i}))
    BY <1>1, <1>5 DEF X!StartFails, XV!StartFails
  <2>4. XV!SetFails(i)
    BY <1>1, <1>5, <2>2, <2>3 DEF XV!SetFails, X!Return, XV!Return, y
  <2>5. XV!Agree(IxxatView', ixxat_refs', ixxat_line')
    BY <1>1, <2>4, IxxatAssumes, XV!SetFailsAgrees
  <2> QED BY <2>1, <2>5 DEF IxxatKept
<1>6. CASE /\ X!StartSucceeds(i, z, XV!LineWithout({i}), XV!RefsWithout({i}))
           /\ X!Return("set", 0, NULL)
  <2>1. /\ z \in XV!IfaceType /\ z.name = can_interface[i].name /\ z.vendor = "IXXAT"
        /\ z.internal = y.internal /\ z.opened = y.opened
    BY <1>2, <1>4 DEF XV!IfaceType, XV!Iface, XV!AnyBaud, AnyBaud
  <2>2. XV!Sound(z)
    BY <1>4, <2>1 DEF XV!Sound, XV!Sock
  <2> HIDE DEF z
  <2>3. /\ Writes(can_interface, can_interface', "IXXAT")
        /\ XV!StartSucceeds(i, z, XV!LineWithout({i}), XV!RefsWithout({i}))
    BY ONLY <1>6, <2>1, <2>2, Table(can_interface), X!OnIxxat(i),
       XV!Agree(IxxatView, ixxat_refs, ixxat_line), IxxatStarts
  <2>4. XV!SetStarts(i, b)
    BY <1>1, <1>6, <2>3 DEF XV!SetStarts, X!Return, XV!Return, z, y
  <2>5. XV!Agree(IxxatView', ixxat_refs', ixxat_line')
    BY <1>1, <1>2, <2>4, IxxatAssumes, XV!SetStartsAgrees
  <2> QED BY <2>3, <2>5 DEF IxxatKept
<1> QED BY <1>3, <1>5, <1>6, Zenon DEF X!ixxat_set_baudrate, y

LEMMA IxxatStays ==
  ASSUME Table(can_interface), XV!Agree(IxxatView, ixxat_refs, ixxat_line),
         UNCHANGED <<can_interface, ixxat_refs>>, ixxat_line' \in SUBSET ixxat_line
  PROVE  IxxatKept
<1>1. Writes(can_interface, can_interface', "IXXAT") /\ IxxatView' = IxxatView
  BY Untouched, PrimedViews DEF VendorName, IxxatView
<1>2. XV!Agree(IxxatView, ixxat_refs, ixxat_line')
  BY IxxatAssumes, XV!StopAgrees
<1> QED BY <1>1, <1>2 DEF IxxatKept

LEMMA IxxatReleases ==
  ASSUME Table(can_interface), XV!Agree(IxxatView, ixxat_refs, ixxat_line),
         NEW i, X!OnIxxat(i), X!ReleaseSlots({i})
  PROVE  IxxatKept
<1>1. i \in Slots /\ can_interface[i].vendor = "IXXAT" /\ {i} \in SUBSET XV!Slots
  BY IxxatTypes DEF XV!Slots, Slots
<1>2. can_interface' = ClearedIn(can_interface, {i})
  BY DEF X!ReleaseSlots, X!Slots, Slots, X!Cleared, Cleared, ClearedIn
<1>3. /\ Writes(can_interface, can_interface', "IXXAT")
      /\ IxxatView' = ClearedIn(IxxatView, {i})
  <2>1. "IXXAT" \in VendorName /\ {i} \in SUBSET Slots
    BY <1>1 DEF VendorName
  <2>2. \A j \in {i} : can_interface[j].vendor \in {"IXXAT", "NONE"}
    BY <1>1
  <2>3. /\ Writes(can_interface, ClearedIn(can_interface, {i}), "IXXAT")
        /\ ViewOf(ClearedIn(can_interface, {i}), "IXXAT")
             = ClearedIn(ViewOf(can_interface, "IXXAT"), {i})
    BY <2>1, <2>2, Clears
  <2> QED BY <1>2, <2>3, PrimedViews DEF IxxatView
<1>4. ixxat_refs' = XV!RefsWithout({i}) /\ ixxat_line' = XV!LineWithout({i})
  BY IxxatCloses DEF X!ReleaseSlots
<1>5. XV!ReleaseSlots({i})
  BY <1>3, <1>4 DEF XV!ReleaseSlots, XV!Slots, Slots, XV!Cleared, Cleared, ClearedIn
<1>6. XV!Agree(IxxatView', ixxat_refs', ixxat_line')
  BY <1>1, <1>5, IxxatAssumes, XV!ReleaseAgrees
<1> QED BY <1>3, <1>6 DEF IxxatKept

LEMMA IxxatClosesOne ==
  ASSUME Table(can_interface), XV!Agree(IxxatView, ixxat_refs, ixxat_line),
         NEW i, X!OnIxxat(i), X!CloseSlots({i})
  PROVE  IxxatKept
<1>1. /\ can_interface[i] \in XV!IfaceType /\ XV!Sound(can_interface[i])
      /\ can_interface[i].vendor = "IXXAT" /\ IxxatView[i] = can_interface[i]
      /\ i \in Slots /\ i \in XV!Slots /\ XV!OnIxxat(i)
  BY IxxatTypes
<1> DEFINE y == XV!Unheld(can_interface[i])
           z == [y EXCEPT !.opened = 0]
<1>2. y \in XV!IfaceType /\ y.vendor = "IXXAT" /\ y.name = can_interface[i].name
  BY <1>1, IxxatAssumes, XV!UnheldFacts
<1>3. can_interface' = [can_interface EXCEPT ![i] = z]
  <2>1. X!Unheld(can_interface[i]) = y
    BY IxxatUnheld
  <2> QED BY <1>1, <2>1 DEF X!CloseSlots, X!Slots, Slots, Table
<1> HIDE DEF y
<1>4. z.vendor = "IXXAT" /\ z.name = can_interface[i].name /\ "IXXAT" \in VendorName
  BY <1>2 DEF XV!IfaceType, XV!Iface, VendorName
<1> HIDE DEF z
<1>5. /\ Writes(can_interface, can_interface', "IXXAT")
      /\ ViewOf(can_interface', "IXXAT") = [ViewOf(can_interface, "IXXAT") EXCEPT ![i] = z]
  BY ONLY <1>1, <1>3, <1>4, Table(can_interface), PutsNow
<1>6. IxxatView' = [IxxatView EXCEPT ![i] = z]
  BY ONLY <1>5, PrimedViews DEF IxxatView
<1>7. ixxat_refs' = XV!RefsWithout({i}) /\ ixxat_line' = XV!LineWithout({i})
  BY IxxatCloses DEF X!CloseSlots
<1>8. XV!CloseSlots({i})
  <2>1. IxxatView' = [j \in XV!Slots |-> IF j \in {i} THEN z ELSE IxxatView[j]]
    BY <1>1, <1>6 DEF IxxatView, ViewOf, XV!Slots, Slots
  <2>2. z = [XV!Unheld(IxxatView[i]) EXCEPT !.opened = 0]
    BY <1>1 DEF z, y
  <2> QED BY <1>7, <2>1, <2>2 DEF XV!CloseSlots
<1>9. {i} \in SUBSET XV!Slots /\ \A j \in {i} : XV!OnIxxat(j)
  BY <1>1
<1>10. XV!Agree(IxxatView', ixxat_refs', ixxat_line')
  BY <1>8, <1>9, IxxatAssumes, XV!CloseAgrees
<1> QED BY <1>5, <1>10 DEF IxxatKept

LEMMA IxxatCalls ==
  ASSUME Table(can_interface), XV!Agree(IxxatView, ixxat_refs, ixxat_line),
         NEW i \in CallIndex, Vendor(i) = "IXXAT", IxxatCall(i)
  PROVE  IxxatKept
<1>1. X!OnIxxat(i) /\ {i} \cap X!Slots = {i} /\ {i} \cap {j \in X!Slots : X!OnIxxat(j)} = {i}
  BY DEF Vendor, X!OnIxxat, X!Slots, Slots
<1>2. ASSUME UNCHANGED <<can_interface, ixxat_line, ixxat_refs>>
      PROVE  IxxatKept
  BY <1>2, IxxatStays
<1>3. ASSUME NEW b \in Asked, X!can_open(i, b)
      PROVE  IxxatKept
  BY <1>1, <1>3, AskedRates, IxxatOpens DEF X!can_open, X!OpenRejected, X!OutOfRange,
     X!NoInterface, X!OnIxxat
<1>4. ASSUME NEW b \in Asked, X!can_set_baudrate(i, b)
      PROVE  IxxatKept
  BY <1>1, <1>2, <1>4, AskedRates, IxxatSets DEF X!can_set_baudrate, X!SetRejected
<1>5. ASSUME X!can_close(i)
      PROVE  IxxatKept
  <2>1. X!CloseSlots({i})
    BY <1>1, <1>5 DEF X!can_close
  <2> QED BY <1>1, <2>1, IxxatClosesOne
<1>6. ASSUME X!can_release(i)
      PROVE  IxxatKept
  <2>1. X!ReleaseSlots({i})
    BY <1>1, <1>6 DEF X!can_release
  <2> QED BY <1>1, <2>1, IxxatReleases
<1>7. ASSUME X!can_update(i)
      PROVE  IxxatKept
  BY <1>1, <1>2, <1>7, IxxatReleases DEF X!can_update, X!Rejected, X!ixxat_update
<1>8. ASSUME X!can_send(i) \/ X!can_recv(i)
      PROVE  IxxatKept
  BY <1>2, <1>8 DEF X!can_send, X!can_recv, X!Rejected
<1> QED BY <1>3, <1>4, <1>5, <1>6, <1>7, <1>8 DEF IxxatCall

LEMMA IxxatFills ==
  ASSUME Table(can_interface), Views, NEW s \in X!Socket, NEW i \in Slots,
         X!RegisterSocket(s[1], s[2], i), UNCHANGED <<ixxat_refs, ixxat_line>>
  PROVE  IxxatKept
<1> DEFINE x == XV!NewIface(s[1], s[2])
<1>1. /\ can_interface[i].vendor = "NONE"
      /\ can_interface' = [can_interface EXCEPT ![i] = x]
      /\ \A j \in Slots : can_interface[j].name # XV!Name(s[1], s[2])
  BY FreeIsNone DEF X!RegisterSocket, X!AlreadyRegistered, X!FirstFree, X!Free, Free,
     X!Slots, Slots, XV!NewIface, X!Name, XV!Name
<1>2. x.name = XV!Name(s[1], s[2]) /\ x.vendor = "IXXAT"
  BY DEF XV!NewIface
<1>3. s \in XV!Socket /\ XV!Name(s[1], s[2]) # NULL
  <2>1. s \in XV!Socket
    BY DEF X!Socket, XV!Socket
  <2>2. XV!Name(s[1], s[2]) \in IxxatDevice /\ NULL \notin IxxatDevice
    BY <2>1, IxxatAssumes DEF XV!IxxatAssumption, XV!TableAssumption
  <2> QED BY <2>1, <2>2
<1> HIDE DEF x
<1>4. Fresh(can_interface, x.name) /\ "IXXAT" \in VendorName
  BY <1>1, <1>2, <1>3 DEF Fresh, VendorName
<1>5. /\ Writes(can_interface, can_interface', "IXXAT")
      /\ ViewOf(can_interface', "IXXAT") = [ViewOf(can_interface, "IXXAT") EXCEPT ![i] = x]
      /\ ViewOf(can_interface, "IXXAT")[i].name = NULL
      /\ Fresh(ViewOf(can_interface, "IXXAT"), x.name)
  BY ONLY <1>1, <1>2, <1>4, Table(can_interface), i \in Slots, FillsNow
<1>6. IxxatView' = [IxxatView EXCEPT ![i] = x]
  BY ONLY <1>5, PrimedViews DEF IxxatView
<1>7. XV!Fills(s, i) /\ i \in XV!Slots
  BY <1>2, <1>3, <1>5, <1>6 DEF XV!Fills, XV!AlreadyRegistered, XV!Free, XV!Slots, Slots,
     Fresh, IxxatView, x
<1>8. XV!Agree(IxxatView', ixxat_refs', ixxat_line')
  BY <1>7, IxxatAssumes, XV!FillAgrees DEF Views
<1> QED BY <1>5, <1>8 DEF IxxatKept

LEMMA IxxatScans ==
  ASSUME Table(can_interface), Views, X!Scan
  PROVE  IxxatKept
<1>1. ASSUME UNCHANGED <<can_interface, ixxat_line, ixxat_refs>>
      PROVE  IxxatKept
  BY <1>1, IxxatStays DEF Views
<1>2. ASSUME NEW b \in Board, X!ixxat_find_board(b)
      PROVE  IxxatKept
  BY <1>1, <1>2 DEF X!ixxat_find_board
<1>3. ASSUME NEW s \in X!Socket, X!ixxat_find_socket(s[1], s[2])
      PROVE  IxxatKept
  <2>1. UNCHANGED <<ixxat_line, ixxat_refs>>
    BY <1>3 DEF X!ixxat_find_socket
  <2>2. ASSUME NEW i \in X!Slots, X!RegisterSocket(s[1], s[2], i)
        PROVE  IxxatKept
    BY <2>1, <2>2, IxxatFills DEF X!Slots, Slots
  <2> QED BY <1>1, <1>3, <2>1, <2>2 DEF X!ixxat_find_socket
<1>4. ASSUME X!ixxat_find_end
      PROVE  IxxatKept
  BY <1>1, <1>4 DEF X!ixxat_find_end
<1> QED BY <1>2, <1>3, <1>4 DEF X!Scan

LEMMA IxxatQuiet ==
  /\ X!can_find_interfaces_mask(TRUE) => UNCHANGED <<can_interface, ixxat_refs, ixxat_line>>
  /\ X!ixxat_recv_entry => UNCHANGED <<can_interface, ixxat_refs, ixxat_line>>
  /\ X!Environment =>
       UNCHANGED <<can_interface, ixxat_refs>> /\ ixxat_line' \in SUBSET ixxat_line
<1>1. X!Environment =>
        UNCHANGED <<can_interface, ixxat_refs>> /\ ixxat_line' \in SUBSET ixxat_line
  BY DEF X!Environment, X!Plug, X!Unplug, X!Arrive
<1> QED BY <1>1 DEF X!can_find_interfaces_mask, X!ixxat_recv_entry

-----------------------------------------------------------------------------
(* Softing beside the others *)

SoftingKept ==
  /\ Writes(can_interface, can_interface', "SOFTING")
  /\ SV!Agree(SoftingView', softing_chan')

LEMMA SoftingSees ==
  ASSUME Table(can_interface), NEW i
  PROVE  /\ S!OnSofting(i) <=> SV!OnSofting(i)
         /\ S!hChannel(i) = SV!hChannel(i)
         /\ S!OnSofting(i) => /\ i \in Slots /\ can_interface[i].vendor = "SOFTING"
                              /\ SoftingView[i] = can_interface[i]
<1>1. CASE i \in Slots
  <2>1. S!OnSofting(i) <=> SV!OnSofting(i)
    BY <1>1, ViewIs DEF S!OnSofting, SV!OnSofting, S!Slots, SV!Slots, Slots, SoftingView,
       VendorName
  <2>2. S!OnSofting(i) =>
          can_interface[i].vendor = "SOFTING" /\ SoftingView[i] = can_interface[i]
    BY <1>1, ViewIs DEF S!OnSofting, SoftingView, VendorName
  <2> QED BY <1>1, <2>1, <2>2 DEF S!hChannel, SV!hChannel
<1>2. CASE i \notin Slots
  BY <1>2 DEF S!OnSofting, SV!OnSofting, S!Slots, SV!Slots, Slots, S!hChannel, SV!hChannel
<1> QED BY <1>1, <1>2

LEMMA SoftingCloses ==
  ASSUME Table(can_interface), NEW T
  PROVE  S!CloseHandles(T) = SV!CloseHandles(T)
  BY SoftingSees DEF S!CloseHandles, SV!CloseHandles

LEMMA SoftingClosed == \A x : S!CloseIface(x) = SV!CloseIface(x)
  BY Zenon DEF S!CloseIface, SV!CloseIface

LEMMA SoftingTypes ==
  ASSUME Table(can_interface), SV!Agree(SoftingView, softing_chan), NEW i, S!OnSofting(i)
  PROVE  /\ can_interface[i] \in SV!IfaceType /\ SV!Sound(can_interface[i])
         /\ can_interface[i].vendor = "SOFTING" /\ SoftingView[i] = can_interface[i]
         /\ i \in Slots /\ i \in SV!Slots /\ SV!OnSofting(i)
<1>1. /\ i \in Slots /\ i \in SV!Slots /\ SV!OnSofting(i)
      /\ can_interface[i].vendor = "SOFTING" /\ SoftingView[i] = can_interface[i]
  BY SoftingSees DEF SV!Slots, Slots
<1>2. SoftingView[i] \in SV!IfaceType /\ SV!Sound(SoftingView[i])
  BY <1>1 DEF SV!Agree
<1> QED BY <1>1, <1>2

\* A slot of Softing is written and keeps its name.
LEMMA SoftingPuts ==
  ASSUME Table(can_interface), NEW i \in Slots, can_interface[i].vendor = "SOFTING",
         NEW x, x.vendor = "SOFTING", x.name = can_interface[i].name,
         can_interface' = [can_interface EXCEPT ![i] = x]
  PROVE  /\ Writes(can_interface, can_interface', "SOFTING")
         /\ SoftingView' = [SoftingView EXCEPT ![i] = x]
<1>1. "SOFTING" \in VendorName
  BY DEF VendorName
<1>2. /\ Writes(can_interface, can_interface', "SOFTING")
      /\ ViewOf(can_interface', "SOFTING") = [ViewOf(can_interface, "SOFTING") EXCEPT ![i] = x]
  BY PutsNow, <1>1
<1> QED BY ONLY <1>2, PrimedViews DEF SoftingView

LEMMA SoftingOpens ==
  ASSUME Table(can_interface), SV!Agree(SoftingView, softing_chan),
         NEW i, S!OnSofting(i), NEW iface \in SV!IfaceType, SV!Sound(iface),
         iface.vendor = "SOFTING", iface.name = can_interface[i].name,
         NEW op, NEW open, S!softing_open(op, i, iface, open)
  PROVE  /\ Writes(can_interface, can_interface', "SOFTING")
         /\ SV!softing_open(op, i, iface, open)
<1>1. i \in Slots /\ can_interface[i].vendor = "SOFTING"
  BY SoftingTypes
<1>2. \A v, w : S!Return(op, v, w) <=> SV!Return(op, v, w)
  BY DEF S!Return, SV!Return
<1>3. iface.internal.hChannel \in SoftingHandle \cup {NoHandle}
  BY SoftingAssumes DEF SV!IfaceType, SV!Iface, SV!softing_ctx_t, SV!Sound
<1>4. ASSUME NEW h \in SoftingHandle \cup {NoHandle},
             can_interface' = [can_interface EXCEPT ![i] = SV!Put(iface, h)]
      PROVE  /\ Writes(can_interface, can_interface', "SOFTING")
             /\ SoftingView' = [SoftingView EXCEPT ![i] = SV!Put(iface, h)]
  <2> DEFINE x == SV!Put(iface, h)
  <2>1. x.vendor = "SOFTING" /\ x.name = can_interface[i].name
    BY SoftingAssumes, SV!PutFacts
  <2>2. can_interface' = [can_interface EXCEPT ![i] = x]
    BY <1>4
  <2> HIDE DEF x
  <2>3. /\ Writes(can_interface, can_interface', "SOFTING")
        /\ SoftingView' = [SoftingView EXCEPT ![i] = x]
    BY ONLY <1>1, <2>1, <2>2, Table(can_interface), SoftingPuts
  <2> QED BY <2>3 DEF x
<1>5. ASSUME NEW h \in SoftingHandle,
             can_interface' = [can_interface EXCEPT ![i] = SV!Opened(iface, h)]
      PROVE  /\ Writes(can_interface, can_interface', "SOFTING")
             /\ SoftingView' = [SoftingView EXCEPT ![i] = SV!Opened(iface, h)]
  <2> DEFINE x == SV!Opened(iface, h)
  <2>1. x.vendor = "SOFTING" /\ x.name = can_interface[i].name
    BY SoftingAssumes, SV!OpenedFacts
  <2>2. can_interface' = [can_interface EXCEPT ![i] = x]
    BY <1>5
  <2> HIDE DEF x
  <2>3. /\ Writes(can_interface, can_interface', "SOFTING")
        /\ SoftingView' = [SoftingView EXCEPT ![i] = x]
    BY ONLY <1>1, <2>1, <2>2, Table(can_interface), SoftingPuts
  <2> QED BY <2>3 DEF x
<1>6. ASSUME NEW h \in {iface.internal.hChannel, NoHandle},
             can_interface' = [can_interface EXCEPT ![i] = SV!Put(iface, h)],
             softing_chan' = open, SV!Return(op, -1, "canl2")
      PROVE  /\ Writes(can_interface, can_interface', "SOFTING")
             /\ SV!softing_open(op, i, iface, open)
  <2>1. /\ Writes(can_interface, can_interface', "SOFTING")
        /\ SoftingView' = [SoftingView EXCEPT ![i] = SV!Put(iface, h)]
    BY <1>3, <1>4, <1>6
  <2>2. SV!softing_open(op, i, iface, open)
    BY <1>6, <2>1, Zenon DEF SV!softing_open, SV!Put
  <2> QED BY <2>1, <2>2
<1>7. ASSUME NEW h \in SoftingHandle, iface.name \in softing_present,
             open[h] = NULL \/ h = iface.internal.hChannel,
             \/ /\ can_interface' = [can_interface EXCEPT ![i] = SV!Put(iface, NoHandle)]
                /\ softing_chan' = [open EXCEPT ![h] = NULL]
                /\ SV!Return(op, -1, "canl2")
             \/ /\ can_interface' = [can_interface EXCEPT ![i] = SV!Opened(iface, h)]
                /\ softing_chan' = [open EXCEPT ![h] = iface.name]
                /\ SV!Return(op, 0, NULL)
      PROVE  /\ Writes(can_interface, can_interface', "SOFTING")
             /\ SV!softing_open(op, i, iface, open)
  <2>1. \/ /\ SoftingView' = [SoftingView EXCEPT ![i] = SV!Put(iface, NoHandle)]
           /\ softing_chan' = [open EXCEPT ![h] = NULL]
           /\ SV!Return(op, -1, "canl2")
           /\ Writes(can_interface, can_interface', "SOFTING")
        \/ /\ SoftingView' = [SoftingView EXCEPT ![i] = SV!Opened(iface, h)]
           /\ softing_chan' = [open EXCEPT ![h] = iface.name]
           /\ SV!Return(op, 0, NULL)
           /\ Writes(can_interface, can_interface', "SOFTING")
    BY <1>4, <1>5, <1>7
  <2>2. SV!softing_open(op, i, iface, open)
    BY <1>7, <2>1, Zenon DEF SV!softing_open, SV!Put, SV!Opened
  <2> QED BY <2>1, <2>2
<1>8. \/ \E h \in {iface.internal.hChannel, NoHandle} :
           /\ can_interface' = [can_interface EXCEPT ![i] = SV!Put(iface, h)]
           /\ softing_chan' = open /\ SV!Return(op, -1, "canl2")
      \/ \E h \in SoftingHandle :
           /\ iface.name \in softing_present
           /\ open[h] = NULL \/ h = iface.internal.hChannel
           /\ \/ /\ can_interface' = [can_interface EXCEPT ![i] = SV!Put(iface, NoHandle)]
                 /\ softing_chan' = [open EXCEPT ![h] = NULL]
                 /\ SV!Return(op, -1, "canl2")
              \/ /\ can_interface' = [can_interface EXCEPT ![i] = SV!Opened(iface, h)]
                 /\ softing_chan' = [open EXCEPT ![h] = iface.name]
                 /\ SV!Return(op, 0, NULL)
  BY <1>2, Zenon DEF S!softing_open, SV!Put, SV!Opened
<1> QED BY <1>6, <1>7, <1>8

LEMMA SoftingStays ==
  ASSUME Table(can_interface), SV!Agree(SoftingView, softing_chan),
         UNCHANGED <<can_interface, softing_chan>>
  PROVE  SoftingKept
  BY Untouched, PrimedViews DEF VendorName, SoftingKept, SoftingView

LEMMA SoftingReleases ==
  ASSUME Table(can_interface), SV!Agree(SoftingView, softing_chan),
         NEW i, S!OnSofting(i), S!ReleaseSlots({i})
  PROVE  SoftingKept
<1>1. i \in Slots /\ can_interface[i].vendor = "SOFTING" /\ {i} \in SUBSET SV!Slots
  BY SoftingTypes DEF SV!Slots, Slots
<1>2. can_interface' = ClearedIn(can_interface, {i})
  BY DEF S!ReleaseSlots, S!Slots, Slots, S!Cleared, Cleared, ClearedIn
<1>3. /\ Writes(can_interface, can_interface', "SOFTING")
      /\ SoftingView' = ClearedIn(SoftingView, {i})
  <2>1. "SOFTING" \in VendorName /\ {i} \in SUBSET Slots
    BY <1>1 DEF VendorName
  <2>2. \A j \in {i} : can_interface[j].vendor \in {"SOFTING", "NONE"}
    BY <1>1
  <2>3. /\ Writes(can_interface, ClearedIn(can_interface, {i}), "SOFTING")
        /\ ViewOf(ClearedIn(can_interface, {i}), "SOFTING")
             = ClearedIn(ViewOf(can_interface, "SOFTING"), {i})
    BY <2>1, <2>2, Clears
  <2> QED BY <1>2, <2>3, PrimedViews DEF SoftingView
<1>4. softing_chan' = SV!CloseHandles({i})
  BY SoftingCloses DEF S!ReleaseSlots
<1>5. SV!ReleaseSlots({i})
  BY <1>3, <1>4 DEF SV!ReleaseSlots, SV!Slots, Slots, SV!Cleared, Cleared, ClearedIn
<1>6. SV!Agree(SoftingView', softing_chan')
  BY <1>1, <1>5, SoftingAssumes, SV!ReleaseAgrees
<1> QED BY <1>3, <1>6 DEF SoftingKept

LEMMA SoftingCalls ==
  ASSUME Table(can_interface), SV!Agree(SoftingView, softing_chan),
         NEW i \in CallIndex, Vendor(i) = "SOFTING", SoftingCall(i)
  PROVE  SoftingKept
<1>1. S!OnSofting(i) /\ i \in S!Slots /\ {i} \cap S!Slots = {i}
  BY DEF Vendor, S!OnSofting, S!Slots, Slots
<1>2. /\ can_interface[i] \in SV!IfaceType /\ SV!Sound(can_interface[i])
      /\ can_interface[i].vendor = "SOFTING" /\ SoftingView[i] = can_interface[i]
      /\ i \in Slots /\ i \in SV!Slots /\ SV!OnSofting(i)
  BY <1>1, SoftingTypes
<1>3. ASSUME Writes(can_interface, can_interface', "SOFTING"), SV!Step
      PROVE  SoftingKept
  BY <1>3, SoftingAssumes, SV!StepAgrees DEF SoftingKept
<1>4. \A b \in Asked : b \in AnyBaud /\ b \in SV!AnyBaud
  BY AskedRates DEF SV!AnyBaud, AnyBaud
<1>5. ASSUME NEW b \in Asked, S!can_open(i, b)
      PROVE  SoftingKept
  <2> DEFINE x == SV!WithBaud(can_interface[i], b)
  <2>1. S!softing_open("open", i, x, softing_chan)
    BY <1>1, <1>5 DEF S!can_open, S!OpenRejected, S!OutOfRange, S!NoInterface, S!OnSofting,
       SV!WithBaud
  <2>2. x \in SV!IfaceType /\ SV!Sound(x) /\ x.vendor = "SOFTING"
        /\ x.name = can_interface[i].name
    BY <1>2, <1>4, SoftingAssumes, SV!BaudFacts DEF SV!WithBaud
  <2> HIDE DEF x
  <2>3. /\ Writes(can_interface, can_interface', "SOFTING")
        /\ SV!softing_open("open", i, x, softing_chan)
    BY ONLY <1>1, <2>1, <2>2, Table(can_interface), SV!Agree(SoftingView, softing_chan),
       SoftingOpens
  <2>4. SV!Opens(i, b)
    BY <1>2, <2>3 DEF SV!Opens, x
  <2> QED BY <1>2, <1>3, <1>4, <2>3, <2>4 DEF SV!Step
<1>6. ASSUME NEW b \in Asked, S!can_set_baudrate(i, b)
      PROVE  SoftingKept
  <2>1. CASE S!SetRejected(i, b) /\ UNCHANGED softing_chan
    BY <2>1, SoftingStays DEF S!SetRejected
  <2>2. CASE S!softing_open("set", i,
               [S!CloseIface(can_interface[i]) EXCEPT !.baudrate = b], S!CloseHandles({i}))
    <3> DEFINE y == SV!CloseIface(can_interface[i])
               x == SV!WithBaud(y, b)
    <3>1. y \in SV!IfaceType /\ SV!Sound(y) /\ y.name = can_interface[i].name
          /\ y.vendor = "SOFTING"
      BY <1>2, SoftingAssumes, SV!CloseFacts
    <3>2. S!softing_open("set", i, x, SV!CloseHandles({i}))
      BY <2>2, SoftingClosed, SoftingCloses DEF SV!WithBaud
    <3> HIDE DEF y
    <3>3. x \in SV!IfaceType /\ SV!Sound(x) /\ x.vendor = "SOFTING"
          /\ x.name = can_interface[i].name
      BY <1>4, <3>1, SoftingAssumes, SV!BaudFacts DEF SV!WithBaud
    <3> HIDE DEF x
    <3>4. /\ Writes(can_interface, can_interface', "SOFTING")
          /\ SV!softing_open("set", i, x, SV!CloseHandles({i}))
      BY ONLY <1>1, <3>2, <3>3, Table(can_interface), SV!Agree(SoftingView, softing_chan),
         SoftingOpens
    <3>5. SV!Sets(i, b)
      BY <1>2, <3>4 DEF SV!Sets, x, y
    <3> QED BY <1>2, <1>3, <1>4, <3>4, <3>5 DEF SV!Step
  <2> QED BY <1>6, <2>1, <2>2 DEF S!can_set_baudrate
<1>7. ASSUME S!can_close(i)
      PROVE  SoftingKept
  <2> DEFINE x == SV!CloseIface(can_interface[i])
  <2>1. x.vendor = "SOFTING" /\ x.name = can_interface[i].name
    BY <1>2, SoftingAssumes, SV!CloseFacts
  <2>2. can_interface' = [can_interface EXCEPT ![i] = x]
    BY <1>1, <1>7, SoftingClosed DEF S!can_close, S!Slots, Slots, Table
  <2> HIDE DEF x
  <2>3. /\ Writes(can_interface, can_interface', "SOFTING")
        /\ SoftingView' = [SoftingView EXCEPT ![i] = x]
    BY ONLY <1>2, <2>1, <2>2, Table(can_interface), SoftingPuts
  <2>4. SoftingView' = SV!ClosedTable({i})
    BY <1>2, <2>3 DEF SV!ClosedTable, SV!Slots, Slots, SoftingView, ViewOf, x
  <2>5. softing_chan' = SV!CloseHandles({i})
    BY <1>1, <1>7, SoftingCloses DEF S!can_close
  <2>6. SV!Closes({i})
    BY <2>4, <2>5 DEF SV!Closes
  <2> QED BY <1>2, <1>3, <2>3, <2>6 DEF SV!Step
<1>8. ASSUME S!can_release(i)
      PROVE  SoftingKept
  <2>1. S!ReleaseSlots({i})
    BY <1>1, <1>8 DEF S!can_release
  <2> QED BY <1>1, <2>1, SoftingReleases
<1>9. ASSUME S!can_update(i)
      PROVE  SoftingKept
  BY <1>1, <1>9, SoftingStays, SoftingReleases DEF S!can_update, S!Rejected, S!softing_update
<1>10. ASSUME S!can_send(i) \/ S!can_recv(i)
       PROVE  SoftingKept
  BY <1>10, SoftingStays DEF S!can_send, S!can_recv, S!Rejected
<1> QED BY <1>5, <1>6, <1>7, <1>8, <1>9, <1>10 DEF SoftingCall

LEMMA SoftingFills ==
  ASSUME Table(can_interface), Views, NEW c \in SoftingDevice, NEW i \in Slots,
         S!RegisterChannel(c, i), UNCHANGED softing_chan
  PROVE  SoftingKept
<1> DEFINE x == SV!NewIface(c)
<1>1. /\ can_interface[i].vendor = "NONE"
      /\ can_interface' = [can_interface EXCEPT ![i] = x]
      /\ \A j \in Slots : can_interface[j].name # c
  BY FreeIsNone DEF S!RegisterChannel, S!AlreadyRegistered, S!FirstFree, S!Free, Free,
     S!Slots, Slots, SV!NewIface
<1>2. x.name = c /\ x.vendor = "SOFTING" /\ c # NULL
  BY SoftingAssumes DEF SV!NewIface, SV!TableAssumption
<1> HIDE DEF x
<1>3. Fresh(can_interface, x.name) /\ "SOFTING" \in VendorName
  BY <1>1, <1>2 DEF Fresh, VendorName
<1>4. /\ Writes(can_interface, can_interface', "SOFTING")
      /\ ViewOf(can_interface', "SOFTING") = [ViewOf(can_interface, "SOFTING") EXCEPT ![i] = x]
  BY ONLY <1>1, <1>2, <1>3, Table(can_interface), i \in Slots, FillsNow
<1>5. SoftingView' = [SoftingView EXCEPT ![i] = x]
  BY ONLY <1>4, PrimedViews DEF SoftingView
<1>6. SV!Fills(c, i) /\ i \in SV!Slots
  BY <1>5 DEF SV!Fills, SV!Slots, Slots, x
<1>7. SV!Agree(SoftingView', softing_chan')
  BY <1>6, SoftingAssumes, SV!FillAgrees DEF Views
<1> QED BY <1>4, <1>7 DEF SoftingKept

LEMMA SoftingScans ==
  ASSUME Table(can_interface), Views, S!Scan
  PROVE  SoftingKept
<1>1. ASSUME UNCHANGED <<can_interface, softing_chan>>
      PROVE  SoftingKept
  BY <1>1, SoftingStays DEF Views
<1>2. ASSUME NEW c \in SoftingDevice, S!softing_find_channel(c)
      PROVE  SoftingKept
  <2>1. UNCHANGED softing_chan
    BY <1>2 DEF S!softing_find_channel
  <2>2. ASSUME NEW i \in S!Slots, S!RegisterChannel(c, i)
        PROVE  SoftingKept
    BY <2>1, <2>2, SoftingFills DEF S!Slots, Slots
  <2> QED BY <1>1, <1>2, <2>1, <2>2 DEF S!softing_find_channel
<1>3. ASSUME S!softing_list \/ S!softing_find_end
      PROVE  SoftingKept
  BY <1>1, <1>3 DEF S!softing_list, S!softing_find_end
<1> QED BY <1>2, <1>3 DEF S!Scan

LEMMA SoftingQuiet ==
  ASSUME S!can_find_interfaces_mask(TRUE) \/ S!Environment
  PROVE  UNCHANGED <<can_interface, softing_chan>>
  BY DEF S!can_find_interfaces_mask, S!Environment, S!Plug, S!Unplug

-----------------------------------------------------------------------------
(* A step of one back-end keeps the table and the views of the others *)

\* What OthersSeeRates says of w, in the terms of RateAgrees.
SeesRates(w) ==
  \E rate \in [Slots -> AnyBaud] :
    ViewOf(can_interface', w) =
      [i \in Slots |-> [ViewOf(can_interface, w)[i] EXCEPT !.baudrate = rate[i]]]

LEMMA OneWrites ==
  ASSUME Table(can_interface), NEW v \in VendorName,
         Writes(can_interface, can_interface', v),
         \A i \in Slots : can_interface'[i].vendor = v => can_interface'[i] \in WinIface
  PROVE  /\ Table(can_interface')
         /\ \A w \in VendorName \ {v} : SeesRates(w)
         /\ v # "IXXAT" => \A i \in Slots : can_interface'[i].vendor = "IXXAT" =>
                                              can_interface[i].vendor = "IXXAT"
<1> DEFINE new == can_interface'
<1>1. Table(new)
  BY ONLY Table(can_interface), v \in VendorName, Writes(can_interface, new, v),
     \A i \in Slots : new[i].vendor = v => new[i] \in WinIface, TableKept
<1> HIDE DEF new
<1>2. new \in [Slots -> WinIface] /\ \A i \in Slots : Touches(can_interface, new, v, i)
  BY <1>1 DEF Table, Writes, new
<1>3. ASSUME NEW w \in VendorName \ {v}
      PROVE  \E rate \in [Slots -> AnyBaud] :
               ViewOf(new, w) =
                 [i \in Slots |-> [ViewOf(can_interface, w)[i] EXCEPT !.baudrate = rate[i]]]
  <2> DEFINE rate == [i \in Slots |-> new[i].baudrate]
  <2>1. rate \in [Slots -> AnyBaud]
    BY <1>2 DEF WinIface
  <2>2. ViewOf(new, w) =
          [i \in Slots |-> [ViewOf(can_interface, w)[i] EXCEPT !.baudrate = new[i].baudrate]]
    BY <1>2, <1>3, OthersSeeRates
  <2>3. ViewOf(new, w) =
          [i \in Slots |-> [ViewOf(can_interface, w)[i] EXCEPT !.baudrate = rate[i]]]
    BY <2>2
  <2> QED BY <2>1, <2>3
<1>4. ASSUME NEW i \in Slots, v # "IXXAT", new[i].vendor = "IXXAT"
      PROVE  can_interface[i].vendor = "IXXAT"
  <2>1. can_interface[i] \in WinIface
    BY DEF Table
  <2>2. \A b \in AnyBaud : [can_interface[i] EXCEPT !.baudrate = b].vendor
                             = can_interface[i].vendor
    BY <2>1, WinBaud
  <2>3. Cleared(can_interface[i]).vendor = "NONE"
    BY <2>1, WinCleared
  <2> QED BY <1>2, <1>4, <2>2, <2>3 DEF Touches
<1> QED BY <1>1, <1>3, <1>4 DEF SeesRates, new

LEMMA PeakRates ==
  ASSUME PV!Agree(PeakView, peak_init), SeesRates("PEAK"), UNCHANGED peak_init
  PROVE  PV!Agree(PeakView', peak_init')
<1>1. PICK rate \in [Slots -> AnyBaud] :
        PeakView' = [i \in Slots |-> [PeakView[i] EXCEPT !.baudrate = rate[i]]]
  BY PrimedViews DEF SeesRates, PeakView
<1> DEFINE new == [i \in Slots |-> [PeakView[i] EXCEPT !.baudrate = rate[i]]]
<1>2. ASSUME NEW i \in PV!Slots
      PROVE  /\ new[i] \in PV!IfaceType
             /\ new[i].name = PeakView[i].name /\ new[i].vendor = PeakView[i].vendor
             /\ new[i].opened = PeakView[i].opened /\ new[i].internal = PeakView[i].internal
  BY DEF PV!Agree, PV!IfaceType, PV!Iface, PV!AnyBaud, AnyBaud, PV!Slots, Slots
<1>3. new \in [PV!Slots -> PV!IfaceType]
  BY <1>2 DEF PV!Slots, Slots
<1> HIDE DEF new
<1>4. PV!Agree(new, peak_init)
  BY <1>2, <1>3, PeakAssumes, PV!RateAgrees
<1> QED BY <1>1, <1>4 DEF new

LEMMA KvaserRates ==
  ASSUME KV!Agree(KvaserView, kvaser_handle), SeesRates("KVASER"), UNCHANGED kvaser_handle
  PROVE  KV!Agree(KvaserView', kvaser_handle')
<1>1. PICK rate \in [Slots -> AnyBaud] :
        KvaserView' = [i \in Slots |-> [KvaserView[i] EXCEPT !.baudrate = rate[i]]]
  BY PrimedViews DEF SeesRates, KvaserView
<1> DEFINE new == [i \in Slots |-> [KvaserView[i] EXCEPT !.baudrate = rate[i]]]
<1>2. ASSUME NEW i \in KV!Slots
      PROVE  /\ new[i] \in KV!IfaceType
             /\ new[i].name = KvaserView[i].name /\ new[i].vendor = KvaserView[i].vendor
             /\ new[i].opened = KvaserView[i].opened
             /\ new[i].internal = KvaserView[i].internal
  BY DEF KV!Agree, KV!IfaceType, KV!Iface, KV!AnyBaud, AnyBaud, KV!Slots, Slots
<1>3. new \in [KV!Slots -> KV!IfaceType]
  BY <1>2 DEF KV!Slots, Slots
<1> HIDE DEF new
<1>4. KV!Agree(new, kvaser_handle)
  BY <1>2, <1>3, KvaserAssumes, KV!RateAgrees
<1> QED BY <1>1, <1>4 DEF new

LEMMA IxxatRates ==
  ASSUME XV!Agree(IxxatView, ixxat_refs, ixxat_line), SeesRates("IXXAT"),
         UNCHANGED <<ixxat_refs, ixxat_line>>
  PROVE  XV!Agree(IxxatView', ixxat_refs', ixxat_line')
<1>1. PICK rate \in [Slots -> AnyBaud] :
        IxxatView' = [i \in Slots |-> [IxxatView[i] EXCEPT !.baudrate = rate[i]]]
  BY PrimedViews DEF SeesRates, IxxatView
<1> DEFINE new == [i \in Slots |-> [IxxatView[i] EXCEPT !.baudrate = rate[i]]]
<1>2. ASSUME NEW i \in XV!Slots
      PROVE  /\ new[i] \in XV!IfaceType
             /\ new[i].name = IxxatView[i].name /\ new[i].vendor = IxxatView[i].vendor
             /\ new[i].opened = IxxatView[i].opened
             /\ new[i].internal = IxxatView[i].internal
  BY DEF XV!Agree, XV!IfaceType, XV!Iface, XV!AnyBaud, AnyBaud, XV!Slots, Slots
<1>3. new \in [XV!Slots -> XV!IfaceType]
  BY <1>2 DEF XV!Slots, Slots
<1> HIDE DEF new
<1>4. XV!Agree(new, ixxat_refs, ixxat_line)
  BY <1>2, <1>3, IxxatAssumes, XV!RateAgrees
<1> QED BY <1>1, <1>4 DEF new

LEMMA SoftingRates ==
  ASSUME SV!Agree(SoftingView, softing_chan), SeesRates("SOFTING"), UNCHANGED softing_chan
  PROVE  SV!Agree(SoftingView', softing_chan')
<1>1. PICK rate \in [Slots -> AnyBaud] :
        SoftingView' = [i \in Slots |-> [SoftingView[i] EXCEPT !.baudrate = rate[i]]]
  BY PrimedViews DEF SeesRates, SoftingView
<1> DEFINE new == [i \in Slots |-> [SoftingView[i] EXCEPT !.baudrate = rate[i]]]
<1>2. ASSUME NEW i \in SV!Slots
      PROVE  /\ new[i] \in SV!IfaceType
             /\ new[i].name = SoftingView[i].name /\ new[i].vendor = SoftingView[i].vendor
             /\ new[i].opened = SoftingView[i].opened
             /\ new[i].internal = SoftingView[i].internal
  BY DEF SV!Agree, SV!IfaceType, SV!Iface, SV!AnyBaud, AnyBaud, SV!Slots, Slots
<1>3. new \in [SV!Slots -> SV!IfaceType]
  BY <1>2 DEF SV!Slots, Slots
<1> HIDE DEF new
<1>4. SV!Agree(new, softing_chan)
  BY <1>2, <1>3, SoftingAssumes, SV!RateAgrees
<1> QED BY <1>1, <1>4 DEF new

\* Table and views after a step, and which slots are Ixxat's.
Kept ==
  /\ Table(can_interface')
  /\ PV!Agree(PeakView', peak_init')
  /\ KV!Agree(KvaserView', kvaser_handle')
  /\ XV!Agree(IxxatView', ixxat_refs', ixxat_line')
  /\ SV!Agree(SoftingView', softing_chan')

NoNewIxxat ==
  \A i \in Slots : can_interface'[i].vendor = "IXXAT" => can_interface[i].vendor = "IXXAT"

LEMMA PeakActs ==
  ASSUME Table(can_interface), Views, PeakKept,
         UNCHANGED <<kvaser_handle, ixxat_refs, ixxat_line, softing_chan>>
  PROVE  Kept /\ NoNewIxxat
<1>1. ASSUME NEW i \in Slots, can_interface'[i].vendor = "PEAK"
      PROVE  can_interface'[i] \in WinIface
  <2>1. PeakView'[i] = can_interface'[i]
    BY <1>1, PrimedViews DEF ViewOf
  <2>2. PeakView'[i] \in PV!IfaceType
    BY DEF PeakKept, PV!Agree, PV!Slots, Slots
  <2> QED BY <2>1, <2>2 DEF PV!IfaceType, PV!Iface, PV!AnyBaud, WinIface, AnyBaud, AnyName,
             AnyContext, VendorName
<1>2. "PEAK" \in VendorName
  BY DEF VendorName
<1>3. /\ Table(can_interface')
      /\ \A w \in VendorName \ {"PEAK"} : SeesRates(w)
      /\ NoNewIxxat
  BY <1>1, <1>2, OneWrites DEF PeakKept, NoNewIxxat
<1>4. SeesRates("KVASER") /\ SeesRates("IXXAT") /\ SeesRates("SOFTING")
  BY <1>3 DEF VendorName
<1> QED BY <1>3, <1>4, KvaserRates, IxxatRates, SoftingRates DEF Kept, PeakKept, Views

LEMMA KvaserActs ==
  ASSUME Table(can_interface), Views, KvaserKept,
         UNCHANGED <<peak_init, ixxat_refs, ixxat_line, softing_chan>>
  PROVE  Kept /\ NoNewIxxat
<1>1. ASSUME NEW i \in Slots, can_interface'[i].vendor = "KVASER"
      PROVE  can_interface'[i] \in WinIface
  <2>1. KvaserView'[i] = can_interface'[i]
    BY <1>1, PrimedViews DEF ViewOf
  <2>2. KvaserView'[i] \in KV!IfaceType
    BY DEF KvaserKept, KV!Agree, KV!Slots, Slots
  <2> QED BY <2>1, <2>2 DEF KV!IfaceType, KV!Iface, KV!AnyBaud, WinIface, AnyBaud, AnyName,
             AnyContext, VendorName
<1>2. "KVASER" \in VendorName
  BY DEF VendorName
<1>3. /\ Table(can_interface')
      /\ \A w \in VendorName \ {"KVASER"} : SeesRates(w)
      /\ NoNewIxxat
  BY <1>1, <1>2, OneWrites DEF KvaserKept, NoNewIxxat
<1>4. SeesRates("PEAK") /\ SeesRates("IXXAT") /\ SeesRates("SOFTING")
  BY <1>3 DEF VendorName
<1> QED BY <1>3, <1>4, PeakRates, IxxatRates, SoftingRates DEF Kept, KvaserKept, Views

LEMMA IxxatActs ==
  ASSUME Table(can_interface), Views, IxxatKept,
         UNCHANGED <<peak_init, kvaser_handle, softing_chan>>
  PROVE  Kept
<1>1. ASSUME NEW i \in Slots, can_interface'[i].vendor = "IXXAT"
      PROVE  can_interface'[i] \in WinIface
  <2>1. IxxatView'[i] = can_interface'[i]
    BY <1>1, PrimedViews DEF ViewOf
  <2>2. IxxatView'[i] \in XV!IfaceType
    BY DEF IxxatKept, XV!Agree, XV!Slots, Slots
  <2> QED BY <2>1, <2>2 DEF XV!IfaceType, XV!Iface, XV!AnyBaud, WinIface, AnyBaud, AnyName,
             AnyContext, VendorName
<1>2. "IXXAT" \in VendorName
  BY DEF VendorName
<1>3. /\ Table(can_interface')
      /\ \A w \in VendorName \ {"IXXAT"} : SeesRates(w)
  BY <1>1, <1>2, OneWrites DEF IxxatKept
<1>4. SeesRates("PEAK") /\ SeesRates("KVASER") /\ SeesRates("SOFTING")
  BY <1>3 DEF VendorName
<1> QED BY <1>3, <1>4, PeakRates, KvaserRates, SoftingRates DEF Kept, IxxatKept, Views

LEMMA SoftingActs ==
  ASSUME Table(can_interface), Views, SoftingKept,
         UNCHANGED <<peak_init, kvaser_handle, ixxat_refs, ixxat_line>>
  PROVE  Kept /\ NoNewIxxat
<1>1. ASSUME NEW i \in Slots, can_interface'[i].vendor = "SOFTING"
      PROVE  can_interface'[i] \in WinIface
  <2>1. SoftingView'[i] = can_interface'[i]
    BY <1>1, PrimedViews DEF ViewOf
  <2>2. SoftingView'[i] \in SV!IfaceType
    BY DEF SoftingKept, SV!Agree, SV!Slots, Slots
  <2> QED BY <2>1, <2>2 DEF SV!IfaceType, SV!Iface, SV!AnyBaud, WinIface, AnyBaud, AnyName,
             AnyContext, VendorName
<1>2. "SOFTING" \in VendorName
  BY DEF VendorName
<1>3. /\ Table(can_interface')
      /\ \A w \in VendorName \ {"SOFTING"} : SeesRates(w)
      /\ NoNewIxxat
  BY <1>1, <1>2, OneWrites DEF SoftingKept, NoNewIxxat
<1>4. SeesRates("PEAK") /\ SeesRates("KVASER") /\ SeesRates("IXXAT")
  BY <1>3 DEF VendorName
<1> QED BY <1>3, <1>4, PeakRates, KvaserRates, IxxatRates DEF Kept, SoftingKept, Views

\* Closing and clearing the slots of every back-end is, to each of them, closing
\* and clearing all slots.
LEMMA AllReleased ==
  ASSUME Table(can_interface), Views, can_release_interfaces
  PROVE  Kept /\ NoNewIxxat
<1>1. /\ Table(can_interface')
      /\ \A i \in Slots : can_interface'[i].vendor = "NONE"
      /\ \A v \in VendorName :
           ViewOf(can_interface', v) = ClearedIn(ViewOf(can_interface, v), Slots)
  <2>1. can_interface' = [i \in Slots |-> Cleared(can_interface[i])]
    BY DEF can_release_interfaces
  <2> DEFINE new == [i \in Slots |-> Cleared(can_interface[i])]
  <2>2. /\ Table(new)
        /\ \A i \in Slots : new[i].vendor = "NONE"
        /\ \A v \in VendorName : ViewOf(new, v) = ClearedIn(ViewOf(can_interface, v), Slots)
    BY ONLY Table(can_interface), ClearsAll
  <2> QED BY <2>1, <2>2
<1>2. /\ PeakView' = ClearedIn(PeakView, Slots)
      /\ KvaserView' = ClearedIn(KvaserView, Slots)
      /\ IxxatView' = ClearedIn(IxxatView, Slots)
      /\ SoftingView' = ClearedIn(SoftingView, Slots)
  BY <1>1, PrimedViews DEF VendorName, PeakView, KvaserView, IxxatView, SoftingView
<1>3. \A v, i : i \in Of(v) <=> i \in Slots /\ can_interface[i].vendor = v
  BY DEF Of, Vendor
<1>4. PV!Agree(PeakView', peak_init')
  <2>1. peak_init' = PV!Uninitialized(Of("PEAK"))
    BY PeakCloses DEF can_release_interfaces
  <2>2. \A i : PV!OnPeak(i) <=> i \in Slots /\ can_interface[i].vendor = "PEAK"
    BY PeakSees DEF P!OnPeak, P!Slots, Slots
  <2>3. PV!ChannelsOf(Of("PEAK")) = PV!ChannelsOf(Slots)
    BY <1>3, <2>2 DEF PV!ChannelsOf
  <2>4. PV!ReleaseSlots(Slots)
    BY <1>2, <2>1, <2>3 DEF PV!ReleaseSlots, PV!Uninitialized, PV!Slots, Slots, PV!Cleared,
       Cleared, ClearedIn
  <2> QED BY <2>4, PeakAssumes, PV!ReleaseAgrees DEF Views, PV!Slots, Slots
<1>5. KV!Agree(KvaserView', kvaser_handle')
  <2>1. \A i \in Of("KVASER") : KvaserView[i] = can_interface[i]
    BY <1>3 DEF KvaserView, ViewOf
  <2>2. kvaser_handle' = KV!CloseHandles(Of("KVASER"))
    BY <2>1, KvaserCloses DEF can_release_interfaces
  <2>3. ASSUME NEW i \in Slots, KV!HasHandle(KvaserView[i])
        PROVE  i \in Of("KVASER")
    <3>1. KvaserView[i].internal # NULL /\ KV!Sound(KvaserView[i])
      BY <2>3 DEF KV!HasHandle, KV!Sound, Views, KV!Agree, KV!Slots, Slots
    <3>2. KvaserView[i].vendor # "NONE" /\ KvaserView[i] \in KV!IfaceType
      BY <3>1 DEF KV!Sound, Views, KV!Agree, KV!Slots, Slots
    <3>3. KvaserView[i].vendor = "KVASER"
      BY <3>2 DEF KV!IfaceType, KV!Iface
    <3>4. "KVASER" \in VendorName
      BY DEF VendorName
    <3> QED BY <1>3, <3>3, <3>4, ViewIs DEF KvaserView
  <2>4. KV!CloseHandles(Of("KVASER")) = KV!CloseHandles(Slots)
    BY <1>3, <2>3 DEF KV!CloseHandles
  <2>5. \A i \in Slots : Cleared(KV!CloseIface(KvaserView[i])) = Cleared(KvaserView[i])
    BY KvaserClears DEF Views, KV!Agree, KV!Slots, Slots
  <2>6. KV!ReleaseSlots(Slots)
    BY <1>2, <2>2, <2>4, <2>5 DEF KV!ReleaseSlots, KV!Slots, Slots, KV!Cleared, Cleared,
       ClearedIn
  <2>7. Slots \in SUBSET KV!Slots
    BY DEF KV!Slots, Slots
  <2> QED BY <2>6, <2>7, KvaserAssumes, KV!ReleaseAgrees DEF Views
<1>6. XV!Agree(IxxatView', ixxat_refs', ixxat_line')
  <2>1. /\ ixxat_refs' = XV!RefsWithout(Of("IXXAT"))
        /\ ixxat_line' = XV!LineWithout(Of("IXXAT"))
    BY IxxatCloses DEF can_release_interfaces
  <2>2. ASSUME NEW k
        PROVE  {i \in Of("IXXAT") : k \in XV!Held(i)} = {i \in Slots : k \in XV!Held(i)}
    <3>1. ASSUME NEW i \in Slots, k \in XV!Held(i)
          PROVE  i \in Of("IXXAT")
      BY <1>3, <3>1, IxxatSees DEF XV!Held, X!OnIxxat
    <3> QED BY <1>3, <3>1
  <2>3. /\ XV!RefsWithout(Of("IXXAT")) = XV!RefsWithout(Slots)
        /\ XV!LineWithout(Of("IXXAT")) = XV!LineWithout(Slots)
    BY <2>2 DEF XV!RefsWithout, XV!LineWithout
  <2>4. XV!ReleaseSlots(Slots)
    BY <1>2, <2>1, <2>3 DEF XV!ReleaseSlots, XV!Slots, Slots, XV!Cleared, Cleared, ClearedIn
  <2>5. Slots \in SUBSET XV!Slots
    BY DEF XV!Slots, Slots
  <2> QED BY <2>4, <2>5, IxxatAssumes, XV!ReleaseAgrees DEF Views
<1>7. SV!Agree(SoftingView', softing_chan')
  <2>1. softing_chan' = SV!CloseHandles(Of("SOFTING"))
    BY SoftingCloses DEF can_release_interfaces
  <2>2. ASSUME NEW i \in Slots, SV!hChannel(i) # NoHandle
        PROVE  i \in Of("SOFTING")
    BY <1>3, <2>2, SoftingSees DEF SV!hChannel, S!OnSofting
  <2>3. NoHandle \notin SoftingHandle
    BY SoftingAssumes DEF SV!SoftingAssumption
  <2>4. SV!CloseHandles(Of("SOFTING")) = SV!CloseHandles(Slots)
    BY <1>3, <2>2, <2>3 DEF SV!CloseHandles
  <2>5. SV!ReleaseSlots(Slots)
    BY <1>2, <2>1, <2>4 DEF SV!ReleaseSlots, SV!Slots, Slots, SV!Cleared, Cleared, ClearedIn
  <2>6. Slots \in SUBSET SV!Slots
    BY DEF SV!Slots, Slots
  <2> QED BY <2>5, <2>6, SoftingAssumes, SV!ReleaseAgrees DEF Views
<1> QED BY <1>1, <1>4, <1>5, <1>6, <1>7 DEF Kept, NoNewIxxat

-----------------------------------------------------------------------------
(* The invariant, step by step *)

\* The primed operators, expanded for the provers.
LEMMA KeptPrimed ==
  ASSUME Kept
  PROVE  Table(can_interface)' /\ Views'
<1>1. Table(can_interface)'
  BY DEF Kept, Table, Vacant
<1>2. PV!Agree(PeakView, peak_init)'
  BY DEF Kept, PV!Agree, PV!Sound, PV!lookup_bus_name
<1>3. KV!Agree(KvaserView, kvaser_handle)'
  BY DEF Kept, KV!Agree, KV!Sound, KV!HasHandle
<1>4. XV!Agree(IxxatView, ixxat_refs, ixxat_line)'
  BY DEF Kept, XV!Agree, XV!Sound, XV!Sock, XV!Holds, XV!Holding, XV!Name
<1>5. SV!Agree(SoftingView, softing_chan)'
  BY DEF Kept, SV!Agree, SV!Sound, SV!HasHandle
<1> QED BY <1>1, <1>2, <1>3, <1>4, <1>5 DEF Views

LEMMA Stays ==
  ASSUME Table(can_interface), Views,
         UNCHANGED <<can_interface, peak_init, kvaser_handle, ixxat_refs, softing_chan>>,
         ixxat_line' \in SUBSET ixxat_line
  PROVE  Kept /\ NoNewIxxat
<1>1. IxxatKept
  BY IxxatStays DEF Views
<1> QED BY <1>1, IxxatActs DEF NoNewIxxat

\* A call leaves what a scan keeps between its steps alone.
LEMMA CallsLeaveScans ==
  ASSUME NEW i
  PROVE  /\ PeakCall(i) => UNCHANGED <<peak_attached, peak_count, peak_list>>
         /\ KvaserCall(i) => UNCHANGED <<kvaser_bus, kvaser_next, kvaser_count>>
<1>1. PeakCall(i) => UNCHANGED <<peak_attached, peak_count, peak_list>>
  BY DEF PeakCall, P!can_open, P!can_set_baudrate, P!can_close, P!can_release, P!can_update,
     P!can_send, P!can_recv, P!scan
<1>2. KvaserCall(i) => UNCHANGED <<kvaser_bus, kvaser_next, kvaser_count>>
  BY DEF KvaserCall, K!can_open, K!can_set_baudrate, K!can_close, K!can_release,
     K!can_update, K!can_send, K!can_recv, K!scan, K!canlib
<1> QED BY <1>1, <1>2

StepKept == Kept /\ PeakScan' /\ KvaserScan' /\ Loaded'

\* What Loaded asks of a step that finds nothing new of Ixxat's, or finds it with
\* vciapi.dll loaded.
LEMMA LoadedKept ==
  ASSUME Loaded, NoNewIxxat \/ dll = "loaded", UNCHANGED <<dll, asking, toAsk>>
  PROVE  Loaded'
  BY DEF Loaded, IxxatNeedsDll, NoNewIxxat, Vendor

LEMMA ScanSteps ==
  ASSUME IInv, Scan
  PROVE  StepKept
<1>1. UNCHANGED <<dll, asking, toAsk>>
  BY DEF Scan, asked
<1>2. CASE asking = "IXXAT" /\ X!Scan /\ UNCHANGED <<peak, kvaser, softing>>
  <2>1. dll = "loaded" /\ IxxatKept
    BY <1>2, IxxatScans DEF IInv, Loaded
  <2>2. UNCHANGED <<peak_init, kvaser_handle, softing_chan>> /\ PeakScan' /\ KvaserScan'
    BY <1>2 DEF peak, kvaser, softing, IInv, PeakScan, KvaserScan
  <2> QED BY <1>1, <2>1, <2>2, IxxatActs, LoadedKept DEF IInv, StepKept
<1>3. CASE /\ P!peak_list \/ P!peak_find_channel \/ P!peak_find_end
           /\ UNCHANGED <<kvaser, ixxat, softing>>
  <2>1. PeakKept /\ PeakScan'
    BY <1>3, PeakScans DEF IInv
  <2>2. UNCHANGED <<kvaser_handle, ixxat_refs, ixxat_line, softing_chan>> /\ KvaserScan'
    BY <1>3 DEF kvaser, ixxat, softing, IInv, KvaserScan
  <2> QED BY <1>1, <2>1, <2>2, PeakActs, LoadedKept DEF IInv, StepKept
<1>4. CASE /\ K!kvaser_find_channel \/ K!kvaser_find_end
           /\ UNCHANGED <<peak, ixxat, softing>>
  <2>1. KvaserKept /\ KvaserScan'
    BY <1>4, KvaserScans DEF IInv
  <2>2. UNCHANGED <<peak_init, ixxat_refs, ixxat_line, softing_chan>> /\ PeakScan'
    BY <1>4 DEF peak, ixxat, softing, IInv, PeakScan
  <2> QED BY <1>1, <2>1, <2>2, KvaserActs, LoadedKept DEF IInv, StepKept
<1>5. CASE S!Scan /\ UNCHANGED <<peak, kvaser, ixxat>>
  <2>1. SoftingKept
    BY <1>5, SoftingScans DEF IInv
  <2>2. UNCHANGED <<peak_init, kvaser_handle, ixxat_refs, ixxat_line>>
        /\ PeakScan' /\ KvaserScan'
    BY <1>5 DEF peak, kvaser, ixxat, IInv, PeakScan, KvaserScan
  <2> QED BY <1>1, <2>1, <2>2, SoftingActs, LoadedKept DEF IInv, StepKept
<1> QED BY <1>2, <1>3, <1>4, <1>5 DEF Scan

LEMMA DispatchSteps ==
  ASSUME IInv, NEW i \in CallIndex, Dispatch(i)
  PROVE  StepKept
<1>1. UNCHANGED <<dll, asking, toAsk>>
  BY DEF Dispatch, asked
<1>2. CASE /\ Vendor(i) \in {"PEAK", "NONE"} /\ PeakCall(i)
           /\ UNCHANGED <<kvaser, ixxat, softing>>
  <2>1. PeakKept
    BY <1>2, PeakCalls DEF IInv, Views
  <2>2. UNCHANGED <<kvaser_handle, ixxat_refs, ixxat_line, softing_chan>>
        /\ PeakScan' /\ KvaserScan'
    BY <1>2, CallsLeaveScans DEF kvaser, ixxat, softing, IInv, PeakScan, KvaserScan
  <2> QED BY <1>1, <2>1, <2>2, PeakActs, LoadedKept DEF IInv, StepKept
<1>3. CASE Vendor(i) = "KVASER" /\ KvaserCall(i) /\ UNCHANGED <<peak, ixxat, softing>>
  <2>1. KvaserKept
    BY <1>3, KvaserCalls DEF IInv, Views
  <2>2. UNCHANGED <<peak_init, ixxat_refs, ixxat_line, softing_chan>>
        /\ PeakScan' /\ KvaserScan'
    BY <1>3, CallsLeaveScans DEF peak, ixxat, softing, IInv, PeakScan, KvaserScan
  <2> QED BY <1>1, <2>1, <2>2, KvaserActs, LoadedKept DEF IInv, StepKept
<1>4. CASE Vendor(i) = "IXXAT" /\ IxxatCall(i) /\ UNCHANGED <<peak, kvaser, softing>>
  <2>1. dll = "loaded"
    BY <1>4 DEF IInv, Loaded, IxxatNeedsDll, Vendor
  <2>2. IxxatKept
    BY <1>4, IxxatCalls DEF IInv, Views
  <2>3. UNCHANGED <<peak_init, kvaser_handle, softing_chan>> /\ PeakScan' /\ KvaserScan'
    BY <1>4 DEF peak, kvaser, softing, IInv, PeakScan, KvaserScan
  <2> QED BY <1>1, <2>1, <2>2, <2>3, IxxatActs, LoadedKept DEF IInv, StepKept
<1>5. CASE Vendor(i) = "SOFTING" /\ SoftingCall(i) /\ UNCHANGED <<peak, kvaser, ixxat>>
  <2>1. SoftingKept
    BY <1>5, SoftingCalls DEF IInv, Views
  <2>2. UNCHANGED <<peak_init, kvaser_handle, ixxat_refs, ixxat_line>>
        /\ PeakScan' /\ KvaserScan'
    BY <1>5 DEF peak, kvaser, ixxat, IInv, PeakScan, KvaserScan
  <2> QED BY <1>1, <2>1, <2>2, SoftingActs, LoadedKept DEF IInv, StepKept
<1> QED BY <1>2, <1>3, <1>4, <1>5 DEF Dispatch

\* Boards and channels come and go.
LEMMA EnvironmentSteps ==
  ASSUME IInv, Environment
  PROVE  StepKept
<1>1. UNCHANGED <<dll, asking, toAsk>>
  BY DEF Environment, asked
<1>2. /\ UNCHANGED <<can_interface, peak_init, kvaser_handle, ixxat_refs, softing_chan>>
      /\ ixxat_line' \in SUBSET ixxat_line
      /\ PeakScan' /\ KvaserScan'
  <2>1. CASE P!Environment /\ UNCHANGED <<kvaser, ixxat, softing>>
    BY <2>1, PeakEnvironment DEF kvaser, ixxat, softing, IInv, KvaserScan
  <2>2. CASE K!Environment /\ UNCHANGED <<peak, ixxat, softing>>
    BY <2>2, KvaserEnvironment DEF peak, ixxat, softing, IInv, PeakScan
  <2>3. CASE X!Environment /\ UNCHANGED <<peak, kvaser, softing>>
    BY <2>3, IxxatQuiet DEF peak, kvaser, softing, IInv, PeakScan, KvaserScan
  <2>4. CASE S!Environment /\ UNCHANGED <<peak, kvaser, ixxat>>
    BY <2>4, SoftingQuiet DEF peak, kvaser, ixxat, IInv, PeakScan, KvaserScan
  <2> QED BY <2>1, <2>2, <2>3, <2>4 DEF Environment
<1> QED BY <1>1, <1>2, Stays, LoadedKept DEF IInv, StepKept

\* can_find_interfaces_mask goes from one back-end to the next.
LEMMA FindSteps ==
  ASSUME IInv, (\E mask \in Masks : can_find_interfaces_mask(mask)) \/ Ask \/ AskEnd
  PROVE  StepKept
<1>1. ASSUME NEW mask \in Masks, can_find_interfaces_mask(mask)
      PROVE  StepKept
  <2>1. Kept /\ PeakScan' /\ KvaserScan'
    BY <1>1, Stays DEF can_find_interfaces_mask, peak, kvaser, ixxat, softing, IInv, PeakScan,
       KvaserScan
  <2>2. can_interface' = can_interface /\ (dll = "loaded" => dll' = "loaded")
    BY <1>1 DEF can_find_interfaces_mask
  <2>3. \/ UNCHANGED <<dll, asking, toAsk>>
        \/ asking' # "IXXAT" /\ ("IXXAT" \in toAsk' => dll' = "loaded")
    BY <1>1 DEF can_find_interfaces_mask, asked, Asks
  <2>4. Loaded'
    BY <2>2, <2>3 DEF IInv, Loaded, IxxatNeedsDll, Vendor
  <2> QED BY <2>1, <2>4 DEF StepKept
<1>2. CASE Ask
  <2>1. /\ UNCHANGED <<can_interface, peak_init, kvaser_handle, ixxat_refs, softing_chan>>
        /\ ixxat_line' \in SUBSET ixxat_line
        /\ PeakScan' /\ KvaserScan'
    <3>1. CASE X!can_find_interfaces_mask(TRUE) /\ UNCHANGED <<peak, kvaser, softing>>
      BY <3>1, IxxatQuiet DEF peak, kvaser, softing, IInv, PeakScan, KvaserScan
    <3>2. CASE P!can_find_interfaces_mask(TRUE) /\ UNCHANGED <<kvaser, ixxat, softing>>
      BY <3>2, PeakAsked DEF kvaser, ixxat, softing, IInv, KvaserScan
    <3>3. CASE K!can_find_interfaces_mask(TRUE) /\ UNCHANGED <<peak, ixxat, softing>>
      BY <3>3, KvaserAsked DEF peak, ixxat, softing, IInv, PeakScan
    <3>4. CASE S!can_find_interfaces_mask(TRUE) /\ UNCHANGED <<peak, kvaser, ixxat>>
      BY <3>4, SoftingQuiet DEF peak, kvaser, ixxat, IInv, PeakScan, KvaserScan
    <3> QED BY <1>2, <3>1, <3>2, <3>3, <3>4 DEF Ask
  <2>2. UNCHANGED dll /\ asking' \in toAsk /\ toAsk' \subseteq toAsk
    BY <1>2 DEF Ask
  <2>3. Loaded'
    BY <2>1, <2>2 DEF IInv, Loaded, IxxatNeedsDll, Vendor
  <2> QED BY <2>1, <2>3, Stays DEF IInv, StepKept
<1>3. CASE AskEnd
  <2>1. Kept /\ PeakScan' /\ KvaserScan'
    BY <1>3, Stays DEF AskEnd, peak, kvaser, ixxat, softing, IInv, PeakScan, KvaserScan
  <2>2. UNCHANGED <<can_interface, dll, toAsk>> /\ asking' = NULL
    BY <1>3 DEF AskEnd
  <2>3. "IXXAT" \notin toAsk' /\ NULL # "IXXAT"
    <3>1. "IXXAT" \in ToSet(Vendors)
      BY DEF ToSet, Vendors
    <3> QED BY <1>3, <3>1, WindowsAssumption DEF AskEnd
  <2>4. Loaded'
    BY <2>2, <2>3 DEF IInv, Loaded, IxxatNeedsDll, Vendor
  <2> QED BY <2>1, <2>4 DEF StepKept
<1> QED BY <1>1, <1>2, <1>3

LEMMA NextIInv == ASSUME IInv, [Next]_vars PROVE IInv'
<1>1. ASSUME UNCHANGED <<can_interface, dll, asking, toAsk, peak_init, kvaser_handle,
                         ixxat_refs, ixxat_line, softing_chan>>,
             PeakScan', KvaserScan'
      PROVE  StepKept
  BY <1>1, Stays, LoadedKept DEF IInv, StepKept
<1>2. ASSUME can_release_interfaces
      PROVE  StepKept
  <2>1. UNCHANGED <<dll, asking, toAsk>> /\ PeakScan' /\ KvaserScan'
    BY <1>2 DEF can_release_interfaces, asked, IInv, PeakScan, KvaserScan
  <2> QED BY <1>2, <2>1, AllReleased, LoadedKept DEF IInv, StepKept
<1>3. ASSUME NEW i \in CallIndex, NEW bad \in BOOLEAN, can_get(i, bad)
      PROVE  StepKept
  BY <1>1, <1>3 DEF can_get, Get, asked, peak, kvaser, ixxat, softing, IInv, PeakScan,
     KvaserScan
<1>4. ASSUME X!ixxat_recv_entry, UNCHANGED <<dll, asked, peak, kvaser, softing>>
      PROVE  StepKept
  BY <1>1, <1>4, IxxatQuiet DEF asked, peak, kvaser, softing, IInv, PeakScan, KvaserScan
<1>5. ASSUME UNCHANGED vars
      PROVE  StepKept
  BY <1>1, <1>5 DEF vars, asked, peak, kvaser, ixxat, softing, IInv, PeakScan, KvaserScan
<1>6. StepKept
  <2>1. ASSUME Next
        PROVE  StepKept
    BY <2>1, <1>2, <1>3, <1>4, FindSteps, ScanSteps, DispatchSteps, EnvironmentSteps DEF Next
  <2> QED BY <2>1, <1>5
<1> QED BY <1>6, KeptPrimed DEF StepKept, IInv

LEMMA InitIInv == ASSUME Init PROVE IInv
<1>1. /\ can_interface \in [Slots -> WinIface]
      /\ \A i \in Slots : can_interface[i].vendor = "NONE" /\ Vacant(can_interface[i])
  BY TableAssumption DEF Init, P!Init, P!Slots, Slots, P!ZeroIface, WinIface, AnyBaud, Vacant
<1>2. Table(can_interface)
  BY <1>1 DEF Table, Vacant
<1>3. ASSUME NEW v \in VendorName
      PROVE  ViewOf(can_interface, v) = can_interface
  <2>1. \A i \in Slots : ViewOf(can_interface, v)[i] = can_interface[i]
    BY <1>1, <1>2, ViewIs
  <2> QED BY <1>1, <2>1 DEF ViewOf
<1>4. /\ PeakView = can_interface /\ KvaserView = can_interface
      /\ IxxatView = can_interface /\ SoftingView = can_interface
  BY <1>3 DEF VendorName, PeakView, KvaserView, IxxatView, SoftingView
<1>5. PV!Agree(PeakView, peak_init)
  <2>1. PV!Init
    BY <1>4 DEF Init, P!Init, PV!Init, P!Slots, PV!Slots, P!ZeroIface, PV!ZeroIface,
       P!NoCall, PV!NoCall
  <2> QED BY <2>1, PeakAssumes, PV!InitIInv DEF PV!IInv
<1>6. KV!Agree(KvaserView, kvaser_handle)
  <2>1. KV!Init
    BY <1>4 DEF Init, K!Init, KV!Init, K!Slots, KV!Slots, K!ZeroIface, KV!ZeroIface,
       K!NoCall, KV!NoCall, K!Channel, KV!Channel
  <2> QED BY <2>1, KvaserAssumes, KV!InitIInv DEF KV!IInv
<1>7. XV!Agree(IxxatView, ixxat_refs, ixxat_line)
  <2>1. XV!Init
    BY <1>4 DEF Init, X!Init, XV!Init, X!Slots, XV!Slots, X!ZeroIface, XV!ZeroIface,
       X!NoCall, XV!NoCall, X!Kind, XV!Kind, X!Fifo, XV!Fifo
  <2> QED BY <2>1, IxxatAssumes, XV!Initially DEF XV!IInv
<1>8. SV!Agree(SoftingView, softing_chan)
  <2>1. SV!Init
    BY <1>4 DEF Init, S!Init, SV!Init, S!Slots, SV!Slots, S!ZeroIface, SV!ZeroIface,
       S!NoCall, SV!NoCall
  <2> QED BY <2>1, SoftingAssumes, SV!InitIInv DEF SV!IInv
<1>9. PeakScan /\ KvaserScan
  BY KvaserAssumes DEF Init, P!Init, K!Init, PeakScan, KvaserScan, K!Channel, KV!Channel,
     KV!KvaserAssumption
<1>10. Loaded
  <2>1. NULL # "IXXAT"
    <3>1. "IXXAT" \in ToSet(Vendors)
      BY DEF ToSet, Vendors
    <3> QED BY <3>1, WindowsAssumption
  <2> QED BY <1>1, <2>1 DEF Init, Loaded, IxxatNeedsDll, Vendor
<1> QED BY <1>2, <1>5, <1>6, <1>7, <1>8, <1>9, <1>10 DEF IInv, Views

LEMMA Invariant == Spec => []IInv
  BY InitIInv, NextIInv, PTL DEF Spec

-----------------------------------------------------------------------------
(* Theorems *)

\* A name is registered under one index only, although four back-ends register
\* names in the one table and each looks for a free slot and for the name on its
\* own.
THEOREM NamesAreUnique == Spec => []UniqueNames
<1>1. IInv => UniqueNames
  BY DEF IInv, Table, UniqueNames, Free
<1> QED BY <1>1, Invariant, PTL

\* A context in the table is of the kind the slot's vendor takes it for.
LEMMA ContextsMatch == ASSUME IInv PROVE ContextsMatchVendors
<1> SUFFICES ASSUME NEW i \in Slots
             PROVE  LET c == can_interface[i].internal IN
                    /\ Vendor(i) = "NONE" <=> c = NULL
                    /\ Vendor(i) = "PEAK" => c \in PV!TPCANHandle
                    /\ Vendor(i) = "KVASER" => c \in K!kvaser_channel_info_t
                    /\ Vendor(i) = "IXXAT" => c \in X!ixxat_ctx_t
                    /\ Vendor(i) = "SOFTING" => c \in S!softing_ctx_t
  BY SameHandles DEF ContextsMatchVendors
<1> DEFINE x == can_interface[i]
<1>1. /\ Vendor(i) = x.vendor /\ x.vendor \in VendorName \cup {"NONE"}
      /\ x.vendor = "NONE" => x.internal = NULL
  BY DEF IInv, Table, WinIface, Vacant, Vendor
<1>2. CASE x.vendor = "PEAK"
  <2>1. PeakView[i] = x
    BY <1>2 DEF PeakView, ViewOf
  <2>2. x \in PV!IfaceType /\ PV!Sound(x)
    BY <2>1 DEF IInv, Views, PV!Agree, PV!Slots, Slots
  <2>3. x.internal # NULL /\ x.internal \in PV!TPCANHandle
    <3>1. x.name # NULL
      BY <1>2, <2>2 DEF PV!Sound
    <3> QED BY <2>2, <3>1 DEF PV!IfaceType, PV!Iface, PV!Sound
  <2> QED BY <1>1, <1>2, <2>3
<1>3. CASE x.vendor = "KVASER"
  <2>1. KvaserView[i] = x
    BY <1>3 DEF KvaserView, ViewOf
  <2>2. x \in KV!IfaceType /\ KV!Sound(x)
    BY <2>1 DEF IInv, Views, KV!Agree, KV!Slots, Slots
  <2>3. x.internal # NULL /\ x.internal \in KV!kvaser_channel_info_t
    BY <1>3, <2>2 DEF KV!IfaceType, KV!Iface, KV!Sound
  <2>4. K!kvaser_channel_info_t = KV!kvaser_channel_info_t
    BY DEF K!kvaser_channel_info_t, KV!kvaser_channel_info_t, K!Channel, KV!Channel
  <2> QED BY <1>1, <1>3, <2>3, <2>4
<1>4. CASE x.vendor = "IXXAT"
  <2>1. IxxatView[i] = x
    BY <1>4 DEF IxxatView, ViewOf
  <2>2. x \in XV!IfaceType /\ XV!Sound(x)
    BY <2>1 DEF IInv, Views, XV!Agree, XV!Slots, Slots
  <2>3. x.internal # NULL /\ x.internal \in XV!ixxat_ctx_t
    BY <1>4, <2>2 DEF XV!IfaceType, XV!Iface, XV!Sound
  <2>4. X!ixxat_ctx_t = XV!ixxat_ctx_t
    BY DEF X!ixxat_ctx_t, XV!ixxat_ctx_t, X!Kind, XV!Kind, X!Fifo, XV!Fifo
  <2> QED BY <1>1, <1>4, <2>3, <2>4
<1>5. CASE x.vendor = "SOFTING"
  <2>1. SoftingView[i] = x
    BY <1>5 DEF SoftingView, ViewOf
  <2>2. x \in SV!IfaceType /\ SV!Sound(x)
    BY <2>1 DEF IInv, Views, SV!Agree, SV!Slots, Slots
  <2>3. x.internal # NULL /\ x.internal \in SV!softing_ctx_t
    BY <1>5, <2>2 DEF SV!IfaceType, SV!Iface, SV!Sound
  <2>4. S!softing_ctx_t = SV!softing_ctx_t
    BY DEF S!softing_ctx_t, SV!softing_ctx_t
  <2> QED BY <1>1, <1>5, <2>3, <2>4
<1> QED BY <1>1, <1>2, <1>3, <1>4, <1>5 DEF VendorName

\* A slot with a PCAN-Basic handle for its context is PEAK's.
LEMMA PeakContext ==
  ASSUME IInv, NEW i \in Slots, can_interface[i].internal \in PV!TPCANHandle
  PROVE  /\ can_interface[i].vendor = "PEAK" /\ PeakView[i] = can_interface[i]
         /\ can_interface[i].name = PV!lookup_bus_name(can_interface[i].internal)
         /\ can_interface[i].name # NULL
<1> DEFINE x == can_interface[i]
<1>1. x.vendor \in VendorName \cup {"NONE"} /\ Vendor(i) = x.vendor
  BY DEF IInv, Table, WinIface, Vendor
<1>2. x.internal # NULL
  BY SameHandles
<1>3. x.vendor = "PEAK"
  <2>1. /\ x.internal \notin K!kvaser_channel_info_t
        /\ x.internal \notin X!ixxat_ctx_t /\ x.internal \notin S!softing_ctx_t
    BY SameHandles, WindowsAssumption
  <2> QED BY <1>1, <1>2, <2>1, ContextsMatch DEF ContextsMatchVendors, VendorName
<1>4. PeakView[i] = x
  BY <1>3 DEF PeakView, ViewOf
<1>5. PV!Sound(x)
  BY <1>4 DEF IInv, Views, PV!Agree, PV!Slots, Slots
<1> QED BY <1>2, <1>3, <1>4, <1>5 DEF PV!Sound

LEMMA PeakOwned == ASSUME IInv PROVE P!InitializedOwned
<1>1. /\ peak_init \subseteq PeakChannel
      /\ \A c \in peak_init : \E i \in Slots : PeakView[i].internal = c /\ PeakView[i].opened = 1
  BY DEF IInv, Views, PV!Agree, PV!Slots, Slots
<1>2. ASSUME NEW c \in peak_init
      PROVE  \E i \in Slots : can_interface[i].internal = c /\ can_interface[i].opened = 1
  <2>1. PICK i \in Slots : PeakView[i].internal = c /\ PeakView[i].opened = 1
    BY <1>1, <1>2
  <2>2. ASSUME can_interface[i].vendor # "PEAK" PROVE FALSE
    <3>1. PeakView[i] = Cleared(can_interface[i]) /\ can_interface[i] \in WinIface
      BY <2>2 DEF PeakView, ViewOf, IInv, Table
    <3> QED BY <2>1, <3>1, WinCleared DEF Vacant
  <2>3. PeakView[i] = can_interface[i]
    BY <2>2 DEF PeakView, ViewOf
  <2> QED BY <2>1, <2>3
<1>3. ASSUME NEW i \in Slots, NEW j \in Slots, can_interface[i].internal \in PeakChannel,
             can_interface[j].internal = can_interface[i].internal
      PROVE  i = j
  BY <1>3, PeakContext, SameHandles DEF IInv, Table
<1>4. ASSUME NEW i \in Slots, can_interface[i].internal \in peak_init
      PROVE  can_interface[i].opened = 1
  <2>1. PICK k \in Slots : /\ can_interface[k].internal = can_interface[i].internal
                           /\ can_interface[k].opened = 1
    BY <1>2, <1>4
  <2> QED BY <1>1, <1>3, <1>4, <2>1
<1>5. \A c : P!lookup_bus_name(c) = PV!lookup_bus_name(c)
  BY DEF P!lookup_bus_name, PV!lookup_bus_name
<1>6. P!Slots = Slots
  BY DEF P!Slots, Slots
<1> QED BY <1>1, <1>2, <1>3, <1>4, <1>5, <1>6, PeakContext, SameHandles
        DEF P!InitializedOwned, P!ReallyOpen

LEMMA KvaserOwned == ASSUME IInv PROVE K!HandlesOwned
<1>1. KV!HandlesOwned
  BY KvaserAssumes, KV!AgreeOwned DEF IInv, Views
<1>2. K!Slots = KV!Slots
  BY DEF K!Slots, KV!Slots
<1>3. \A i : /\ K!OnKvaser(i) <=> KV!OnKvaser(i)
             /\ K!OnKvaser(i) => KvaserView[i] = can_interface[i]
  BY KvaserSees DEF IInv
<1>4. \A i : K!OnKvaser(i) => K!HandleOf(i) = KV!HandleOf(i)
  BY <1>3 DEF K!HandleOf, KV!HandleOf
<1> QED BY <1>1, <1>2, <1>3, <1>4 DEF K!HandlesOwned, KV!HandlesOwned

LEMMA IxxatOwned == ASSUME IInv PROVE X!RefsHeld
<1>1. /\ X!Kind = XV!Kind /\ \A T : X!Cardinality(T) = XV!Cardinality(T)
      /\ X!Slots = XV!Slots
  BY DEF X!Kind, XV!Kind, X!Fifo, XV!Fifo, X!Cardinality, XV!Cardinality,
     X!IsFiniteSet, XV!IsFiniteSet, X!Slots, XV!Slots
<1>2. \A i : X!Held(i) = XV!Held(i) /\ (X!OnIxxat(i) => X!SocketOf(i) = XV!SocketOf(i))
  BY IxxatSees DEF IInv
<1>3. \A k : X!Holders(k) = XV!Holding(IxxatView, k)
  BY <1>1, <1>2, XV!HoldersAre, IxxatAssumes DEF X!Holders, XV!Holders
<1>4. \A k \in X!Kind : X!Cardinality(X!Holders(k)) <= ixxat_refs[k]
  BY <1>1, <1>3 DEF IInv, Views, XV!Agree
<1>5. ASSUME NEW s \in ixxat_line
      PROVE  \E i \in X!Holders("can") : s = X!SocketOf(i)
  <2>1. PICK i \in XV!Slots : "can" \in XV!Holds(IxxatView[i]) /\ s = XV!Sock(IxxatView[i])
    BY <1>5 DEF IInv, Views, XV!Agree
  <2>2. i \in X!Holders("can")
    BY <1>3, <2>1 DEF XV!Holding
  <2>3. X!OnIxxat(i)
    BY <2>2 DEF X!Holders, X!Held
  <2>4. X!SocketOf(i) = XV!Sock(IxxatView[i])
    BY <1>2, <2>3, XV!HoldersAre, IxxatAssumes
  <2> QED BY <2>1, <2>2, <2>4
<1> QED BY <1>4, <1>5 DEF X!RefsHeld

LEMMA SoftingOwned == ASSUME IInv PROVE S!HandlesOwned
<1>1. SV!HandlesOwned
  BY SoftingAssumes, SV!AgreeOwned DEF IInv, Views
<1>2. S!Slots = SV!Slots
  BY DEF S!Slots, SV!Slots
<1>3. \A i : /\ S!hChannel(i) = SV!hChannel(i)
             /\ S!OnSofting(i) => SoftingView[i] = can_interface[i]
             /\ S!hChannel(i) # NoHandle => S!OnSofting(i)
  BY SoftingSees DEF IInv, S!hChannel
<1> QED BY <1>1, <1>2, <1>3 DEF S!HandlesOwned, SV!HandlesOwned

\* Every context is of the kind its slot's vendor takes it for, Ixxat has slots
\* only with vciapi.dll, and what each back-end has open is what its slots say:
\* whatever calls, scans, closes and releases of the other back-ends came between.
THEOREM WindowsTableHolds == Spec => []WindowsTable
<1>1. IInv => WindowsTable
  BY ContextsMatch, PeakOwned, KvaserOwned, IxxatOwned, SoftingOwned
     DEF WindowsTable, OthersLeftAlone, IInv, Loaded
<1> QED BY <1>1, Invariant, PTL

-----------------------------------------------------------------------------
(* The four back-ends together implement CanLifecycle *)

\* The slots whose devices are open.
OpenSlots == {i \in Slots : HasOpen(can_interface[i])}

\* Slot i alone may change, and is still its device's or is given back; what is open
\* of the other slots stays so.
Changes(i) ==
  /\ \A j \in Slots \ {i} : can_interface'[j] = can_interface[j]
  /\ i \in Slots =>
       \/ /\ can_interface'[i].name = can_interface[i].name
          /\ can_interface'[i].vendor = can_interface[i].vendor
       \/ can_interface'[i] = Cleared(can_interface[i])

Only(i) == Changes(i) /\ \A j \in Slots \ {i} : j \in OpenSlots' <=> j \in OpenSlots

\* A slot without a name has nothing open.
LEMMA FreeIsClosed ==
  ASSUME IInv, NEW i \in Slots, can_interface[i].name = NULL
  PROVE  can_interface[i].vendor = "NONE" /\ i \notin OpenSlots
<1>1. can_interface[i].vendor = "NONE"
  BY FreeIsNone DEF IInv, Free
<1> QED BY <1>1 DEF OpenSlots, HasOpen

LEMMA OnlyMaps ==
  ASSUME IInv, NEW i, Only(i)
  PROVE  [Lifecycle!Next]_(Lifecycle!vars)
<1> DEFINE dev == [j \in Slots |-> can_interface[j].name]
<1>1. dev' = [j \in Slots |-> can_interface'[j].name]
  BY DEF Slots
<1>2. Slots = Lifecycle!Index
  BY DEF Slots, Lifecycle!Index
<1>3. OpenSlots \subseteq Slots /\ OpenSlots' \subseteq Slots
  BY DEF OpenSlots, Slots
<1>4. \A j \in Slots \ {i} : dev'[j] = dev[j] /\ (j \in OpenSlots' <=> j \in OpenSlots)
  BY <1>1 DEF Only, Changes
<1>5. CASE i \notin Slots
  <2>1. dev' = dev /\ OpenSlots' = OpenSlots
    BY <1>1, <1>3, <1>4, <1>5
  <2> QED BY <2>1 DEF Lifecycle!vars, OpenSlots
<1>6. CASE i \in Slots /\ can_interface'[i] = Cleared(can_interface[i])
  <2>1. can_interface[i] \in WinIface
    BY <1>6 DEF IInv, Table
  <2>2. dev'[i] = NULL /\ i \notin OpenSlots'
    BY <1>1, <1>6, <2>1, WinCleared DEF Vacant, OpenSlots, HasOpen
  <2>3. /\ dev' = [j \in Slots |-> IF j \in {i} THEN NULL ELSE dev[j]]
        /\ OpenSlots' = OpenSlots \ {i}
    BY <1>1, <1>3, <1>4, <2>2
  <2>4. Lifecycle!Release({i})
    BY <1>2, <2>3 DEF Lifecycle!Release, OpenSlots
  <2> QED BY <1>2, <1>6, <2>4 DEF Lifecycle!Next
<1>7. CASE /\ i \in Slots
           /\ can_interface'[i].name = can_interface[i].name
           /\ can_interface'[i].vendor = can_interface[i].vendor
  <2>1. dev' = dev
    BY <1>1, <1>4, <1>7
  <2>2. CASE i \in OpenSlots'
    <3>1. can_interface'[i].vendor # "NONE"
      BY <2>2 DEF OpenSlots, HasOpen
    <3>2. dev[i] # NULL
      BY <1>7, <3>1, FreeIsClosed
    <3>3. OpenSlots' = OpenSlots \cup {i}
      BY <1>3, <1>4, <2>2
    <3>4. Lifecycle!Open(i)
      BY <2>1, <3>2, <3>3 DEF Lifecycle!Open, OpenSlots
    <3> QED BY <1>2, <1>7, <3>4 DEF Lifecycle!Next
  <2>3. CASE i \notin OpenSlots'
    <3>1. OpenSlots' = OpenSlots \ {i}
      BY <1>3, <1>4, <2>3
    <3>2. Lifecycle!Close(i)
      BY <2>1, <3>1 DEF Lifecycle!Close, OpenSlots
    <3> QED BY <1>2, <1>7, <3>2 DEF Lifecycle!Next
  <2> QED BY <2>2, <2>3
<1> QED BY <1>5, <1>6, <1>7 DEF Only, Changes

\* A scan puts x into the first free slot, under a name that no slot has, and closed.
Takes(i, x) ==
  /\ i \in Slots /\ FirstFree(i)
  /\ x.name \in AnyName /\ ~AlreadyRegistered(x.name)
  /\ can_interface' = [can_interface EXCEPT ![i] = x]
  /\ peak_init' = peak_init
  /\ ~HasOpen(x)

\* Slot i is that of the device PCAN-NONEBUS, and takes PEAK's open slots along.
TakesAlong(i) ==
  /\ i \in Slots /\ Changes(i)
  /\ can_interface[i].name = NoneBus
  /\ \A j \in Slots :
       j \in OpenSlots' <=> /\ j \in OpenSlots \ {i}
                            /\ can_interface[j].vendor # "PEAK"

LEMMA TakesAlongMaps ==
  ASSUME IInv, NEW i, TakesAlong(i)
  PROVE  [Lifecycle!Next]_(Lifecycle!vars)
<1> DEFINE dev == [j \in Slots |-> can_interface[j].name]
           T == {j \in OpenSlots : can_interface[j].vendor = "PEAK"}
<1>1. dev' = [j \in Slots |-> can_interface'[j].name]
  BY DEF Slots
<1>2. Slots = Lifecycle!Index /\ i \in Slots
  BY DEF Slots, Lifecycle!Index, TakesAlong
<1>3. OpenSlots \subseteq Slots /\ OpenSlots' \subseteq Slots
  BY DEF OpenSlots, Slots
<1>4. OpenSlots' = OpenSlots \ ({i} \cup T)
  BY <1>3 DEF TakesAlong
<1>5. ASSUME NEW j \in T
      PROVE  j \in Slots /\ dev[j] \in Named \cup {NoneBus}
  <2>1. j \in Slots /\ can_interface[j].internal \in peak_init
    BY <1>3, <1>5 DEF OpenSlots, HasOpen
  <2>2. can_interface[j].internal \in PV!TPCANHandle
    BY <2>1, SameHandles DEF IInv, Views, PV!Agree
  <2>3. can_interface[j].name = PV!lookup_bus_name(can_interface[j].internal)
    BY <2>1, <2>2, PeakContext
  <2> QED BY <2>1, <2>3 DEF PV!lookup_bus_name
<1>6. T \in SUBSET {j \in Lifecycle!Index : dev[j] \in Named \cup {NoneBus}}
  BY <1>2, <1>5
<1>7. dev[i] = NoneBus
  BY <1>2 DEF TakesAlong
<1> HIDE DEF T
<1>8. Lifecycle!ClosedWith(i)
  BY <1>4, <1>6, <1>7 DEF Lifecycle!ClosedWith, OpenSlots
<1>9. CASE can_interface'[i].name = can_interface[i].name
  <2>1. dev' = dev
    BY <1>1, <1>9 DEF TakesAlong, Changes
  <2>2. Lifecycle!CloseWhole(i)
    BY <1>8, <2>1 DEF Lifecycle!CloseWhole
  <2> QED BY <1>2, <2>2 DEF Lifecycle!Next
<1>10. CASE can_interface'[i] = Cleared(can_interface[i])
  <2>1. can_interface'[i].name = NULL
    BY <1>2, <1>10, WinCleared DEF IInv, Table, Vacant
  <2>2. \A j \in Slots : dev'[j] = IF j = i THEN NULL ELSE dev[j]
    BY <1>1, <2>1 DEF TakesAlong, Changes
  <2>3. dev' = [dev EXCEPT ![i] = NULL]
    BY <1>1, <2>2
  <2>4. Lifecycle!ReleaseWhole(i)
    BY <1>8, <2>3 DEF Lifecycle!ReleaseWhole
  <2> QED BY <1>2, <2>4 DEF Lifecycle!Next
<1> QED BY <1>2, <1>9, <1>10 DEF TakesAlong, Changes

LEMMA TakesMaps ==
  ASSUME IInv, NEW i, NEW x, Takes(i, x)
  PROVE  [Lifecycle!Next]_(Lifecycle!vars)
<1> DEFINE dev == [j \in Slots |-> can_interface[j].name]
<1>1. dev' = [j \in Slots |-> can_interface'[j].name]
  BY DEF Slots
<1>2. Slots = Lifecycle!Index
  BY DEF Slots, Lifecycle!Index
<1>3. /\ can_interface'[i] = x
      /\ \A j \in Slots \ {i} : can_interface'[j] = can_interface[j]
  BY DEF IInv, Table, Takes
<1>4. dev' = [dev EXCEPT ![i] = x.name]
  <2>1. \A j \in Slots : dev'[j] = IF j = i THEN x.name ELSE dev[j]
    BY <1>1, <1>3 DEF Takes
  <2> QED BY <1>1, <2>1
<1>5. /\ dev[i] = NULL
      /\ \A j \in Slots : dev[j] # x.name /\ (j < i => dev[j] # NULL)
  BY DEF Takes, FirstFree, Free, AlreadyRegistered, Slots
<1>6. i \notin OpenSlots
  BY <1>5, FreeIsClosed DEF Takes
<1>7. \A j \in Slots : HasOpen(can_interface[j])' <=> HasOpen(can_interface[j])
  <2>1. \A j \in Slots \ {i} : HasOpen(can_interface[j])' <=> HasOpen(can_interface[j])
    BY <1>3 DEF HasOpen, Takes
  <2>2. ~HasOpen(can_interface[i])'
    BY <1>3 DEF HasOpen, Takes
  <2> QED BY <1>6, <2>1, <2>2 DEF OpenSlots
<1>8. OpenSlots' = OpenSlots
  BY <1>7 DEF OpenSlots, Slots
<1>9. Lifecycle!Register(i, x.name)
  BY <1>2, <1>4, <1>5, <1>8 DEF Lifecycle!Register, OpenSlots
<1> QED BY <1>2, <1>9 DEF Lifecycle!Next, Takes, AnyName
\* The call writes slot i.
Written(i, x) == can_interface' = [can_interface EXCEPT ![i] = x]

LEMMA WrittenChanges ==
  ASSUME Table(can_interface), NEW i \in Slots, NEW x, Written(i, x),
         \/ /\ x.name = can_interface[i].name /\ x.vendor = can_interface[i].vendor
         \/ x = Cleared(can_interface[i])
  PROVE  Changes(i)
  BY DEF Written, Changes, Table

\* The same table, whatever the call.
LEMMA SameChanges ==
  ASSUME NEW i, UNCHANGED can_interface
  PROVE  Changes(i)
  BY DEF Changes

\* A slot given back.
LEMMA GivenBack ==
  ASSUME Table(can_interface), NEW i, NEW T, T = {i} \/ T = {i} \cap Slots,
         can_interface' = ClearedIn(can_interface, T)
  PROVE  Changes(i)
  BY DEF ClearedIn, Changes

\* A call of a back-end changes the slot it is for, and no other, but for the
\* channels that PEAK closes with PCAN_NONEBUS.
LEMMA PeakChanges ==
  ASSUME IInv, NEW i, PeakCall(i)
  PROVE  Only(i) \/ TakesAlong(i)
<1>1. Changes(i)
  <2>1. ASSUME NEW b, NEW op, NEW ready, NEW text, P!OnPeak(i), P!peak_open(op, i, ready, b, text)
        PROVE  Changes(i)
    <3>1. i \in Slots /\ can_interface[i] \in WinIface
      BY <2>1 DEF P!OnPeak, P!Slots, Slots, IInv, Table
    <3>2. \/ Written(i, [can_interface[i] EXCEPT !.baudrate = b])
          \/ Written(i, [can_interface[i] EXCEPT !.baudrate = b, !.opened = 1])
      BY <2>1 DEF P!peak_open, Written
    <3> QED BY <3>1, <3>2, WrittenChanges DEF IInv, WinIface
  <2>2. ASSUME NEW b, P!OpenRejected(i, b)
        PROVE  Changes(i)
    <3>1. CASE UNCHANGED can_interface
      BY <3>1, SameChanges
    <3>2. CASE /\ i \in Slots
               /\ can_interface' = [can_interface EXCEPT ![i].baudrate = b]
      <4>1. Written(i, [can_interface[i] EXCEPT !.baudrate = b])
        BY <3>2 DEF Written
      <4> QED BY <3>2, <4>1, WrittenChanges DEF IInv, Table, WinIface
    <3> QED BY <2>2, <3>1, <3>2 DEF P!OpenRejected, P!NoInterface, P!Slots, Slots
  <2>3. ASSUME NEW T, T = {i} \/ T = {i} \cap Slots, P!ReleaseSlots(T)
        PROVE  Changes(i)
    <3>1. can_interface' = ClearedIn(can_interface, T)
      BY <2>3 DEF P!ReleaseSlots, P!Slots, Slots, P!Cleared, Cleared, ClearedIn
    <3> QED BY <2>3, <3>1, GivenBack DEF IInv
  <2>4. UNCHANGED can_interface => Changes(i)
    BY SameChanges
  <2> QED BY <2>1, <2>2, <2>3, <2>4 DEF PeakCall, P!can_open, P!can_set_baudrate, P!can_close,
             P!can_release, P!can_update, P!peak_update, P!can_send, P!can_recv, P!Rejected,
             P!SetRejected, P!Slots, Slots
<1>2. peak_attached \subseteq PeakChannel /\ peak_init \subseteq PeakChannel
  BY DEF IInv, PeakScan, Views, PV!Agree
<1> DEFINE c == can_interface[i].internal
           all == P!OnPeak(i) /\ c = PCAN_NONEBUS
<1>3. \A T : T = {i} \/ T = {i} \cap Slots =>
        P!Uninitialized(T) = IF all THEN {}
                             ELSE IF P!OnPeak(i) THEN peak_init \ {c} ELSE peak_init
  <2>1. \A T : T = {i} \/ T = {i} \cap Slots =>
          P!ChannelsOf(T) = IF P!OnPeak(i) THEN {c} ELSE {}
    BY DEF P!ChannelsOf, P!OnPeak, P!Slots, Slots
  <2> QED BY <2>1 DEF P!Uninitialized
<1> DEFINE Few == \/ peak_init' = peak_init
                  \/ all /\ peak_init' = {}
                  \/ /\ ~all /\ P!OnPeak(i)
                     /\ peak_init' \subseteq peak_init \cup {c}
                     /\ peak_init \ {c} \subseteq peak_init'
<1> HIDE DEF all, c
<1>4. Few
  <2>1. ASSUME NEW T, T = {i} \/ T = {i} \cap Slots, peak_init' = P!Uninitialized(T)
        PROVE  Few
    BY <1>3, <2>1
  <2>2. ASSUME NEW op, NEW ready, NEW b, NEW text, P!OnPeak(i),
               P!peak_open(op, i, ready, b, text),
               ready = peak_init \/ ready = P!Uninitialized({i})
        PROVE  Few
    <3>1. \/ peak_init' = ready
          \/ c \in PeakChannel /\ peak_init' = ready \cup {c}
      BY <1>2, <2>2 DEF P!peak_open, c
    <3>2. c \in PeakChannel => ~all
      BY SameHandles DEF all
    <3> QED BY <1>3, <2>2, <3>1, <3>2
  <2>3. peak_init' = peak_init => Few
    OBVIOUS
  <2> HIDE DEF Few
  <2> QED BY <2>1, <2>2, <2>3 DEF PeakCall, P!can_open, P!can_set_baudrate, P!can_close,
             P!can_release, P!can_update, P!peak_update, P!can_send, P!can_recv,
             P!ReleaseSlots, P!Slots, Slots
<1>5. \A j \in Slots \ {i} : can_interface'[j] = can_interface[j]
  BY <1>1 DEF Changes
<1>6. CASE peak_init' = peak_init
  <2>1. \A j \in Slots \ {i} : HasOpen(can_interface[j])' <=> HasOpen(can_interface[j])
    BY <1>5, <1>6 DEF HasOpen
  <2> QED BY <1>1, <2>1 DEF Only, OpenSlots
<1>7. CASE ~all /\ P!OnPeak(i) /\ peak_init' \subseteq peak_init \cup {c}
           /\ peak_init \ {c} \subseteq peak_init'
  <2>1. i \in Slots /\ c \in PV!TPCANHandle
    BY <1>7, ContextsMatch, SameHandles
    DEF P!OnPeak, P!Slots, Slots, ContextsMatchVendors, Vendor, c
  <2>2. \A j \in Slots \ {i} : can_interface[j].internal # c
    BY <2>1, PeakContext DEF IInv, Table, c
  <2>3. \A j \in Slots \ {i} : HasOpen(can_interface[j])' <=> HasOpen(can_interface[j])
    BY <1>5, <1>7, <2>2 DEF HasOpen
  <2> QED BY <1>1, <2>3 DEF Only, OpenSlots
<1>8. CASE all /\ peak_init' = {}
  <2>1. i \in Slots /\ c = PCAN_NONEBUS /\ can_interface[i].vendor = "PEAK"
    BY <1>8 DEF all, P!OnPeak, P!Slots, Slots
  <2>2. can_interface[i].name = NoneBus
    <3>1. can_interface[i].name = PV!lookup_bus_name(PCAN_NONEBUS)
      BY <2>1, PeakContext, SameHandles DEF c
    <3> QED BY <3>1, PeakAssumes DEF PV!lookup_bus_name, PV!PeakAssumption
  <2>3. ~HasOpen(can_interface[i])'
    <3>1. can_interface'[i].vendor \in {"PEAK", "NONE"}
      <4>1. can_interface[i] \in WinIface
        BY <2>1 DEF IInv, Table
      <4> QED BY <1>1, <2>1, <4>1, WinCleared DEF Changes
    <3> QED BY <1>8, <3>1 DEF HasOpen
  <2>4. \A j \in Slots \ {i} : HasOpen(can_interface[j])'
          <=> HasOpen(can_interface[j]) /\ can_interface[j].vendor # "PEAK"
    BY <1>5, <1>8 DEF HasOpen
  <2>5. \A j \in Slots :
          j \in OpenSlots' <=> j \in OpenSlots \ {i} /\ can_interface[j].vendor # "PEAK"
    BY <2>3, <2>4 DEF OpenSlots
  <2> QED BY <1>1, <2>1, <2>2, <2>5 DEF TakesAlong
<1> QED BY <1>4, <1>6, <1>7, <1>8

\* Of the other back-ends' interfaces the slot itself says whether they are open.
LEMMA SlotSays ==
  ASSUME NEW i, Changes(i), UNCHANGED peak_init
  PROVE  Only(i)
<1>1. \A j \in Slots \ {i} : HasOpen(can_interface[j])' <=> HasOpen(can_interface[j])
  BY DEF Changes, HasOpen
<1> QED BY <1>1 DEF Only, OpenSlots
\* can_open and can_set_baudrate where the slot has no back-end.
LEMMA RejectedChanges ==
  ASSUME Table(can_interface), NEW i, NEW b,
         \/ UNCHANGED can_interface
         \/ i \in Slots /\ can_interface' = [can_interface EXCEPT ![i].baudrate = b]
  PROVE  Changes(i)
<1>1. CASE UNCHANGED can_interface
  BY <1>1, SameChanges
<1>2. CASE i \in Slots /\ can_interface' = [can_interface EXCEPT ![i].baudrate = b]
  <2>1. Written(i, [can_interface[i] EXCEPT !.baudrate = b])
    BY <1>2 DEF Written
  <2> QED BY <1>2, <2>1, WrittenChanges DEF Table, WinIface
<1> QED BY <1>1, <1>2

LEMMA KvaserChanges ==
  ASSUME IInv, NEW i, KvaserCall(i), UNCHANGED peak_init
  PROVE  Only(i)
<1>1. \A j \in Slots : /\ K!CloseIface(can_interface[j]).name = can_interface[j].name
                       /\ K!CloseIface(can_interface[j]).vendor = can_interface[j].vendor
                       /\ DOMAIN K!CloseIface(can_interface[j]) = DOMAIN can_interface[j]
                       /\ K!Cleared(K!CloseIface(can_interface[j])) = Cleared(can_interface[j])
  BY DEF IInv, Table, WinIface, K!CloseIface, K!Cleared, Cleared
<1>2. ASSUME NEW b, NEW op, NEW iface, NEW open, K!OnKvaser(i),
             K!kvaser_open(op, i, iface, open, b),
             iface = can_interface[i] \/ iface = K!CloseIface(can_interface[i])
      PROVE  Changes(i)
  <2>1. i \in Slots /\ can_interface[i] \in WinIface
    BY <1>2 DEF K!OnKvaser, K!Slots, Slots, IInv, Table
  <2>2. /\ iface.name = can_interface[i].name /\ iface.vendor = can_interface[i].vendor
        /\ DOMAIN iface = DOMAIN can_interface[i]
    BY <1>1, <1>2, <2>1
  <2>3. \/ Written(i, [iface EXCEPT !.baudrate = b])
        \/ \E h : Written(i, [[iface EXCEPT !.baudrate = b] EXCEPT !.opened = 1,
                                                                   !.internal.handle = h])
    BY <1>2 DEF K!kvaser_open, K!OpenOutcome, Written
  <2> QED BY <2>1, <2>2, <2>3, WrittenChanges DEF IInv, WinIface
<1>3. ASSUME NEW T, T = {i} \/ T = {i} \cap Slots, K!ReleaseSlots(T)
      PROVE  Changes(i)
  <2>1. can_interface' = ClearedIn(can_interface, T)
    BY <1>1, <1>3 DEF K!ReleaseSlots, K!Slots, Slots, ClearedIn
  <2> QED BY <1>3, <2>1, GivenBack DEF IInv
<1>4. ASSUME K!can_close(i)
      PROVE  Changes(i)
  BY <1>1, <1>4 DEF K!can_close, K!Slots, Slots, Changes
<1>5. Changes(i)
  BY <1>2, <1>3, <1>4, SameChanges, RejectedChanges DEF IInv, KvaserCall, K!can_open,
     K!can_set_baudrate, K!can_release, K!can_update, K!kvaser_update, K!can_send, K!can_recv,
     K!Rejected, K!OpenRejected, K!SetRejected, K!NoInterface, K!Slots, Slots
<1> QED BY <1>5, SlotSays

LEMMA IxxatChanges ==
  ASSUME IInv, NEW i, IxxatCall(i), UNCHANGED peak_init
  PROVE  Only(i)
<1>1. ASSUME NEW iface, NEW counts, NEW running, X!OnIxxat(i),
             \/ Written(i, iface)
             \/ X!StartSucceeds(i, iface, running, counts),
             iface.name = can_interface[i].name, iface.vendor = can_interface[i].vendor,
             DOMAIN iface = DOMAIN can_interface[i]
      PROVE  Changes(i)
  <2>1. i \in Slots /\ can_interface[i] \in WinIface
    BY <1>1 DEF X!OnIxxat, X!Slots, Slots, IInv, Table
  <2>2. Written(i, iface) \/ \E held : Written(i, [iface EXCEPT !.internal.held = held])
    BY <1>1 DEF X!StartSucceeds, Written
  <2> QED BY <1>1, <2>1, <2>2, WrittenChanges DEF IInv, WinIface
<1>2. ASSUME NEW b, X!OnIxxat(i), X!ixxat_open(i, b)
      PROVE  Changes(i)
  <2>1. i \in Slots /\ can_interface[i] \in WinIface
    BY <1>2 DEF X!OnIxxat, X!Slots, Slots, IInv, Table
  <2> DEFINE x == [can_interface[i] EXCEPT !.baudrate = b]
             y == [can_interface[i] EXCEPT !.baudrate = b, !.opened = 1]
  <2>2. /\ x.name = can_interface[i].name /\ x.vendor = can_interface[i].vendor
        /\ y.name = can_interface[i].name /\ y.vendor = can_interface[i].vendor
        /\ DOMAIN x = DOMAIN can_interface[i] /\ DOMAIN y = DOMAIN can_interface[i]
    BY <2>1 DEF WinIface
  <2>3. Written(i, x) \/ X!StartSucceeds(i, y, ixxat_line, ixxat_refs)
    BY <1>2 DEF X!ixxat_open, Written
  <2> HIDE DEF x, y
  <2> QED BY <1>1, <1>2, <2>2, <2>3
<1>3. ASSUME NEW b, X!OnIxxat(i), X!ixxat_set_baudrate(i, b)
      PROVE  Changes(i)
  <2>1. i \in Slots /\ can_interface[i] \in WinIface
    BY <1>3 DEF X!OnIxxat, X!Slots, Slots, IInv, Table
  <2> DEFINE x == X!Unheld(can_interface[i])
             y == [X!Unheld(can_interface[i]) EXCEPT !.baudrate = b]
  <2>2. /\ x.name = can_interface[i].name /\ x.vendor = can_interface[i].vendor
        /\ y.name = can_interface[i].name /\ y.vendor = can_interface[i].vendor
        /\ DOMAIN x = DOMAIN can_interface[i] /\ DOMAIN y = DOMAIN can_interface[i]
    BY <2>1 DEF WinIface, X!Unheld
  <2>3. \/ Written(i, x)
        \/ X!StartSucceeds(i, y, X!LineWithout({i}), X!RefsWithout({i}))
    BY <1>3 DEF X!ixxat_set_baudrate, Written
  <2> HIDE DEF x, y
  <2> QED BY <1>1, <1>3, <2>2, <2>3
<1>4. ASSUME NEW T, T = {i} \/ T = {i} \cap Slots, X!ReleaseSlots(T)
      PROVE  Changes(i)
  <2>1. can_interface' = ClearedIn(can_interface, T)
    BY <1>4 DEF X!ReleaseSlots, X!Slots, Slots, X!Cleared, Cleared, ClearedIn
  <2> QED BY <1>4, <2>1, GivenBack DEF IInv
<1>5. ASSUME X!can_close(i)
      PROVE  Changes(i)
  <2>1. \A j \in Slots : LET y == [X!Unheld(can_interface[j]) EXCEPT !.opened = 0] IN
          y.name = can_interface[j].name /\ y.vendor = can_interface[j].vendor
    BY DEF IInv, Table, WinIface, X!Unheld
  <2> QED BY <1>5, <2>1 DEF X!can_close, X!CloseSlots, X!Slots, Slots, Changes
<1>6. Changes(i)
  BY <1>2, <1>3, <1>4, <1>5, SameChanges, RejectedChanges DEF IInv, IxxatCall, X!can_open,
     X!can_set_baudrate, X!can_release, X!can_update, X!ixxat_update, X!can_send, X!can_recv,
     X!Rejected, X!OpenRejected, X!SetRejected, X!NoInterface, X!Slots, Slots
<1> QED BY <1>6, SlotSays

LEMMA SoftingChanges ==
  ASSUME IInv, NEW i, SoftingCall(i), UNCHANGED peak_init
  PROVE  Only(i)
<1>1. ASSUME NEW op, NEW iface, NEW open, S!OnSofting(i), S!softing_open(op, i, iface, open),
             iface.name = can_interface[i].name, iface.vendor = can_interface[i].vendor,
             DOMAIN iface = DOMAIN can_interface[i]
      PROVE  Changes(i)
  <2>1. i \in Slots /\ can_interface[i] \in WinIface
    BY <1>1 DEF S!OnSofting, S!Slots, Slots, IInv, Table
  <2>2. \E h : \/ Written(i, [iface EXCEPT !.internal.hChannel = h])
               \/ Written(i, [iface EXCEPT !.internal.hChannel = h, !.opened = 1])
    BY <1>1 DEF S!softing_open, Written
  <2> QED BY <1>1, <2>1, <2>2, WrittenChanges DEF IInv, WinIface
<1>2. \A j \in Slots : \A b :
        LET y == [can_interface[j] EXCEPT !.baudrate = b]
            z == [S!CloseIface(can_interface[j]) EXCEPT !.baudrate = b]
        IN /\ y.name = can_interface[j].name /\ y.vendor = can_interface[j].vendor
           /\ z.name = can_interface[j].name /\ z.vendor = can_interface[j].vendor
           /\ DOMAIN y = DOMAIN can_interface[j] /\ DOMAIN z = DOMAIN can_interface[j]
  BY DEF IInv, Table, WinIface, S!CloseIface
<1>3. ASSUME NEW T, T = {i} \/ T = {i} \cap Slots, S!ReleaseSlots(T)
      PROVE  Changes(i)
  <2>1. can_interface' = ClearedIn(can_interface, T)
    BY <1>3 DEF S!ReleaseSlots, S!Slots, Slots, S!Cleared, Cleared, ClearedIn
  <2> QED BY <1>3, <2>1, GivenBack DEF IInv
<1>4. ASSUME S!can_close(i)
      PROVE  Changes(i)
  <2>1. \A j \in Slots : /\ S!CloseIface(can_interface[j]).name = can_interface[j].name
                         /\ S!CloseIface(can_interface[j]).vendor = can_interface[j].vendor
    BY DEF IInv, Table, WinIface, S!CloseIface
  <2> QED BY <1>4, <2>1 DEF S!can_close, S!Slots, Slots, Changes
<1>5. ASSUME NEW b, NEW op, NEW open, S!OnSofting(i),
             \/ S!softing_open(op, i, [can_interface[i] EXCEPT !.baudrate = b], open)
             \/ S!softing_open(op, i, [S!CloseIface(can_interface[i]) EXCEPT !.baudrate = b], open)
      PROVE  Changes(i)
  BY <1>1, <1>2, <1>5 DEF S!OnSofting, S!Slots, Slots
<1>6. Changes(i)
  BY <1>3, <1>4, <1>5, SameChanges, RejectedChanges DEF IInv, SoftingCall, S!can_open,
     S!can_set_baudrate, S!can_release, S!can_update, S!softing_update, S!can_send, S!can_recv,
     S!Rejected, S!OpenRejected, S!SetRejected, S!NoInterface, S!Slots, Slots
<1> QED BY <1>6, SlotSays
\* What a scan registers, it registers closed and under a name of its own.
LEMMA PeakTakes ==
  ASSUME IInv, NEW c \in PV!TPCANHandle, NEW i \in Slots, P!RegisterChannel(c, i),
         UNCHANGED peak_init
  PROVE  \E x : Takes(i, x)
<1> DEFINE x == PV!NewIface(c)
<1>1. /\ FirstFree(i) /\ ~AlreadyRegistered(PV!lookup_bus_name(c))
      /\ can_interface' = [can_interface EXCEPT ![i] = x]
  BY DEF P!RegisterChannel, P!Registered, P!AlreadyRegistered, AlreadyRegistered,
     P!FirstFree, FirstFree, P!Free, Free, P!Slots, Slots, P!lookup_bus_name,
     PV!lookup_bus_name, PV!NewIface
<1>2. x.name = PV!lookup_bus_name(c) /\ x.name \in AnyName /\ x.internal = c
  BY PeakAssumes, PV!NewIfaceFacts DEF AnyName
<1>3. x.vendor = "PEAK"
  BY DEF PV!NewIface
<1>4. c \notin peak_init
  <2>1. ASSUME c \in peak_init PROVE FALSE
    <3>1. PICK j \in Slots : can_interface[j].internal = c
      BY <2>1, PeakOwned DEF P!InitializedOwned, P!Slots, Slots
    <3>2. can_interface[j].name = PV!lookup_bus_name(c)
      BY <3>1, PeakContext
    <3> QED BY <1>1, <3>2 DEF AlreadyRegistered
  <2> QED BY <2>1
<1>5. ~HasOpen(x)
  BY <1>2, <1>3, <1>4 DEF HasOpen
<1> HIDE DEF x
<1> QED BY <1>1, <1>2, <1>5 DEF Takes

LEMMA KvaserTakes ==
  ASSUME IInv, NEW c \in KV!Channel, NEW i \in Slots, K!RegisterChannel(c, i),
         UNCHANGED peak_init
  PROVE  \E x : Takes(i, x)
<1> DEFINE x == KV!NewIface(c)
<1>1. /\ FirstFree(i) /\ ~AlreadyRegistered(kvaser_bus[c]) /\ kvaser_bus[c] # NULL
      /\ can_interface' = [can_interface EXCEPT ![i] = x]
  BY DEF K!RegisterChannel, K!AlreadyRegistered, AlreadyRegistered, K!FirstFree, FirstFree,
     K!Free, Free, K!Slots, Slots, KV!NewIface
<1>2. kvaser_bus[c] \in AnyName
  BY <1>1 DEF IInv, KvaserScan, AnyName
<1>3. x.name = kvaser_bus[c] /\ ~HasOpen(x)
  BY DEF KV!NewIface, HasOpen
<1> HIDE DEF x
<1> QED BY <1>1, <1>2, <1>3 DEF Takes

LEMMA IxxatTakes ==
  ASSUME IInv, NEW s \in X!Socket, NEW i \in Slots, X!RegisterSocket(s[1], s[2], i),
         UNCHANGED peak_init
  PROVE  \E x : Takes(i, x)
<1> DEFINE x == XV!NewIface(s[1], s[2])
<1>1. /\ FirstFree(i) /\ ~AlreadyRegistered(XV!Name(s[1], s[2]))
      /\ can_interface' = [can_interface EXCEPT ![i] = x]
  BY DEF X!RegisterSocket, X!AlreadyRegistered, AlreadyRegistered, X!FirstFree, FirstFree,
     X!Free, Free, X!Slots, Slots, XV!NewIface, X!Name, XV!Name
<1>2. XV!Name(s[1], s[2]) \in AnyName
  <2>1. s \in XV!Socket
    BY DEF X!Socket, XV!Socket
  <2> QED BY <2>1, IxxatAssumes DEF XV!IxxatAssumption, AnyName
<1>3. x.name = XV!Name(s[1], s[2]) /\ ~HasOpen(x)
  BY DEF XV!NewIface, HasOpen
<1> HIDE DEF x
<1> QED BY <1>1, <1>2, <1>3 DEF Takes

LEMMA SoftingTakes ==
  ASSUME IInv, NEW c \in SoftingDevice, NEW i \in Slots, S!RegisterChannel(c, i),
         UNCHANGED peak_init
  PROVE  \E x : Takes(i, x)
<1> DEFINE x == SV!NewIface(c)
<1>1. /\ FirstFree(i) /\ ~AlreadyRegistered(c)
      /\ can_interface' = [can_interface EXCEPT ![i] = x]
  BY DEF S!RegisterChannel, S!AlreadyRegistered, AlreadyRegistered, S!FirstFree, FirstFree,
     S!Free, Free, S!Slots, Slots, SV!NewIface
<1>2. x.name = c /\ c \in AnyName /\ ~HasOpen(x)
  BY DEF SV!NewIface, HasOpen, AnyName
<1> HIDE DEF x
<1> QED BY <1>1, <1>2 DEF Takes

\* A step that CanLifecycle allows, or that it does not see.
LifeStep == [Lifecycle!Next]_(Lifecycle!vars)

\* What a step that leaves the slots and PEAK's channels alone is to CanLifecycle.
LEMMA UnseenMaps ==
  ASSUME UNCHANGED <<can_interface, peak_init>>
  PROVE  LifeStep
<1>1. \A i : HasOpen(can_interface[i])' <=> HasOpen(can_interface[i])
  BY DEF HasOpen
<1>2. OpenSlots' = OpenSlots
  BY <1>1 DEF OpenSlots, Slots
<1> QED BY <1>2 DEF LifeStep, Lifecycle!vars, OpenSlots

LEMMA ScanMaps ==
  ASSUME IInv, Scan
  PROVE  LifeStep
<1>1. ASSUME \E i \in Slots : \E x : Takes(i, x)
      PROVE  LifeStep
  BY <1>1, TakesMaps DEF LifeStep
<1>2. CASE X!Scan /\ UNCHANGED peak
  <2>1. UNCHANGED peak_init
    BY <1>2 DEF peak
  <2>2. ASSUME NEW s \in X!Socket, X!ixxat_find_socket(s[1], s[2])
        PROVE  LifeStep
    <3>1. CASE UNCHANGED can_interface
      BY <2>1, <3>1, UnseenMaps
    <3>2. ASSUME NEW i \in Slots, X!RegisterSocket(s[1], s[2], i)
          PROVE  LifeStep
      BY <1>1, <2>1, <3>2, IxxatTakes
    <3> QED BY <2>2, <3>1, <3>2 DEF X!ixxat_find_socket, X!Slots, Slots
  <2>3. (\E b \in Board : X!ixxat_find_board(b)) \/ X!ixxat_find_end => UNCHANGED can_interface
    BY DEF X!ixxat_find_board, X!ixxat_find_end
  <2> QED BY <1>2, <2>1, <2>2, <2>3, UnseenMaps DEF X!Scan
<1>3. CASE P!peak_list \/ P!peak_find_channel \/ P!peak_find_end
  <2>1. UNCHANGED peak_init
    BY <1>3 DEF P!peak_list, P!peak_find_channel, P!peak_find_end
  <2>2. ASSUME P!peak_find_channel, NEW i \in Slots, P!RegisterChannel(Head(peak_list), i)
        PROVE  LifeStep
    <3>1. Head(peak_list) \in PV!TPCANHandle
      BY <2>2 DEF P!peak_find_channel, IInv, PeakScan
    <3> QED BY <1>1, <2>1, <2>2, <3>1, PeakTakes
  <2>3. \/ UNCHANGED can_interface
        \/ P!peak_find_channel /\ \E i \in Slots : P!RegisterChannel(Head(peak_list), i)
    BY <1>3 DEF P!peak_list, P!peak_find_channel, P!peak_find_end, P!Slots, Slots
  <2> QED BY <2>1, <2>2, <2>3, UnseenMaps
<1>4. CASE (K!kvaser_find_channel \/ K!kvaser_find_end) /\ UNCHANGED peak
  <2>1. UNCHANGED peak_init
    BY <1>4 DEF peak
  <2>2. ASSUME K!kvaser_find_channel, NEW i \in Slots, K!RegisterChannel(kvaser_next, i)
        PROVE  LifeStep
    <3>1. kvaser_next \in KV!Channel
      <4>1. K!kvaser_find_channel => kvaser_next < kvaser_count
        BY DEF K!kvaser_find_channel, K!RegisterChannel
      <4> QED BY <2>2, <4>1, KvaserAssumes DEF IInv, KvaserScan, KV!Channel
    <3> QED BY <1>1, <2>1, <2>2, <3>1, KvaserTakes
  <2>3. \/ UNCHANGED can_interface
        \/ K!kvaser_find_channel /\ \E i \in Slots : K!RegisterChannel(kvaser_next, i)
    BY <1>4 DEF K!kvaser_find_channel, K!kvaser_find_end, K!Slots, Slots
  <2> QED BY <2>1, <2>2, <2>3, UnseenMaps
<1>5. CASE S!Scan /\ UNCHANGED peak
  <2>1. UNCHANGED peak_init
    BY <1>5 DEF peak
  <2>2. ASSUME NEW c \in SoftingDevice, NEW i \in Slots, S!RegisterChannel(c, i)
        PROVE  LifeStep
    BY <1>1, <2>1, <2>2, SoftingTakes
  <2>3. \/ UNCHANGED can_interface
        \/ \E c \in SoftingDevice : \E i \in Slots : S!RegisterChannel(c, i)
    BY <1>5 DEF S!Scan, S!softing_list, S!softing_find_channel, S!softing_find_end, S!Slots,
       Slots
  <2> QED BY <2>1, <2>2, <2>3, UnseenMaps
<1> QED BY <1>2, <1>3, <1>4, <1>5 DEF Scan

LEMMA DispatchMaps ==
  ASSUME IInv, NEW i \in CallIndex, Dispatch(i)
  PROVE  LifeStep
<1>1. Only(i) \/ TakesAlong(i)
  <2>1. CASE PeakCall(i)
    BY <2>1, PeakChanges
  <2>2. CASE KvaserCall(i) /\ UNCHANGED peak
    BY <2>2, KvaserChanges DEF peak
  <2>3. CASE IxxatCall(i) /\ UNCHANGED peak
    BY <2>3, IxxatChanges DEF peak
  <2>4. CASE SoftingCall(i) /\ UNCHANGED peak
    BY <2>4, SoftingChanges DEF peak
  <2> QED BY <2>1, <2>2, <2>3, <2>4 DEF Dispatch
<1> QED BY <1>1, OnlyMaps, TakesAlongMaps DEF LifeStep

LEMMA AllReleasedMaps ==
  ASSUME IInv, can_release_interfaces
  PROVE  LifeStep
<1> DEFINE dev == [j \in Slots |-> can_interface[j].name]
<1>1. \A j \in Slots : can_interface'[j].name = NULL /\ can_interface'[j].vendor = "NONE"
  BY WinCleared DEF can_release_interfaces, IInv, Table, Vacant
<1>2. dev' = [j \in Slots |-> NULL] /\ OpenSlots' = {}
  BY <1>1 DEF OpenSlots, HasOpen, Slots
<1>3. Slots = Lifecycle!Index /\ OpenSlots \subseteq Slots
  BY DEF Slots, Lifecycle!Index, OpenSlots
<1>4. Lifecycle!Release(Lifecycle!Index)
  BY <1>2, <1>3 DEF Lifecycle!Release, OpenSlots
<1> QED BY <1>4 DEF LifeStep, Lifecycle!Next

LEMMA NextMaps ==
  ASSUME IInv, [Next]_vars
  PROVE  LifeStep
<1>1. ASSUME \/ \E mask \in Masks : can_find_interfaces_mask(mask)
             \/ AskEnd
             \/ \E i \in CallIndex, bad \in BOOLEAN : can_get(i, bad)
             \/ X!ixxat_recv_entry /\ UNCHANGED <<dll, asked, peak, kvaser, softing>>
             \/ UNCHANGED vars
      PROVE  LifeStep
  <2>1. UNCHANGED <<can_interface, peak_init>>
    BY <1>1, IxxatQuiet DEF can_find_interfaces_mask, AskEnd, can_get, Get, peak, vars
  <2> QED BY <2>1, UnseenMaps
<1>2. ASSUME Ask \/ Environment
      PROVE  LifeStep
  <2>1. UNCHANGED <<can_interface, peak_init>>
    BY <1>2, PeakAsked, PeakEnvironment, KvaserAsked, KvaserEnvironment, IxxatQuiet,
       SoftingQuiet DEF Ask, Environment, peak, IInv
  <2> QED BY <2>1, UnseenMaps
<1>3. Next => LifeStep
  BY <1>1, <1>2, ScanMaps, DispatchMaps, AllReleasedMaps DEF Next
<1> QED BY <1>1, <1>3

\* The Windows build implements CanLifecycle: every step of any back-end registers
\* one device, opens, closes or frees one index, frees them all, or does nothing to
\* an index.  Only to close or free the device PCAN-NONEBUS closes other devices,
\* and those have names of PEAK's.
THEOREM ImplementsLifecycle == Spec => Refinement
<1>1. Init => Lifecycle!Init
  <2>1. Init => \A i \in Slots : can_interface[i].name = NULL /\ can_interface[i].vendor = "NONE"
    BY DEF Init, P!Init, P!Slots, Slots, P!ZeroIface
  <2> QED BY <2>1 DEF Lifecycle!Init, Lifecycle!Index, Slots, HasOpen
<1>2. IInv /\ [Next]_vars => [Lifecycle!Next]_(Lifecycle!vars)
  BY NextMaps DEF LifeStep
<1> QED BY <1>1, <1>2, Invariant, PTL DEF Spec, Refinement, Lifecycle!Spec
=============================================================================
