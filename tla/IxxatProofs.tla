----------------------------- MODULE IxxatProofs ------------------------------
(***************************************************************************)
(* Proofs about the Ixxat back-end, for every table size, every set of     *)
(* boards and buses and every number of references VCI gives out.          *)
(***************************************************************************)
EXTENDS Ixxat, CanCallsProofs, FiniteSetTheorems

IfaceType == Iface({"IXXAT"}, ixxat_ctx_t)

-----------------------------------------------------------------------------
(* A slot, and a table that agrees with the references and the lines *)

Holds(iface) == IF iface.vendor = "IXXAT" THEN iface.internal.held ELSE {}

Sock(iface) == <<iface.internal.board, iface.internal.bus_no>>

\* Vendor, context and name say the same, and the name is the socket's.
Sound(iface) ==
  /\ iface.name = NULL <=> iface.vendor = "NONE"
  /\ iface.name = NULL <=> iface.internal = NULL
  /\ iface.name = NULL => iface.opened = 0
  /\ iface.name # NULL =>
       /\ Sock(iface) \in Socket
       /\ iface.name = Name(iface.internal.board, iface.internal.bus_no)

Holding(tab, k) == {i \in Slots : k \in Holds(tab[i])}

\* RefsHeld over any table, references and lines, so that can_set_baudrate can
\* be followed between its release and its start.  That no two slots have the
\* same name keeps the close of one from stopping the line of another.
Agree(tab, cnt, run) ==
  /\ tab \in [Slots -> IfaceType]
  /\ cnt \in [Kind -> 0 .. MaxRefs]
  /\ run \subseteq Socket
  /\ \A i \in Slots : Sound(tab[i])
  /\ \A i, j \in Slots : i # j /\ tab[i].name # NULL => tab[i].name # tab[j].name
  /\ \A k \in Kind : Cardinality(Holding(tab, k)) <= cnt[k]
  /\ \A s \in run : \E i \in Slots : "can" \in Holds(tab[i]) /\ s = Sock(tab[i])

\* References that no pointer of the table accounts for.
Missing(tab, cnt, k) == cnt[k] - Cardinality(Holding(tab, k))

LEMMA SlotsFinite == IsFiniteSet(Slots)
  BY FS_Interval, TableAssumption DEF Slots

LEMMA HoldingFinite ==
  ASSUME NEW tab, NEW k
  PROVE  IsFiniteSet(Holding(tab, k)) /\ Cardinality(Holding(tab, k)) \in Nat
<1>1. Holding(tab, k) \in SUBSET Slots
  BY DEF Holding
<1> QED BY <1>1, SlotsFinite, FS_Subset, FS_CardinalityType

LEMMA HoldsType ==
  ASSUME NEW iface \in IfaceType, Sound(iface)
  PROVE  /\ Holds(iface) \subseteq Kind
         /\ iface.vendor = "IXXAT" => /\ iface.internal \in ixxat_ctx_t
                                      /\ Sock(iface) \in Socket
                                      /\ iface.name # NULL
         /\ iface.vendor # "IXXAT" => iface.vendor = "NONE"
  BY DEF IfaceType, Iface, Sound, Holds, ixxat_ctx_t

\* Names are unique, so sockets are.
LEMMA SocketsUnique ==
  ASSUME NEW tab, NEW cnt, NEW run, Agree(tab, cnt, run),
         NEW i \in Slots, NEW j \in Slots, i # j,
         tab[i].name # NULL, tab[j].name # NULL
  PROVE  Sock(tab[i]) # Sock(tab[j])
<1>1. tab[i].name # tab[j].name
  BY DEF Agree
<1>2. /\ tab[i].name = Name(tab[i].internal.board, tab[i].internal.bus_no)
      /\ tab[j].name = Name(tab[j].internal.board, tab[j].internal.bus_no)
  BY DEF Agree, Sound
<1> QED BY <1>1, <1>2 DEF Sock

\* VCI may stop lines at any time.
LEMMA StopAgrees ==
  ASSUME NEW tab, NEW cnt, NEW run, Agree(tab, cnt, run), NEW less \in SUBSET run
  PROVE  Agree(tab, cnt, less)
  BY DEF Agree

\* A slot may be written if it keeps its name, its socket and its pointers.
LEMMA PutSlot ==
  ASSUME NEW tab, NEW cnt, NEW run, Agree(tab, cnt, run),
         NEW i \in Slots, NEW x \in IfaceType, Sound(x),
         x.name = tab[i].name, x.internal = tab[i].internal, x.vendor = tab[i].vendor
  PROVE  /\ Agree([tab EXCEPT ![i] = x], cnt, run)
         /\ \A k : Holding([tab EXCEPT ![i] = x], k) = Holding(tab, k)
<1> DEFINE new == [tab EXCEPT ![i] = x]
<1>1. new \in [Slots -> IfaceType] /\ \A j \in Slots : new[j] = IF j = i THEN x ELSE tab[j]
  BY DEF Agree
<1> HIDE DEF new
<1>2. \A j \in Slots : /\ Holds(new[j]) = Holds(tab[j])
                       /\ Sock(new[j]) = Sock(tab[j])
                       /\ new[j].name = tab[j].name
                       /\ Sound(new[j])
  BY <1>1 DEF Holds, Sock, Agree
<1>3. \A k : Holding(new, k) = Holding(tab, k)
  BY <1>2 DEF Holding
<1>4. \A j, k \in Slots : j # k /\ new[j].name # NULL => new[j].name # new[k].name
  BY <1>2 DEF Agree
<1>5. \A s \in run : \E j \in Slots : "can" \in Holds(new[j]) /\ s = Sock(new[j])
  BY <1>2 DEF Agree
<1>6. Agree(new, cnt, run)
  BY <1>1, <1>2, <1>3, <1>4, <1>5 DEF Agree
<1> QED BY <1>3, <1>6 DEF new

\* What the slots say of the driver does not depend on the recorded rates.
LEMMA RateAgrees ==
  ASSUME NEW tab, NEW cnt, NEW run, Agree(tab, cnt, run),
         NEW new \in [Slots -> IfaceType],
         \A i \in Slots : /\ new[i].name = tab[i].name
                          /\ new[i].vendor = tab[i].vendor
                          /\ new[i].opened = tab[i].opened
                          /\ new[i].internal = tab[i].internal
  PROVE  Agree(new, cnt, run)
<1>1. \A i \in Slots : /\ Holds(new[i]) = Holds(tab[i])
                       /\ Sock(new[i]) = Sock(tab[i])
                       /\ new[i].name = tab[i].name
                       /\ Sound(new[i])
  BY DEF Holds, Sock, Sound, Agree
<1>2. \A k : Holding(new, k) = Holding(tab, k)
  BY <1>1 DEF Holding
<1>3. \A i, j \in Slots : i # j /\ new[i].name # NULL => new[i].name # new[j].name
  BY <1>1 DEF Agree
<1>4. \A s \in run : \E i \in Slots : "can" \in Holds(new[i]) /\ s = Sock(new[i])
  BY <1>1 DEF Agree
<1> QED BY <1>1, <1>2, <1>3, <1>4 DEF Agree

-----------------------------------------------------------------------------
(* Giving references back *)

LEMMA UnheldFacts ==
  ASSUME NEW iface \in IfaceType, Sound(iface), iface.vendor = "IXXAT"
  PROVE  /\ Unheld(iface) \in IfaceType /\ Sound(Unheld(iface))
         /\ Unheld(iface).name = iface.name /\ Unheld(iface).vendor = "IXXAT"
         /\ Unheld(iface).opened = iface.opened
         /\ Unheld(iface).internal.held = {}
         /\ Sock(Unheld(iface)) = Sock(iface)
<1> DEFINE c == [iface.internal EXCEPT !.held = {}]
           x == Unheld(iface)
<1>1. iface.internal \in ixxat_ctx_t /\ iface.name # NULL
  BY HoldsType
<1>2. /\ c \in ixxat_ctx_t /\ c.held = {}
      /\ c.board = iface.internal.board /\ c.bus_no = iface.internal.bus_no
  BY <1>1 DEF ixxat_ctx_t
<1>3. x = [iface EXCEPT !.internal = c]
  BY DEF Unheld, IfaceType, Iface
<1> HIDE DEF c
<1>4. /\ x \in IfaceType /\ x.name = iface.name /\ x.vendor = iface.vendor
      /\ x.opened = iface.opened /\ x.internal = c
  BY <1>2, <1>3 DEF IfaceType, Iface
<1> HIDE DEF x
<1>5. c # NULL
  BY <1>2, IxxatAssumption
<1>6. Sound(x) /\ Sock(x) = Sock(iface)
  BY <1>1, <1>2, <1>4, <1>5 DEF Sound, Sock
<1> QED BY <1>2, <1>4, <1>6 DEF x

\* What Held and Holders are on a table that agrees.
LEMMA HeldIs ==
  ASSUME NEW i \in Slots
  PROVE  Held(i) = Holds(can_interface[i])
  BY DEF Held, OnIxxat, Holds

LEMMA RefsWithoutIs ==
  ASSUME Agree(can_interface, refs, line), NEW S \in SUBSET Slots, NEW k \in Kind
  PROVE  /\ RefsWithout(S)[k] = refs[k] - Cardinality(Holding(can_interface, k) \cap S)
         /\ RefsWithout(S)[k] \in 0 .. MaxRefs
         /\ Cardinality(Holding(can_interface, k) \ S)
              = Cardinality(Holding(can_interface, k))
                  - Cardinality(Holding(can_interface, k) \cap S)
         /\ RefsWithout(S)[k] - Cardinality(Holding(can_interface, k) \ S)
              = Missing(can_interface, refs, k)
<1> DEFINE H == Holding(can_interface, k)
<1>1. {i \in S : k \in Held(i)} = H \cap S
  BY HeldIs DEF Holding
<1>2. RefsWithout(S)[k] = refs[k] - Cardinality(H \cap S)
  BY <1>1 DEF RefsWithout
<1>3. IsFiniteSet(H) /\ Cardinality(H) \in Nat
  BY HoldingFinite
<1>4. refs[k] \in 0 .. MaxRefs /\ Cardinality(H) <= refs[k]
  BY DEF Agree
<1> HIDE DEF H
<1>5. /\ H \cap S \in SUBSET H
      /\ Cardinality(H \cap S) \in Nat /\ Cardinality(H \cap S) <= Cardinality(H)
  BY <1>3, FS_Subset, FS_CardinalityType
<1>6. Cardinality(H \ S) = Cardinality(H) - Cardinality(H \cap S)
  BY <1>3, FS_Difference
<1>7. RefsWithout(S)[k] \in 0 .. MaxRefs
  BY <1>2, <1>3, <1>4, <1>5, IxxatAssumption
<1>8. RefsWithout(S)[k] - Cardinality(H \ S) = refs[k] - Cardinality(H)
  BY <1>2, <1>3, <1>4, <1>5, <1>6, IxxatAssumption
<1> QED BY <1>2, <1>6, <1>7, <1>8 DEF H, Missing

\* Taking the pointers out of the slots of S, with their references and lines,
\* keeps the agreement and loses no reference.
LEMMA DropAgrees ==
  ASSUME Agree(can_interface, refs, line), NEW S \in SUBSET Slots,
         NEW tab \in [Slots -> IfaceType],
         \A i \in Slots \ S : tab[i] = can_interface[i],
         \A i \in S : /\ Sound(tab[i]) /\ Holds(tab[i]) = {}
                      /\ tab[i].name \in {can_interface[i].name, NULL}
  PROVE  /\ Agree(tab, RefsWithout(S), LineWithout(S))
         /\ \A k \in Kind : Missing(tab, RefsWithout(S), k) = Missing(can_interface, refs, k)
<1>1. \A k : Holding(tab, k) = Holding(can_interface, k) \ S
  BY DEF Holding
<1>2. RefsWithout(S) \in [Kind -> 0 .. MaxRefs]
  BY RefsWithoutIs DEF RefsWithout
<1>3. \A i \in Slots : Sound(tab[i])
  BY DEF Agree
<1>4. \A i, j \in Slots : i # j /\ tab[i].name # NULL => tab[i].name # tab[j].name
  <2>1. \A i \in Slots : tab[i].name \in {can_interface[i].name, NULL}
    OBVIOUS
  <2> QED BY <2>1 DEF Agree
<1>5. \A k \in Kind : /\ Missing(tab, RefsWithout(S), k) = Missing(can_interface, refs, k)
                      /\ Cardinality(Holding(tab, k)) <= RefsWithout(S)[k]
  <2> SUFFICES ASSUME NEW k \in Kind
               PROVE  /\ Missing(tab, RefsWithout(S), k) = Missing(can_interface, refs, k)
                      /\ Cardinality(Holding(tab, k)) <= RefsWithout(S)[k]
    OBVIOUS
  <2>1. /\ Missing(tab, RefsWithout(S), k) = Missing(can_interface, refs, k)
        /\ RefsWithout(S)[k] \in 0 .. MaxRefs
    BY <1>1, RefsWithoutIs DEF Missing
  <2>2. /\ Cardinality(Holding(can_interface, k)) <= refs[k]
        /\ refs[k] \in 0 .. MaxRefs
        /\ Cardinality(Holding(can_interface, k)) \in Nat
        /\ Cardinality(Holding(tab, k)) \in Nat
    BY HoldingFinite DEF Agree
  <2> QED BY <2>1, <2>2, IxxatAssumption DEF Missing
<1>6. LineWithout(S) \subseteq Socket
  BY DEF LineWithout, Agree
<1>7. \A s \in LineWithout(S) :
        \E i \in Slots : "can" \in Holds(tab[i]) /\ s = Sock(tab[i])
  <2> SUFFICES ASSUME NEW s \in LineWithout(S)
               PROVE  \E i \in Slots : "can" \in Holds(tab[i]) /\ s = Sock(tab[i])
    OBVIOUS
  <2>1. s \in line /\ \A i \in S : "can" \in Held(i) => s # SocketOf(i)
    BY DEF LineWithout
  <2>2. PICK i \in Slots : "can" \in Holds(can_interface[i]) /\ s = Sock(can_interface[i])
    BY <2>1 DEF Agree
  <2>3. i \notin S
    BY <2>1, <2>2, HeldIs DEF SocketOf, Sock
  <2> QED BY <2>2, <2>3
<1> QED BY <1>2, <1>3, <1>4, <1>5, <1>6, <1>7 DEF Agree

\* ixxat_close of the slots of S.
LEMMA CloseAgrees ==
  ASSUME Agree(can_interface, refs, line), NEW S \in SUBSET Slots,
         \A i \in S : OnIxxat(i), CloseSlots(S)
  PROVE  /\ Agree(can_interface', refs', line')
         /\ \A k \in Kind :
              Missing(can_interface', refs', k) = Missing(can_interface, refs, k)
         /\ \A i \in Slots \ S : can_interface'[i] = can_interface[i]
         /\ \A i \in S : /\ can_interface'[i].name = can_interface[i].name
                         /\ can_interface'[i].opened = 0
                         /\ Holds(can_interface'[i]) = {}
<1> DEFINE tab == can_interface'
<1>1. /\ \A i \in Slots : tab[i] = IF i \in S THEN [Unheld(can_interface[i]) EXCEPT !.opened = 0]
                                             ELSE can_interface[i]
      /\ refs' = RefsWithout(S)
      /\ line' = LineWithout(S)
  BY DEF CloseSlots
<1>2. ASSUME NEW i \in S
      PROVE  /\ tab[i] \in IfaceType /\ Sound(tab[i]) /\ Holds(tab[i]) = {}
             /\ tab[i].name = can_interface[i].name /\ tab[i].opened = 0
  <2> DEFINE y == Unheld(can_interface[i])
             x == [y EXCEPT !.opened = 0]
  <2>1. can_interface[i] \in IfaceType /\ Sound(can_interface[i]) /\ OnIxxat(i)
    BY DEF Agree
  <2>2. /\ y \in IfaceType /\ Sound(y) /\ y.vendor = "IXXAT" /\ y.internal.held = {}
        /\ y.name = can_interface[i].name
    BY <2>1, UnheldFacts DEF OnIxxat
  <2>3. x = tab[i]
    BY <1>1
  <2> HIDE DEF y
  <2>4. /\ x \in IfaceType /\ x.name = y.name /\ x.vendor = y.vendor
        /\ x.internal = y.internal /\ x.opened = 0
    BY <2>2 DEF IfaceType, Iface
  <2> HIDE DEF x
  <2>5. Sound(x) /\ Holds(x) = {}
    BY <2>2, <2>4 DEF Sound, Holds, Sock
  <2> HIDE DEF tab
  <2> QED BY <2>2, <2>3, <2>4, <2>5
<1>3. \A i \in Slots \ S : tab[i] = can_interface[i]
  BY <1>1
<1>4. tab \in [Slots -> IfaceType]
  <2>1. \A i \in Slots : tab[i] \in IfaceType
    BY <1>2, <1>3 DEF Agree
  <2> QED BY <2>1 DEF CloseSlots
<1> HIDE DEF tab
<1>5. /\ Agree(tab, RefsWithout(S), LineWithout(S))
      /\ \A k \in Kind : Missing(tab, RefsWithout(S), k) = Missing(can_interface, refs, k)
  BY <1>2, <1>3, <1>4, DropAgrees
<1> QED BY <1>1, <1>2, <1>3, <1>5 DEF tab

\* can_release of the slots of S.
LEMMA ReleaseAgrees ==
  ASSUME Agree(can_interface, refs, line), NEW S \in SUBSET Slots, ReleaseSlots(S)
  PROVE  /\ Agree(can_interface', refs', line')
         /\ \A k \in Kind :
              Missing(can_interface', refs', k) = Missing(can_interface, refs, k)
         /\ \A i \in Slots \ S : can_interface'[i] = can_interface[i]
         /\ \A i \in S : /\ can_interface'[i].name = NULL
                         /\ can_interface'[i].opened = 0
                         /\ Holds(can_interface'[i]) = {}
<1> DEFINE tab == can_interface'
<1>1. /\ \A i \in Slots : tab[i] = IF i \in S THEN Cleared(can_interface[i])
                                             ELSE can_interface[i]
      /\ refs' = RefsWithout(S)
      /\ line' = LineWithout(S)
  BY DEF ReleaseSlots
<1>2. ASSUME NEW i \in S
      PROVE  /\ tab[i] \in IfaceType /\ Sound(tab[i]) /\ Holds(tab[i]) = {}
             /\ tab[i].name = NULL /\ tab[i].opened = 0
  <2>1. can_interface[i] \in IfaceType
    BY DEF Agree
  <2>2. /\ tab[i] \in IfaceType /\ tab[i].name = NULL /\ tab[i].vendor = "NONE"
        /\ tab[i].opened = 0 /\ tab[i].internal = NULL
    BY <1>1, <2>1, ClearedType DEF IfaceType
  <2> QED BY <2>2 DEF Sound, Holds
<1>3. \A i \in Slots \ S : tab[i] = can_interface[i]
  BY <1>1
<1>4. tab \in [Slots -> IfaceType]
  <2>1. \A i \in Slots : tab[i] \in IfaceType
    BY <1>2, <1>3 DEF Agree
  <2> QED BY <2>1 DEF ReleaseSlots
<1> HIDE DEF tab
<1>5. /\ Agree(tab, RefsWithout(S), LineWithout(S))
      /\ \A k \in Kind : Missing(tab, RefsWithout(S), k) = Missing(can_interface, refs, k)
  BY <1>2, <1>3, <1>4, DropAgrees
<1> QED BY <1>1, <1>2, <1>3, <1>5 DEF tab

-----------------------------------------------------------------------------
(* Starting a line *)

\* The slot and the counts a start leaves: got are the FIFOs VCI gave out, kept
\* the pointers to FIFOs of an earlier start.
Started(iface, got, kept) ==
  [iface EXCEPT !.internal.held = {"can"} \cup got \cup kept]

Counted(cnt, got) ==
  [k \in Kind |-> IF k \in got \cup {"can"} THEN cnt[k] + 1 ELSE cnt[k]]

Starts(i, iface, running, cnt, got, kept) ==
  /\ cnt["can"] < MaxRefs
  /\ got \in SUBSET {k \in Fifo : cnt[k] < MaxRefs}
  /\ kept \in SUBSET (iface.internal.held \cap Fifo)
  /\ line' = running \cup {SocketOf(i)}
  /\ refs' = Counted(cnt, got)
  /\ can_interface' = [can_interface EXCEPT ![i] = Started(iface, got, kept)]

LEMMA StartCases ==
  ASSUME NEW i, NEW iface, NEW running, NEW cnt, StartSucceeds(i, iface, running, cnt)
  PROVE  \E got, kept : Starts(i, iface, running, cnt, got, kept)
<1>1. PICK got \in SUBSET {k \in Fifo : cnt[k] < MaxRefs} :
        \E kept \in SUBSET ((iface.internal.held \cap Fifo) \ got) :
          /\ refs' = [k \in Kind |-> IF k \in got \cup {"can"} THEN cnt[k] + 1 ELSE cnt[k]]
          /\ can_interface' = [can_interface EXCEPT
               ![i] = [iface EXCEPT !.internal.held = {"can"} \cup got \cup kept]]
  BY Zenon DEF StartSucceeds
<1>2. PICK kept \in SUBSET ((iface.internal.held \cap Fifo) \ got) :
          /\ refs' = Counted(cnt, got)
          /\ can_interface' = [can_interface EXCEPT ![i] = Started(iface, got, kept)]
  BY <1>1, Zenon DEF Counted, Started
<1>3. cnt["can"] < MaxRefs /\ line' = running \cup {SocketOf(i)}
  BY DEF StartSucceeds
<1>4. kept \in SUBSET (iface.internal.held \cap Fifo)
  OBVIOUS
<1>5. Starts(i, iface, running, cnt, got, kept)
  BY <1>2, <1>3, <1>4 DEF Starts
<1> QED BY <1>5

LEMMA StartedFacts ==
  ASSUME NEW iface \in IfaceType, Sound(iface), iface.vendor = "IXXAT",
         NEW got \in SUBSET Fifo, NEW kept \in SUBSET Fifo
  PROVE  /\ Started(iface, got, kept) \in IfaceType
         /\ Sound(Started(iface, got, kept))
         /\ Started(iface, got, kept).name = iface.name
         /\ Started(iface, got, kept).opened = iface.opened
         /\ Sock(Started(iface, got, kept)) = Sock(iface)
         /\ Holds(Started(iface, got, kept)) = {"can"} \cup got \cup kept
<1> DEFINE held == {"can"} \cup got \cup kept
           c == [iface.internal EXCEPT !.held = held]
           x == Started(iface, got, kept)
<1>1. iface.internal \in ixxat_ctx_t /\ held \subseteq Kind
  BY HoldsType DEF Kind
<1> HIDE DEF held
<1>2. /\ c \in ixxat_ctx_t /\ c.held = held
      /\ c.board = iface.internal.board /\ c.bus_no = iface.internal.bus_no
  BY <1>1 DEF ixxat_ctx_t
<1>3. x = [iface EXCEPT !.internal = c]
  BY DEF Started, IfaceType, Iface, held
<1> HIDE DEF c
<1>4. /\ x \in IfaceType /\ x.name = iface.name /\ x.vendor = iface.vendor
      /\ x.opened = iface.opened /\ x.internal = c
  BY <1>2, <1>3 DEF IfaceType, Iface
<1> HIDE DEF x
<1>5. c # NULL /\ iface.name # NULL
  BY <1>2, HoldsType, IxxatAssumption
<1>6. Sound(x)
  BY <1>2, <1>4, <1>5 DEF Sound, Sock
<1>7. Sock(x) = Sock(iface) /\ Holds(x) = held
  BY <1>2, <1>4 DEF Sock, Holds
<1> QED BY <1>4, <1>6, <1>7 DEF x, held

\* A start puts x in slot i of tab and counts the references it was given.
StartPuts(tab, cnt, run, i, x, got, kept, new, counts) ==
  /\ Agree(tab, cnt, run)
  /\ i \in Slots /\ tab[i].name # NULL
  /\ x \in IfaceType /\ Sound(x)
  /\ x.name = tab[i].name /\ Sock(x) = Sock(tab[i])
  /\ \A k \in got \cup {"can"} : k \in Kind /\ cnt[k] < MaxRefs
  /\ kept \subseteq Holds(tab[i])
  /\ Holds(x) = {"can"} \cup got \cup kept
  /\ new \in [Slots -> IfaceType]
  /\ \A j \in Slots : new[j] = IF j = i THEN x ELSE tab[j]
  /\ counts \in [Kind -> Int]
  /\ \A k \in Kind : counts[k] = IF k \in got \cup {"can"} THEN cnt[k] + 1 ELSE cnt[k]

\* It counts a reference for every pointer it writes, and loses the one of a
\* pointer it writes over.
LEMMA StartAgrees ==
  ASSUME NEW tab, NEW cnt, NEW run, NEW i, NEW x, NEW got, NEW kept, NEW new, NEW counts,
         StartPuts(tab, cnt, run, i, x, got, kept, new, counts)
  PROVE  /\ Agree(new, counts, run \cup {Sock(x)})
         /\ \A k \in Kind \ Holds(tab[i]) : Missing(new, counts, k) = Missing(tab, cnt, k)
<1>0. /\ Agree(tab, cnt, run)
      /\ i \in Slots /\ tab[i].name # NULL
      /\ x \in IfaceType /\ Sound(x)
      /\ x.name = tab[i].name /\ Sock(x) = Sock(tab[i])
      /\ \A k \in got \cup {"can"} : k \in Kind /\ cnt[k] < MaxRefs
      /\ kept \subseteq Holds(tab[i])
      /\ Holds(x) = {"can"} \cup got \cup kept
      /\ new \in [Slots -> IfaceType]
      /\ counts \in [Kind -> Int]
      /\ \A k \in Kind : counts[k] = IF k \in got \cup {"can"} THEN cnt[k] + 1 ELSE cnt[k]
  BY DEF StartPuts
<1>1. \A j \in Slots : new[j] = IF j = i THEN x ELSE tab[j]
  BY DEF StartPuts
<1>2. counts \in [Kind -> 0 .. MaxRefs]
  <2>1. \A k \in Kind : cnt[k] \in 0 .. MaxRefs
    BY <1>0 DEF Agree
  <2> QED BY <1>0, <2>1, IxxatAssumption
<1>3. \A k : Holding(new, k) = IF k \in Holds(x) THEN Holding(tab, k) \cup {i}
                                                 ELSE Holding(tab, k) \ {i}
  BY <1>0, <1>1 DEF Holding
<1>4. ASSUME NEW k \in Kind
      PROVE  /\ Cardinality(Holding(new, k)) <= counts[k]
             /\ k \notin Holds(tab[i]) => Missing(new, counts, k) = Missing(tab, cnt, k)
  <2> DEFINE H == Holding(tab, k)
  <2>1. /\ IsFiniteSet(H) /\ Cardinality(H) \in Nat
        /\ Cardinality(H) <= cnt[k] /\ cnt[k] \in 0 .. MaxRefs
    BY <1>0, HoldingFinite DEF Agree
  <2>2. i \in H <=> k \in Holds(tab[i])
    BY <1>0 DEF Holding
  <2> HIDE DEF H
  <2>3. /\ Cardinality(H \cup {i}) = IF i \in H THEN Cardinality(H) ELSE Cardinality(H) + 1
        /\ Cardinality(H \ {i}) = IF i \in H THEN Cardinality(H) - 1 ELSE Cardinality(H)
    BY <2>1, FS_AddElement, FS_RemoveElement
  <2>4. CASE k \in got \cup {"can"}
    <3>1. Holding(new, k) = H \cup {i} /\ counts[k] = cnt[k] + 1
      BY <1>0, <1>3, <2>4 DEF H
    <3> QED BY <2>1, <2>2, <2>3, <3>1, IxxatAssumption DEF Missing, H
  <2>5. CASE k \notin got \cup {"can"} /\ k \in kept
    <3>1. Holding(new, k) = H /\ counts[k] = cnt[k] /\ k \in Holds(tab[i])
      BY <1>0, <1>3, <2>2, <2>5 DEF H
    <3> QED BY <2>1, <3>1
  <2>6. CASE k \notin got \cup {"can"} /\ k \notin kept
    <3>1. Holding(new, k) = H \ {i} /\ counts[k] = cnt[k]
      BY <1>0, <1>3, <2>6 DEF H
    <3> QED BY <2>1, <2>2, <2>3, <3>1, IxxatAssumption DEF Missing, H
  <2> QED BY <2>4, <2>5, <2>6
<1>5. \A j, k \in Slots : j # k /\ new[j].name # NULL => new[j].name # new[k].name
  BY <1>0, <1>1 DEF Agree
<1>6. \A j \in Slots : Sound(new[j])
  BY <1>0, <1>1 DEF Agree
<1>7. \A s \in run \cup {Sock(x)} :
        \E j \in Slots : "can" \in Holds(new[j]) /\ s = Sock(new[j])
  <2>1. "can" \in Holds(new[i]) /\ Sock(new[i]) = Sock(x)
    BY <1>0, <1>1
  <2>2. \A j \in Slots \ {i} : new[j] = tab[j]
    BY <1>1
  <2>3. \A s \in run : \E j \in Slots : "can" \in Holds(tab[j]) /\ s = Sock(tab[j])
    BY <1>0 DEF Agree
  <2> QED BY <1>0, <2>1, <2>2, <2>3
<1>8. run \cup {Sock(x)} \subseteq Socket
  BY <1>0 DEF Agree, Sound
<1>9. Agree(new, counts, run \cup {Sock(x)})
  BY <1>0, <1>2, <1>4, <1>5, <1>6, <1>7, <1>8 DEF Agree
<1> QED BY <1>4, <1>9

-----------------------------------------------------------------------------
(* What a step may do to the table, the references and the lines *)

Quiet == UNCHANGED <<can_interface, refs, line>>

\* A board that goes takes its lines along.
LosesBoard(b) ==
  /\ b \in attached
  /\ attached' = attached \ {b}
  /\ line' = {s \in line : s[1] # b}
  /\ UNCHANGED <<can_interface, refs>>

\* can_open stores the rate before it finds that the slot is free.
StoresBaud(i, b) ==
  /\ can_interface[i].vendor = "NONE"
  /\ can_interface' = [can_interface EXCEPT ![i].baudrate = b]
  /\ UNCHANGED <<refs, line>>

Opens(i, b) == OnIxxat(i) /\ ixxat_open(i, b)

Sets(i, b) == OnIxxat(i) /\ ixxat_set_baudrate(i, b)

Closes(S) == (\A i \in S : OnIxxat(i)) /\ CloseSlots(S)

Registers(s, i) ==
  /\ s \in Socket
  /\ RegisterSocket(s[1], s[2], i)
  /\ UNCHANGED <<refs, line>>

Step ==
  \/ Quiet
  \/ \E b \in Board : LosesBoard(b)
  \/ \E i \in Slots, b \in AnyBaud : StoresBaud(i, b) \/ Opens(i, b) \/ Sets(i, b)
  \/ \E S \in {{}} \cup {{i} : i \in Slots} : Closes(S)
  \/ \E S \in {{}, Slots} \cup {{i} : i \in Slots} : ReleaseSlots(S)
  \/ \E s \in Socket, i \in Slots : Registers(s, i)

LEMMA CallSteps == ASSUME Call PROVE Step
<1>1. ASSUME NEW wanted \in BOOLEAN, can_find_interfaces_mask(wanted)
      PROVE  Step
  BY <1>1 DEF can_find_interfaces_mask, Step, Quiet
<1>2. \A b \in Asked : b \in AnyBaud
  BY IxxatAssumption
<1>3. ASSUME NEW i \in CallIndex, NEW b \in Asked, can_open(i, b)
      PROVE  Step
  <2>1. CASE OpenRejected(i, b) /\ UNCHANGED <<line, refs>>
    BY <1>2, <2>1, OpenRejectedTable DEF Step, Quiet, StoresBaud
  <2>2. CASE Opens(i, b)
    BY <1>2, <2>2 DEF Opens, OnIxxat, Step
  <2> QED BY <1>3, <2>1, <2>2 DEF can_open, Opens
<1>4. ASSUME NEW i \in CallIndex, NEW b \in Asked, can_set_baudrate(i, b)
      PROVE  Step
  <2>1. CASE SetRejected(i, b) /\ UNCHANGED <<line, refs>>
    BY <2>1 DEF SetRejected, Step, Quiet
  <2>2. CASE Sets(i, b)
    BY <1>2, <2>2 DEF Sets, OnIxxat, Step
  <2> QED BY <1>4, <2>1, <2>2 DEF can_set_baudrate, Sets
<1>5. ASSUME NEW i, NEW T \in SUBSET Slots
      PROVE  {i} \cap T \in {{}} \cup {{j} : j \in Slots}
  <2>1. CASE i \in T
    BY <2>1
  <2>2. CASE i \notin T
    BY <2>2
  <2> QED BY <2>1, <2>2
<1>6. ASSUME NEW i \in CallIndex, can_close(i)
      PROVE  Step
  <2> DEFINE T == {j \in Slots : OnIxxat(j)}
  <2>1. Closes({i} \cap T)
    BY <1>6 DEF can_close, Closes
  <2>2. T \in SUBSET Slots
    OBVIOUS
  <2> HIDE DEF T
  <2> QED BY <1>5, <2>1, <2>2 DEF Step
<1>7. ASSUME NEW i \in CallIndex, can_release(i)
      PROVE  Step
  BY <1>5, <1>7 DEF can_release, Step
<1>8. ASSUME can_release_interfaces
      PROVE  Step
  BY <1>8 DEF can_release_interfaces, Step
<1>9. ASSUME NEW i \in CallIndex, can_update(i)
      PROVE  Step
  <2>1. CASE OnIxxat(i) /\ ReleaseSlots({i})
    BY <2>1 DEF OnIxxat, Step
  <2>2. CASE UNCHANGED <<can_interface, line, refs>>
    BY <2>2 DEF Step, Quiet
  <2> QED BY <1>9, <2>1, <2>2 DEF can_update, ixxat_update, Rejected
<1>10. ASSUME NEW i \in CallIndex, can_send(i) \/ can_recv(i)
       PROVE  Step
  BY <1>10 DEF can_send, can_recv, Rejected, Step, Quiet
<1>11. ASSUME NEW i \in CallIndex, NEW bad \in BOOLEAN, can_get(i, bad)
       PROVE  Step
  BY <1>11 DEF can_get, Get, Step, Quiet
<1> QED BY <1>1, <1>3, <1>4, <1>6, <1>7, <1>8, <1>9, <1>10, <1>11 DEF Call

LEMMA NextSteps == ASSUME [Next]_vars PROVE Step
<1>1. CASE Scan
  <2>1. ASSUME NEW b \in Board, ixxat_find_board(b)
        PROVE  Step
    BY <2>1 DEF ixxat_find_board, Step, Quiet
  <2>2. ASSUME NEW s \in Socket, ixxat_find_socket(s[1], s[2])
        PROVE  Step
    <3>1. CASE UNCHANGED can_interface
      BY <2>2, <3>1 DEF ixxat_find_socket, Step, Quiet
    <3>2. ASSUME NEW i \in Slots, RegisterSocket(s[1], s[2], i)
          PROVE  Step
      <4>1. Registers(s, i)
        BY <2>2, <3>2 DEF ixxat_find_socket, Registers
      <4> QED BY <4>1 DEF Step
    <3> QED BY <2>2, <3>1, <3>2 DEF ixxat_find_socket
  <2> QED BY <1>1, <2>1, <2>2 DEF Scan, ixxat_find_end, Step, Quiet
<1>2. ASSUME NEW b \in Board, Unplug(b)
      PROVE  Step
  BY <1>2 DEF Unplug, LosesBoard, Step
<1> QED
  BY <1>1, <1>2, CallSteps DEF Next, vars, Environment, Plug, Arrive, ixxat_recv_entry,
     Step, Quiet

\* What can_open of an Ixxat slot does.
OpenFails(i, b) ==
  /\ can_interface' = [can_interface EXCEPT ![i] = [can_interface[i] EXCEPT !.baudrate = b]]
  /\ StartFails(SocketOf(i), line)
  /\ UNCHANGED refs
  /\ Return("open", -1, "vci")

OpenStarts(i, b) ==
  /\ StartSucceeds(i, [[can_interface[i] EXCEPT !.baudrate = b] EXCEPT !.opened = 1],
                   line, refs)
  /\ Return("open", 0, NULL)

LEMMA OpenCases ==
  ASSUME NEW i, NEW b, ixxat_open(i, b)
  PROVE  OpenFails(i, b) \/ OpenStarts(i, b)
  BY Zenon DEF ixxat_open, OpenFails, OpenStarts

LEMMA OpenFailsAgrees ==
  ASSUME Agree(can_interface, refs, line), NEW i \in Slots, OnIxxat(i), NEW b \in AnyBaud,
         OpenFails(i, b)
  PROVE  /\ Agree(can_interface', refs', line')
         /\ \A k : Holding(can_interface', k) = Holding(can_interface, k)
         /\ \A j \in Slots \ {i} : can_interface'[j] = can_interface[j]
         /\ can_interface'[i].name = can_interface[i].name
         /\ can_interface'[i].opened = can_interface[i].opened
         /\ Holds(can_interface'[i]) = Holds(can_interface[i])
         /\ Sock(can_interface'[i]) = Sock(can_interface[i])
         /\ line' \in {line, line \ {SocketOf(i)}}
<1> DEFINE x == [can_interface[i] EXCEPT !.baudrate = b]
<1>1. can_interface[i] \in IfaceType /\ Sound(can_interface[i])
  BY DEF Agree
<1>2. /\ x \in IfaceType /\ x.name = can_interface[i].name
      /\ x.vendor = can_interface[i].vendor /\ x.opened = can_interface[i].opened
      /\ x.internal = can_interface[i].internal
  BY <1>1, SetBaudType DEF IfaceType
<1>3. can_interface' = [can_interface EXCEPT ![i] = x] /\ refs' = refs
  BY DEF OpenFails
<1>4. line' \in {line, line \ {SocketOf(i)}} /\ line' \in SUBSET line
  BY DEF OpenFails, StartFails
<1> HIDE DEF x
<1>5. Sound(x)
  BY <1>1, <1>2 DEF Sound, Sock
<1>6. /\ Agree(can_interface', refs, line)
      /\ \A k : Holding(can_interface', k) = Holding(can_interface, k)
  BY <1>1, <1>2, <1>3, <1>5, PutSlot
<1>7. can_interface'[i] = x /\ \A j \in Slots \ {i} : can_interface'[j] = can_interface[j]
  BY <1>3 DEF Agree
<1>8. Agree(can_interface', refs', line')
  <2>1. Agree(can_interface', refs, line')
    BY <1>4, <1>6, StopAgrees
  <2> QED BY <1>3, <2>1
<1>9. Holds(x) = Holds(can_interface[i]) /\ Sock(x) = Sock(can_interface[i])
  BY <1>2 DEF Holds, Sock
<1> QED BY <1>2, <1>4, <1>6, <1>7, <1>8, <1>9

LEMMA OpenStartsAgrees ==
  ASSUME Agree(can_interface, refs, line), NEW i \in Slots, OnIxxat(i), NEW b \in AnyBaud,
         OpenStarts(i, b)
  PROVE  /\ Agree(can_interface', refs', line')
         /\ \A k \in Kind \ Holds(can_interface[i]) :
              Missing(can_interface', refs', k) = Missing(can_interface, refs, k)
         /\ \A j \in Slots \ {i} : can_interface'[j] = can_interface[j]
         /\ can_interface'[i].name = can_interface[i].name
         /\ can_interface'[i].opened = 1
         /\ "can" \in Holds(can_interface'[i])
         /\ Sock(can_interface'[i]) = Sock(can_interface[i])
         /\ line' = line \cup {SocketOf(i)}
<1> DEFINE y == [can_interface[i] EXCEPT !.baudrate = b]
           z == [y EXCEPT !.opened = 1]
<1>1. /\ can_interface[i] \in IfaceType /\ Sound(can_interface[i])
      /\ can_interface[i].vendor = "IXXAT" /\ can_interface[i].name # NULL
  BY HoldsType DEF Agree, OnIxxat
<1>2. /\ y \in IfaceType /\ y.name = can_interface[i].name
      /\ y.vendor = can_interface[i].vendor /\ y.internal = can_interface[i].internal
  BY <1>1, SetBaudType DEF IfaceType
<1>3. StartSucceeds(i, z, line, refs)
  BY DEF OpenStarts
<1> HIDE DEF y
<1>4. /\ z \in IfaceType /\ z.name = can_interface[i].name /\ z.opened = 1
      /\ z.vendor = can_interface[i].vendor /\ z.internal = can_interface[i].internal
  BY <1>2 DEF IfaceType, Iface
<1> HIDE DEF z
<1>5. Sound(z) /\ Sock(z) = Sock(can_interface[i])
  BY <1>1, <1>4 DEF Sound, Sock
<1>6. PICK got, kept : Starts(i, z, line, refs, got, kept)
  BY <1>3, StartCases
<1> DEFINE x == Started(z, got, kept)
<1>7. /\ got \in SUBSET {k \in Fifo : refs[k] < MaxRefs} /\ refs["can"] < MaxRefs
      /\ got \in SUBSET Fifo /\ kept \in SUBSET Fifo
      /\ kept \in SUBSET Holds(can_interface[i])
  BY <1>1, <1>4, <1>6 DEF Starts, Holds
<1>8. /\ x \in IfaceType /\ Sound(x) /\ x.name = can_interface[i].name /\ x.opened = 1
      /\ Sock(x) = Sock(can_interface[i]) /\ Holds(x) = {"can"} \cup got \cup kept
  BY <1>1, <1>4, <1>5, <1>7, StartedFacts
<1>9. /\ can_interface' = [can_interface EXCEPT ![i] = x]
      /\ refs' = Counted(refs, got)
      /\ line' = line \cup {SocketOf(i)}
      /\ SocketOf(i) = Sock(x)
  BY <1>6, <1>8 DEF Starts, SocketOf, Sock
<1> HIDE DEF x
<1>10. /\ can_interface' \in [Slots -> IfaceType]
       /\ \A j \in Slots : can_interface'[j] = IF j = i THEN x ELSE can_interface[j]
       /\ refs' \in [Kind -> Int]
       /\ \A k \in Kind : refs'[k] = IF k \in got \cup {"can"} THEN refs[k] + 1 ELSE refs[k]
  BY <1>8, <1>9, IxxatAssumption DEF Agree, Counted
<1>12. \A k \in got \cup {"can"} : k \in Kind /\ refs[k] < MaxRefs
  BY <1>7 DEF Kind
<1>13. StartPuts(can_interface, refs, line, i, x, got, kept, can_interface', refs')
  BY <1>1, <1>7, <1>8, <1>10, <1>12 DEF StartPuts
<1>14. /\ Agree(can_interface', refs', line \cup {Sock(x)})
       /\ \A k \in Kind \ Holds(can_interface[i]) :
            Missing(can_interface', refs', k) = Missing(can_interface, refs, k)
  BY <1>13, StartAgrees
<1>11. can_interface'[i] = x /\ \A j \in Slots \ {i} : can_interface'[j] = can_interface[j]
  BY <1>9 DEF Agree
<1> QED BY <1>8, <1>9, <1>11, <1>14

\* What can_set_baudrate of an Ixxat slot does.
SetFails(i) ==
  /\ can_interface' = [can_interface EXCEPT ![i] = Unheld(can_interface[i])]
  /\ refs' = RefsWithout({i})
  /\ StartFails(SocketOf(i), LineWithout({i}))
  /\ Return("set", -1, "vci")

SetStarts(i, b) ==
  /\ StartSucceeds(i, [Unheld(can_interface[i]) EXCEPT !.baudrate = b],
                   LineWithout({i}), RefsWithout({i}))
  /\ Return("set", 0, NULL)

LEMMA SetCases ==
  ASSUME NEW i, NEW b, ixxat_set_baudrate(i, b)
  PROVE  SetFails(i) \/ SetStarts(i, b)
  BY Zenon DEF ixxat_set_baudrate, SetFails, SetStarts

LEMMA SetFailsAgrees ==
  ASSUME Agree(can_interface, refs, line), NEW i \in Slots, OnIxxat(i), SetFails(i)
  PROVE  /\ Agree(can_interface', refs', line')
         /\ \A k \in Kind :
              Missing(can_interface', refs', k) = Missing(can_interface, refs, k)
         /\ \A j \in Slots \ {i} : can_interface'[j] = can_interface[j]
         /\ can_interface'[i].name = can_interface[i].name
         /\ Holds(can_interface'[i]) = {}
<1> DEFINE x == Unheld(can_interface[i])
<1>1. can_interface[i] \in IfaceType /\ Sound(can_interface[i])
  BY DEF Agree
<1>2. /\ x \in IfaceType /\ Sound(x) /\ x.name = can_interface[i].name
      /\ Holds(x) = {}
  BY <1>1, UnheldFacts DEF OnIxxat, Holds
<1>3. /\ can_interface' = [can_interface EXCEPT ![i] = x]
      /\ refs' = RefsWithout({i})
      /\ line' \in SUBSET LineWithout({i})
  BY DEF SetFails, StartFails
<1> HIDE DEF x
<1>4. /\ can_interface' \in [Slots -> IfaceType]
      /\ can_interface'[i] = x
      /\ \A j \in Slots \ {i} : can_interface'[j] = can_interface[j]
  BY <1>2, <1>3 DEF Agree
<1>5. {i} \in SUBSET Slots
  OBVIOUS
<1>6. /\ Agree(can_interface', RefsWithout({i}), LineWithout({i}))
      /\ \A k \in Kind :
           Missing(can_interface', RefsWithout({i}), k) = Missing(can_interface, refs, k)
  BY <1>2, <1>4, <1>5, DropAgrees
<1>7. Agree(can_interface', RefsWithout({i}), line')
  BY <1>3, <1>6, StopAgrees
<1> QED BY <1>2, <1>3, <1>4, <1>6, <1>7

LEMMA SetStartsAgrees ==
  ASSUME Agree(can_interface, refs, line), NEW i \in Slots, OnIxxat(i), NEW b \in AnyBaud,
         SetStarts(i, b)
  PROVE  /\ Agree(can_interface', refs', line')
         /\ \A k \in Kind :
              Missing(can_interface', refs', k) = Missing(can_interface, refs, k)
         /\ \A j \in Slots \ {i} : can_interface'[j] = can_interface[j]
         /\ can_interface'[i].name = can_interface[i].name
         /\ "can" \in Holds(can_interface'[i])
<1> DEFINE y == Unheld(can_interface[i])
           z == [y EXCEPT !.baudrate = b]
           tab == [can_interface EXCEPT ![i] = z]
           cnt == RefsWithout({i})
           run == LineWithout({i})
<1>1. /\ can_interface[i] \in IfaceType /\ Sound(can_interface[i])
      /\ can_interface[i].vendor = "IXXAT" /\ can_interface[i].name # NULL
  BY HoldsType DEF Agree, OnIxxat
<1>2. /\ y \in IfaceType /\ Sound(y) /\ y.name = can_interface[i].name
      /\ y.vendor = "IXXAT" /\ y.internal.held = {} /\ Sock(y) = Sock(can_interface[i])
  BY <1>1, UnheldFacts
<1>3. StartSucceeds(i, z, run, cnt)
  BY DEF SetStarts
<1> HIDE DEF y
<1>4. /\ z \in IfaceType /\ z.name = y.name /\ z.vendor = y.vendor
      /\ z.internal = y.internal
  BY <1>2, SetBaudType DEF IfaceType
<1> HIDE DEF z
<1>5. Sound(z) /\ Sock(z) = Sock(can_interface[i]) /\ Holds(z) = {} /\ z.vendor = "IXXAT"
  BY <1>2, <1>4 DEF Sound, Sock, Holds
<1>6. /\ tab \in [Slots -> IfaceType] /\ tab[i] = z
      /\ \A j \in Slots \ {i} : tab[j] = can_interface[j]
  BY <1>4 DEF Agree
<1>7. PICK got, kept : Starts(i, z, run, cnt, got, kept)
  BY <1>3, StartCases
<1> HIDE DEF tab, cnt, run
<1>8. {i} \in SUBSET Slots
  OBVIOUS
<1>9. /\ Agree(tab, cnt, run)
      /\ \A k \in Kind : Missing(tab, cnt, k) = Missing(can_interface, refs, k)
  BY <1>2, <1>4, <1>5, <1>6, <1>8, DropAgrees DEF cnt, run
<1> DEFINE x == Started(z, got, kept)
<1>10. /\ \A k \in got \cup {"can"} : k \in Kind /\ cnt[k] < MaxRefs
       /\ got \in SUBSET Fifo /\ kept \in SUBSET Fifo
       /\ kept \subseteq Holds(tab[i])
  BY <1>2, <1>4, <1>6, <1>7 DEF Starts, Kind
<1>11. /\ x \in IfaceType /\ Sound(x) /\ x.name = can_interface[i].name
       /\ Sock(x) = Sock(can_interface[i]) /\ Holds(x) = {"can"} \cup got \cup kept
  <2>1. z \in IfaceType /\ Sound(z) /\ z.vendor = "IXXAT"
    BY <1>4, <1>5
  <2>2. got \in SUBSET Fifo /\ kept \in SUBSET Fifo
    BY <1>10
  <2>3. /\ x \in IfaceType /\ Sound(x) /\ x.name = z.name /\ Sock(x) = Sock(z)
        /\ Holds(x) = {"can"} \cup got \cup kept
    BY <2>1, <2>2, StartedFacts
  <2> HIDE DEF x
  <2> QED BY <1>2, <1>4, <1>5, <2>3
<1>12. /\ can_interface' = [can_interface EXCEPT ![i] = x]
       /\ refs' = Counted(cnt, got)
       /\ line' = run \cup {SocketOf(i)}
       /\ SocketOf(i) = Sock(x)
  BY <1>7, <1>11 DEF Starts, SocketOf, Sock
<1> HIDE DEF x
<1>13. /\ can_interface' \in [Slots -> IfaceType]
       /\ can_interface'[i] = x
       /\ \A j \in Slots \ {i} : can_interface'[j] = can_interface[j]
  BY <1>11, <1>12 DEF Agree
<1>14. /\ refs' \in [Kind -> Int]
       /\ \A k \in Kind : refs'[k] = IF k \in got \cup {"can"} THEN cnt[k] + 1 ELSE cnt[k]
  BY <1>9, <1>12, IxxatAssumption DEF Agree, Counted
<1>15. StartPuts(tab, cnt, run, i, x, got, kept, can_interface', refs')
  <2>1. \A j \in Slots : can_interface'[j] = IF j = i THEN x ELSE tab[j]
    BY <1>6, <1>13
  <2>2. tab[i].name # NULL /\ x.name = tab[i].name /\ Sock(x) = Sock(tab[i])
    BY <1>1, <1>2, <1>4, <1>5, <1>6, <1>11
  <2> QED BY <1>9, <1>10, <1>11, <1>13, <1>14, <2>1, <2>2 DEF StartPuts
<1>16. /\ Agree(can_interface', refs', run \cup {Sock(x)})
       /\ \A k \in Kind \ Holds(tab[i]) :
            Missing(can_interface', refs', k) = Missing(tab, cnt, k)
  BY <1>15, StartAgrees
<1>17. \A k \in Kind : Missing(can_interface', refs', k) = Missing(can_interface, refs, k)
  BY <1>5, <1>6, <1>9, <1>16
<1> QED BY <1>11, <1>12, <1>13, <1>16, <1>17

LEMMA StoresBaudAgrees ==
  ASSUME Agree(can_interface, refs, line), NEW i \in Slots, NEW b \in AnyBaud,
         StoresBaud(i, b)
  PROVE  /\ Agree(can_interface', refs', line')
         /\ refs' = refs /\ line' = line
         /\ \A k : Holding(can_interface', k) = Holding(can_interface, k)
         /\ \A j \in Slots : /\ can_interface'[j].name = can_interface[j].name
                             /\ can_interface'[j].opened = can_interface[j].opened
                             /\ Holds(can_interface'[j]) = Holds(can_interface[j])
                             /\ j # i => can_interface'[j] = can_interface[j]
<1> DEFINE x == [can_interface[i] EXCEPT !.baudrate = b]
<1>1. can_interface[i] \in IfaceType /\ Sound(can_interface[i])
  BY DEF Agree
<1>2. /\ x \in IfaceType /\ x.name = can_interface[i].name
      /\ x.vendor = can_interface[i].vendor /\ x.opened = can_interface[i].opened
      /\ x.internal = can_interface[i].internal
  BY <1>1, SetBaudType DEF IfaceType
<1>3. can_interface' = [can_interface EXCEPT ![i] = x] /\ refs' = refs /\ line' = line
  BY DEF StoresBaud
<1> HIDE DEF x
<1>4. Sound(x) /\ Holds(x) = Holds(can_interface[i])
  BY <1>1, <1>2 DEF Sound, Sock, Holds
<1>5. /\ Agree(can_interface', refs, line)
      /\ \A k : Holding(can_interface', k) = Holding(can_interface, k)
  BY <1>1, <1>2, <1>3, <1>4, PutSlot
<1>6. can_interface'[i] = x /\ \A j \in Slots \ {i} : can_interface'[j] = can_interface[j]
  BY <1>3 DEF Agree
<1> QED BY <1>2, <1>3, <1>4, <1>5, <1>6

\* A registration as far as table, references and lines go: any free slot does.
NewIface(b, n) ==
  [name |-> Name(b, n), vendor |-> "IXXAT", opened |-> 0, baudrate |-> CAN_BAUD_1M,
   internal |-> [board |-> b, bus_no |-> n, held |-> {}]]

Fills(s, i) ==
  /\ s \in Socket
  /\ ~AlreadyRegistered(Name(s[1], s[2]))
  /\ Free(i)
  /\ can_interface' = [can_interface EXCEPT ![i] = NewIface(s[1], s[2])]
  /\ UNCHANGED <<refs, line>>

LEMMA FillAgrees ==
  ASSUME Agree(can_interface, refs, line), NEW s, NEW i \in Slots, Fills(s, i)
  PROVE  /\ Agree(can_interface', refs', line')
         /\ refs' = refs /\ line' = line
         /\ \A k : Holding(can_interface', k) = Holding(can_interface, k)
         /\ \A j \in Slots \ {i} : can_interface'[j] = can_interface[j]
         /\ can_interface[i].name = NULL
         /\ can_interface'[i].opened = 0
         /\ can_interface'[i].name \in Device
         /\ \A j \in Slots : can_interface[j].name # can_interface'[i].name
         /\ Holds(can_interface'[i]) = {} /\ Holds(can_interface[i]) = {}
<1> DEFINE c == [board |-> s[1], bus_no |-> s[2], held |-> {}]
           x == [name |-> Name(s[1], s[2]), vendor |-> "IXXAT", opened |-> 0,
                 baudrate |-> CAN_BAUD_1M, internal |-> c]
<1>1. s \in Socket /\ s = <<s[1], s[2]>> /\ s[1] \in Board /\ s[2] \in CanBus[s[1]]
  BY DEF Fills, Socket
<1>2. /\ can_interface[i].name = NULL
      /\ \A j \in Slots : can_interface[j].name # Name(s[1], s[2])
      /\ can_interface' = [can_interface EXCEPT ![i] = x]
      /\ refs' = refs /\ line' = line
  BY DEF Fills, Free, AlreadyRegistered, NewIface
<1>3. /\ c \in ixxat_ctx_t /\ c.held = {} /\ c.board = s[1] /\ c.bus_no = s[2]
  BY <1>1 DEF ixxat_ctx_t
<1>4. Name(s[1], s[2]) \in Device /\ Name(s[1], s[2]) # NULL
  BY <1>1, IxxatAssumption, TableAssumption
<1> HIDE DEF c
<1>5. /\ x \in IfaceType /\ x.name = Name(s[1], s[2]) /\ x.vendor = "IXXAT"
      /\ x.opened = 0 /\ x.internal = c
  BY <1>3, <1>4, TableAssumption DEF IfaceType, Iface, AnyBaud
<1> HIDE DEF x
<1>6. Sound(x) /\ Holds(x) = {}
  <2>1. c # NULL
    BY <1>3, IxxatAssumption
  <2> QED BY <1>1, <1>3, <1>4, <1>5, <2>1 DEF Sound, Holds, Sock
<1>7. /\ can_interface' \in [Slots -> IfaceType]
      /\ can_interface'[i] = x
      /\ \A j \in Slots \ {i} : can_interface'[j] = can_interface[j]
  BY <1>2, <1>5 DEF Agree
<1>8. Holds(can_interface[i]) = {}
  BY <1>2 DEF Agree, Sound, Holds
<1>9. \A j \in Slots : Holds(can_interface'[j]) = Holds(can_interface[j])
  BY <1>6, <1>7, <1>8
<1>10. \A k : Holding(can_interface', k) = Holding(can_interface, k)
  BY <1>9 DEF Holding
<1>11. \A j \in Slots : Sound(can_interface'[j])
  BY <1>6, <1>7 DEF Agree
<1>12. \A j, k \in Slots : j # k /\ can_interface'[j].name # NULL
                             => can_interface'[j].name # can_interface'[k].name
  BY <1>2, <1>5, <1>7 DEF Agree
<1>13. \A t \in line : \E j \in Slots : "can" \in Holds(can_interface'[j])
                                           /\ t = Sock(can_interface'[j])
  BY <1>7, <1>8 DEF Agree
<1>14. Agree(can_interface', refs, line)
  BY <1>7, <1>10, <1>11, <1>12, <1>13 DEF Agree
<1> QED BY <1>2, <1>4, <1>5, <1>6, <1>7, <1>8, <1>10, <1>14

LEMMA RegisterAgrees ==
  ASSUME Agree(can_interface, refs, line), NEW s, NEW i \in Slots, Registers(s, i)
  PROVE  /\ Agree(can_interface', refs', line')
         /\ refs' = refs /\ line' = line
         /\ \A k : Holding(can_interface', k) = Holding(can_interface, k)
         /\ \A j \in Slots \ {i} : can_interface'[j] = can_interface[j]
         /\ can_interface[i].name = NULL
         /\ can_interface'[i].opened = 0
         /\ can_interface'[i].name \in Device
         /\ \A j \in Slots : /\ can_interface[j].name # can_interface'[i].name
                             /\ j < i => can_interface[j].name # NULL
         /\ Holds(can_interface'[i]) = {} /\ Holds(can_interface[i]) = {}
<1>1. Fills(s, i)
  BY DEF Registers, RegisterSocket, FirstFree, Fills, NewIface
<1>2. \A j \in Slots : j < i => can_interface[j].name # NULL
  BY DEF Registers, RegisterSocket, FirstFree, Free
<1> QED BY <1>1, <1>2, FillAgrees

LEMMA StepAgrees ==
  ASSUME Agree(can_interface, refs, line), Step
  PROVE  Agree(can_interface', refs', line')
<1>1. CASE Quiet
  BY <1>1 DEF Quiet
<1>2. ASSUME NEW b \in Board, LosesBoard(b)
      PROVE  Agree(can_interface', refs', line')
  <2>1. line' \in SUBSET line /\ refs' = refs /\ can_interface' = can_interface
    BY <1>2 DEF LosesBoard
  <2>2. Agree(can_interface, refs, line')
    BY <2>1, StopAgrees
  <2> QED BY <2>1, <2>2
<1>3. ASSUME NEW i \in Slots, NEW b \in AnyBaud, StoresBaud(i, b)
      PROVE  Agree(can_interface', refs', line')
  BY <1>3, StoresBaudAgrees
<1>4. ASSUME NEW i \in Slots, NEW b \in AnyBaud, Opens(i, b)
      PROVE  Agree(can_interface', refs', line')
  BY <1>4, OpenCases, OpenFailsAgrees, OpenStartsAgrees DEF Opens
<1>5. ASSUME NEW i \in Slots, NEW b \in AnyBaud, Sets(i, b)
      PROVE  Agree(can_interface', refs', line')
  BY <1>5, SetCases, SetFailsAgrees, SetStartsAgrees DEF Sets
<1>6. ASSUME NEW S \in {{}} \cup {{i} : i \in Slots}, Closes(S)
      PROVE  Agree(can_interface', refs', line')
  BY <1>6, CloseAgrees DEF Closes
<1>7. ASSUME NEW S \in {{}, Slots} \cup {{i} : i \in Slots}, ReleaseSlots(S)
      PROVE  Agree(can_interface', refs', line')
  BY <1>7, ReleaseAgrees
<1>8. ASSUME NEW s \in Socket, NEW i \in Slots, Registers(s, i)
      PROVE  Agree(can_interface', refs', line')
  BY <1>8, RegisterAgrees
<1> QED BY <1>1, <1>2, <1>3, <1>4, <1>5, <1>6, <1>7, <1>8 DEF Step

-----------------------------------------------------------------------------
(* The scan, the loop of can_recv and what a call returns *)

ScanType ==
  /\ ret \in Result(Reason)
  /\ attached \subseteq Board
  /\ pc \in {"idle", "find", "recv"}
  /\ todo \subseteq Board
  /\ sockets \subseteq Socket
  /\ rx \in Slots
  /\ fifo \in Seq(Message) /\ Len(fifo) <= MaxFifo

LEMMA EmptyFifo ==
  /\ 0 \in Slots
  /\ <<>> \in Seq(Message) /\ Len(<<>>) <= MaxFifo
  BY TableAssumption, IxxatAssumption DEF Slots

LEMMA CallScanType == ASSUME ScanType, Call PROVE ScanType'
<1>1. ASSUME NEW wanted \in BOOLEAN, can_find_interfaces_mask(wanted)
      PROVE  ScanType'
  <2>1. ret' \in Result(Reason)
    BY <1>1, NoCallType, ReturnType DEF can_find_interfaces_mask, EndScan, Op
  <2> QED BY <1>1, <2>1 DEF can_find_interfaces_mask, EndScan, ScanType, recv
<1>2. ASSUME NEW i \in CallIndex, NEW b \in Asked, can_open(i, b)
      PROVE  ScanType'
  <2>1. ret' \in Result(Reason)
    <3>1. CASE OpenRejected(i, b)
      BY <3>1, OpenRejectedType
    <3>2. CASE ixxat_open(i, b)
      <4>1. Return("open", -1, "vci") \/ Return("open", 0, NULL)
        BY <3>2, OpenCases DEF OpenFails, OpenStarts
      <4> QED BY <4>1, ReturnType DEF Op, Reason
    <3> QED BY <1>2, <3>1, <3>2 DEF can_open
  <2> QED BY <1>2, <2>1 DEF can_open, ScanType, scan, recv
<1>3. ASSUME NEW i \in CallIndex, NEW b \in Asked, can_set_baudrate(i, b)
      PROVE  ScanType'
  <2>1. ret' \in Result(Reason)
    <3>1. CASE SetRejected(i, b)
      BY <3>1, SetRejectedType
    <3>2. CASE ixxat_set_baudrate(i, b)
      <4>1. Return("set", -1, "vci") \/ Return("set", 0, NULL)
        BY <3>2, SetCases DEF SetFails, SetStarts
      <4> QED BY <4>1, ReturnType DEF Op, Reason
    <3> QED BY <1>3, <3>1, <3>2 DEF can_set_baudrate
  <2> QED BY <1>3, <2>1 DEF can_set_baudrate, ScanType, scan, recv
<1>4. ASSUME NEW i \in CallIndex, can_close(i) \/ can_release(i)
      PROVE  ScanType'
  <2>1. ret' \in Result(Reason)
    BY <1>4, ReturnType DEF can_close, can_release, Op
  <2> QED BY <1>4, <2>1 DEF can_close, can_release, ScanType, scan, recv
<1>5. ASSUME can_release_interfaces
      PROVE  ScanType'
  <2>1. ret' \in Result(Reason)
    BY <1>5, ReturnType DEF can_release_interfaces, Op
  <2> QED BY <1>5, <2>1 DEF can_release_interfaces, ScanType, scan, recv
<1>6. ASSUME NEW i \in CallIndex, can_update(i)
      PROVE  ScanType'
  <2>1. ret' \in Result(Reason)
    BY <1>6, RejectedType, ReturnType DEF can_update, ixxat_update, Op
  <2> QED BY <1>6, <2>1 DEF can_update, ScanType, scan, recv
<1>7. ASSUME NEW i \in CallIndex, NEW bad \in BOOLEAN, can_get(i, bad)
      PROVE  ScanType'
  <2>1. ret' \in Result(Reason)
    BY <1>7, GetType DEF can_get
  <2> QED BY <1>7, <2>1 DEF can_get, ScanType, scan, recv
<1>8. ASSUME NEW i \in CallIndex, can_send(i)
      PROVE  ScanType'
  <2>1. ret' \in Result(Reason)
    BY <1>8, RejectedType, ReturnType DEF can_send, ixxat_send, Op, Reason
  <2> QED BY <1>8, <2>1 DEF can_send, ScanType, scan, recv
<1>9. ASSUME NEW i \in CallIndex, can_recv(i)
      PROVE  ScanType'
  <2>1. ret' \in Result(Reason)
    BY <1>9, RejectedType, ReturnType, NoCallType DEF can_recv, Op, Reason
  <2>2. rx' \in Slots /\ fifo' \in Seq(Message) /\ Len(fifo') <= MaxFifo
    <3>1. CASE UNCHANGED recv
      BY <3>1 DEF recv, ScanType
    <3>2. CASE OnIxxat(i) /\ rx' = i
               /\ fifo' \in UNION {[1 .. n -> Message] : n \in 0 .. MaxFifo}
      <4>1. PICK n \in 0 .. MaxFifo : fifo' \in [1 .. n -> Message]
        BY <3>2
      <4> QED BY <3>2, <4>1, IxxatAssumption DEF OnIxxat
    <3> QED BY <1>9, <3>1, <3>2 DEF can_recv
  <2>3. pc' \in {"idle", "find", "recv"}
    BY <1>9 DEF can_recv, ScanType
  <2> QED BY <1>9, <2>1, <2>2, <2>3 DEF can_recv, ScanType, scan
<1> QED BY <1>1, <1>2, <1>3, <1>4, <1>5, <1>6, <1>7, <1>8, <1>9 DEF Call

LEMMA ScanScanType == ASSUME ScanType, Scan PROVE ScanType'
<1>1. ASSUME NEW b \in Board, ixxat_find_board(b)
      PROVE  ScanType'
  <2>1. {b} \X CanBus[b] \subseteq Socket
    BY DEF Socket
  <2> QED BY <1>1, <2>1 DEF ixxat_find_board, ScanType, recv
<1>2. ASSUME NEW s \in Socket, ixxat_find_socket(s[1], s[2])
      PROVE  ScanType'
  BY <1>2 DEF ixxat_find_socket, ScanType, recv
<1>3. ASSUME ixxat_find_end
      PROVE  ScanType'
  <2>1. ret' \in Result(Reason)
    BY <1>3, ReturnType DEF ixxat_find_end, EndScan, Op
  <2> QED BY <1>3, <2>1 DEF ixxat_find_end, EndScan, ScanType, recv
<1> QED BY <1>1, <1>2, <1>3 DEF Scan

LEMMA NextScanType == ASSUME ScanType, [Next]_vars PROVE ScanType'
<1>1. ASSUME ixxat_recv_entry
      PROVE  ScanType'
  <2>1. ASSUME NEW v \in {0, -1}, EndRecv(v)
        PROVE  rx' = 0 /\ fifo' = <<>> /\ pc' = "idle" /\ ret' \in Result(Reason)
    BY <2>1, ReturnType DEF EndRecv, Op
  <2>2. CASE \E v \in {0, -1} : EndRecv(v)
    BY <1>1, <2>1, <2>2, EmptyFifo DEF ixxat_recv_entry, ScanType, scan
  <2>3. CASE fifo # <<>> /\ fifo' = Tail(fifo) /\ UNCHANGED <<pc, rx, ret>>
    <3>1. fifo' \in Seq(Message) /\ Len(fifo') <= MaxFifo
      BY <2>3, IxxatAssumption DEF ScanType
    <3> QED BY <1>1, <2>3, <3>1 DEF ixxat_recv_entry, ScanType, scan
  <2> QED BY <1>1, <2>2, <2>3 DEF ixxat_recv_entry, ixxat_recv
<1>2. ASSUME NEW b \in Board, Plug(b) \/ Unplug(b)
      PROVE  ScanType'
  BY <1>2 DEF Plug, Unplug, ScanType, scan, recv
<1>3. ASSUME NEW m \in Message, Arrive(m)
      PROVE  ScanType'
  <2>1. fifo' \in Seq(Message) /\ Len(fifo') <= MaxFifo
    BY <1>3, IxxatAssumption DEF Arrive, ScanType
  <2> QED BY <1>3, <2>1 DEF Arrive, ScanType, scan
<1>4. CASE UNCHANGED vars
  BY <1>4 DEF vars, ScanType
<1> QED BY <1>1, <1>2, <1>3, <1>4, CallScanType, ScanScanType DEF Next, Environment

-----------------------------------------------------------------------------
(* The inductive invariant *)

IInv == ScanType /\ Agree(can_interface, refs, line)

LEMMA Initially == ASSUME Init PROVE IInv
<1>1. ScanType
  BY NoCallType, EmptyFifo DEF Init, ScanType
<1>2. /\ can_interface \in [Slots -> IfaceType]
      /\ \A i \in Slots : can_interface[i] = ZeroIface
  BY ZeroIfaceType DEF Init, IfaceType
<1>3. \A k : Holding(can_interface, k) = {}
  BY <1>2 DEF Holding, Holds, ZeroIface
<1>4. /\ refs = [k \in Kind |-> 0] /\ line = {}
      /\ refs \in [Kind -> 0 .. MaxRefs]
  BY IxxatAssumption DEF Init
<1>5. \A k \in Kind : Cardinality(Holding(can_interface, k)) <= refs[k]
  BY <1>3, <1>4, FS_EmptySet
<1>6. \A i \in Slots : Sound(can_interface[i]) /\ can_interface[i].name = NULL
  BY <1>2 DEF Sound, ZeroIface
<1> QED BY <1>1, <1>2, <1>4, <1>5, <1>6 DEF IInv, Agree

LEMMA Invariant == Spec => []IInv
<1>1. Init => IInv
  BY Initially
<1>2. IInv /\ [Next]_vars => IInv'
  BY NextScanType, NextSteps, StepAgrees DEF IInv, Agree
<1> QED BY <1>1, <1>2, PTL DEF Spec

LEMMA HoldersAre ==
  /\ \A k : Holders(k) = Holding(can_interface, k)
  /\ \A i : SocketOf(i) = Sock(can_interface[i])
  BY HeldIs DEF Holders, Holding, SocketOf, Sock

\* Type correctness: of the table and the library's reports, of the references
\* VCI counts, of the sets a scan walks and of the FIFO can_recv reads.
THEOREM TypeCorrect == Spec => []TypeOK
<1>1. IInv => TypeOK
  BY DEF IInv, ScanType, Agree, IfaceType, TypeOK
<1> QED BY <1>1, Invariant, PTL

\* Every pointer in a context has a reference of its own, so that no release
\* gives back another interface's, and a line that runs has a context that can
\* stop it (ixxat_open, ixxat_set_baudrate, ixxat_close).
THEOREM RefsAreHeld == Spec => []RefsHeld
<1>1. IInv => RefsHeld
  BY HoldersAre DEF IInv, Agree, Holding, RefsHeld
<1> QED BY <1>1, Invariant, PTL

-----------------------------------------------------------------------------
(* When a reference is lost *)

LEMMA StepLoses ==
  ASSUME IInv, Step, NEW k \in Kind,
         Missing(can_interface', refs', k) # Missing(can_interface, refs, k)
  PROVE  /\ ret'.op = "open" /\ ret'.val = 0
         /\ \E i \in Holding(can_interface, k) : "can" \in Holds(can_interface'[i])
<1> DEFINE Kept == Missing(can_interface', refs', k) = Missing(can_interface, refs, k)
<1>1. Agree(can_interface, refs, line)
  BY DEF IInv
<1>2. ASSUME NEW i \in Slots, NEW b \in AnyBaud, Opens(i, b)
      PROVE  /\ ret'.op = "open" /\ ret'.val = 0
             /\ i \in Holding(can_interface, k) /\ "can" \in Holds(can_interface'[i])
  <2>1. CASE OpenFails(i, b)
    <3>1. /\ \A l : Holding(can_interface', l) = Holding(can_interface, l)
          /\ refs' = refs
      BY <1>1, <1>2, <2>1, OpenFailsAgrees DEF Opens, OpenFails
    <3> QED BY <3>1 DEF Missing
  <2>2. CASE OpenStarts(i, b)
    <3>1. ret'.op = "open" /\ ret'.val = 0
      BY <2>2, ReturnFields DEF OpenStarts
    <3>2. k \in Holds(can_interface[i]) /\ "can" \in Holds(can_interface'[i])
      BY <1>1, <1>2, <2>2, OpenStartsAgrees DEF Opens
    <3> QED BY <3>1, <3>2 DEF Holding
  <2> QED BY <1>2, <2>1, <2>2, OpenCases DEF Opens
<1>3. ASSUME NEW b \in Board, LosesBoard(b) PROVE Kept
  BY <1>3 DEF LosesBoard
<1>4. ASSUME NEW i \in Slots, NEW b \in AnyBaud, StoresBaud(i, b) PROVE Kept
  BY <1>1, <1>4, StoresBaudAgrees DEF Missing
<1>5. ASSUME NEW i \in Slots, NEW b \in AnyBaud, Sets(i, b) PROVE Kept
  BY <1>1, <1>5, SetCases, SetFailsAgrees, SetStartsAgrees DEF Sets
<1>6. ASSUME NEW S \in {{}} \cup {{i} : i \in Slots}, Closes(S) PROVE Kept
  BY <1>1, <1>6, CloseAgrees DEF Closes
<1>7. ASSUME NEW S \in {{}, Slots} \cup {{i} : i \in Slots}, ReleaseSlots(S) PROVE Kept
  BY <1>1, <1>7, ReleaseAgrees
<1>8. ASSUME NEW s \in Socket, NEW i \in Slots, Registers(s, i) PROVE Kept
  BY <1>1, <1>8, RegisterAgrees DEF Missing
<1>9. CASE Quiet
  BY <1>9 DEF Quiet
<1> QED BY <1>2, <1>3, <1>4, <1>5, <1>6, <1>7, <1>8, <1>9 DEF Step

\* A reference of any kind is lost in one way only: a can_open that succeeds on
\* an interface whose context has a pointer of the kind writes over it.
THEOREM LossNeedsReopen == Spec => RefLostByReopen
<1> DEFINE Loss ==
      \A k \in Kind : Lost(k)' > Lost(k) =>
        /\ ret'.op = "open" /\ ret'.val = 0
        /\ \E i \in Holders(k) : "can" \in Held(i)'
<1>1. ASSUME IInv, [Next]_vars PROVE Loss
  <2> SUFFICES ASSUME NEW k \in Kind, Lost(k)' > Lost(k)
               PROVE  /\ ret'.op = "open" /\ ret'.val = 0
                      /\ \E i \in Holders(k) : "can" \in Held(i)'
    OBVIOUS
  <2>1. /\ Lost(k) = Missing(can_interface, refs, k)
        /\ Lost(k)' = Missing(can_interface', refs', k)
    BY HoldersAre DEF Lost, Missing, Holders, Held, OnIxxat, Holding, Holds
  <2>2. Missing(can_interface, refs, k) \in Int
    BY <1>1, HoldingFinite, IxxatAssumption DEF IInv, Agree, Missing
  <2>3. Missing(can_interface', refs', k) # Missing(can_interface, refs, k)
    BY <2>1, <2>2
  <2>4. PICK i \in Holding(can_interface, k) : "can" \in Holds(can_interface'[i])
    BY <1>1, <2>3, NextSteps, StepLoses
  <2>5. i \in Holders(k) /\ "can" \in Held(i)'
    BY <2>4, HoldersAre DEF Holding, Held, OnIxxat, Holds
  <2> QED BY <1>1, <2>3, <2>5, NextSteps, StepLoses
<1>2. IInv /\ [Next]_vars => [Loss]_vars
  BY <1>1
<1> QED BY <1>2, Invariant, PTL DEF Spec, RefLostByReopen

-----------------------------------------------------------------------------
(* When the opened flag stops saying whether the line runs *)

Misleads(iface, run) ==
  ~(iface.opened = 1 <=> "can" \in Holds(iface) /\ Sock(iface) \in run)

\* Names are unique, so an interface stops no line but its own.
LEMMA OthersKeepTheirLine ==
  ASSUME IInv, NEW i \in Slots, NEW j \in Slots, i # j,
         Holds(can_interface[i]) # {}, Holds(can_interface[j]) # {}
  PROVE  Sock(can_interface[i]) # Sock(can_interface[j])
<1>1. /\ can_interface[i].name # NULL /\ can_interface[j].name # NULL
      /\ Agree(can_interface, refs, line)
  BY HoldsType DEF IInv, Agree, Holds
<1> QED BY <1>1, SocketsUnique

LEMMA LineWithoutOthers ==
  ASSUME IInv, NEW S \in SUBSET Slots, NEW j \in Slots \ S
  PROVE  Misleads(can_interface[j], LineWithout(S)) <=> Misleads(can_interface[j], line)
<1>1. CASE "can" \in Holds(can_interface[j])
  <2>1. \A i \in S : "can" \in Held(i) => SocketOf(i) # Sock(can_interface[j])
    BY <1>1, OthersKeepTheirLine, HeldIs, HoldersAre
  <2> QED BY <2>1 DEF LineWithout, Misleads
<1>2. CASE "can" \notin Holds(can_interface[j])
  BY <1>2 DEF Misleads
<1> QED BY <1>1, <1>2

LEMMA OpenMisleads ==
  ASSUME IInv, NEW i \in Slots, NEW b \in AnyBaud, Opens(i, b),
         NEW j \in Slots,
         Misleads(can_interface'[j], line'), ~Misleads(can_interface[j], line)
  PROVE  ret'.op = "open" /\ ret'.val = -1 /\ can_interface[j].opened = 1
<1>1. Agree(can_interface, refs, line) /\ OnIxxat(i)
  BY DEF IInv, Opens
<1>3. CASE OpenFails(i, b)
  <2>1. ret'.op = "open" /\ ret'.val = -1
    BY <1>3, ReturnFields DEF OpenFails
  <2>2. /\ \A l \in Slots \ {i} : can_interface'[l] = can_interface[l]
        /\ can_interface'[i].opened = can_interface[i].opened
        /\ Holds(can_interface'[i]) = Holds(can_interface[i])
        /\ Sock(can_interface'[i]) = Sock(can_interface[i])
        /\ line' \in {line, line \ {SocketOf(i)}}
    BY <1>1, <1>3, OpenFailsAgrees
  <2>3. /\ can_interface'[j].opened = can_interface[j].opened
        /\ Holds(can_interface'[j]) = Holds(can_interface[j])
        /\ Sock(can_interface'[j]) = Sock(can_interface[j])
    BY <2>2
  <2>4. /\ can_interface[j].opened = 1 /\ "can" \in Holds(can_interface[j])
        /\ Sock(can_interface[j]) \in line
    BY <2>2, <2>3 DEF Misleads
  <2> QED BY <2>1, <2>4
<1>4. CASE OpenStarts(i, b)
  <2>1. /\ \A l \in Slots \ {i} : can_interface'[l] = can_interface[l]
        /\ can_interface'[i].opened = 1
        /\ "can" \in Holds(can_interface'[i])
        /\ Sock(can_interface'[i]) = Sock(can_interface[i])
        /\ line' = line \cup {SocketOf(i)}
    BY <1>1, <1>4, OpenStartsAgrees
  <2>2. CASE j = i
    BY <2>1, <2>2, HoldersAre DEF Misleads
  <2>3. CASE j # i /\ "can" \in Holds(can_interface[j])
    <3>1. Sock(can_interface[j]) # SocketOf(i)
      <4>1. can_interface[i].name # NULL /\ can_interface[j].name # NULL
        BY <1>1, <2>3, HoldsType DEF Agree, Holds, OnIxxat
      <4> QED BY <1>1, <2>3, <4>1, SocketsUnique, HoldersAre
    <3> QED BY <2>1, <2>3, <3>1 DEF Misleads
  <2>4. CASE j # i /\ "can" \notin Holds(can_interface[j])
    BY <2>1, <2>4 DEF Misleads
  <2> QED BY <2>2, <2>3, <2>4
<1> QED BY <1>1, <1>3, <1>4, OpenCases DEF Opens

LEMMA StepMisleads ==
  ASSUME IInv, Step, NEW j \in Slots,
         Misleads(can_interface'[j], line'), ~Misleads(can_interface[j], line)
  PROVE  \/ ret'.op = "set"
         \/ ret'.op = "open" /\ ret'.val = -1 /\ can_interface[j].opened = 1
         \/ Sock(can_interface[j])[1] \in attached \ attached'
<1>1. Agree(can_interface, refs, line)
  BY DEF IInv
<1>2. ASSUME NEW b \in Board, LosesBoard(b)
      PROVE  Sock(can_interface[j])[1] \in attached \ attached'
  BY <1>2 DEF LosesBoard, Misleads
<1>3. ASSUME NEW i \in Slots, NEW b \in AnyBaud, StoresBaud(i, b)
      PROVE  FALSE
  <2>1. /\ line' = line
        /\ can_interface'[j].opened = can_interface[j].opened
        /\ Holds(can_interface'[j]) = Holds(can_interface[j])
        /\ j # i => can_interface'[j] = can_interface[j]
    BY <1>1, <1>3, StoresBaudAgrees
  <2>2. Holds(can_interface[i]) = {}
    BY <1>3 DEF StoresBaud, Holds
  <2> QED BY <2>1, <2>2 DEF Misleads
<1>4. ASSUME NEW i \in Slots, NEW b \in AnyBaud, Opens(i, b)
      PROVE  ret'.op = "open" /\ ret'.val = -1 /\ can_interface[j].opened = 1
  BY <1>4, OpenMisleads
<1>5. ASSUME NEW i \in Slots, NEW b \in AnyBaud, Sets(i, b)
      PROVE  ret'.op = "set"
  BY <1>5, SetCases, ReturnFields DEF Sets, SetFails, SetStarts
<1>6. ASSUME NEW S \in SUBSET Slots, Closes(S) \/ ReleaseSlots(S)
      PROVE  FALSE
  <2>1. /\ \A i \in Slots \ S : can_interface'[i] = can_interface[i]
        /\ \A i \in S : can_interface'[i].opened = 0 /\ Holds(can_interface'[i]) = {}
    BY <1>1, <1>6, CloseAgrees, ReleaseAgrees DEF Closes
  <2>2. line' = LineWithout(S)
    BY <1>6 DEF Closes, CloseSlots, ReleaseSlots
  <2> QED BY <2>1, <2>2, LineWithoutOthers DEF Misleads
<1>7. ASSUME NEW s \in Socket, NEW i \in Slots, Registers(s, i)
      PROVE  FALSE
  BY <1>1, <1>7, RegisterAgrees DEF Misleads
<1>8. CASE Quiet
  BY <1>8 DEF Quiet
<1> QED BY <1>2, <1>3, <1>4, <1>5, <1>6, <1>7, <1>8 DEF Step

\* The opened flag of an interface stops saying whether its line runs in one of
\* three ways only: can_set_baudrate, a can_open that fails on an interface whose
\* flag is set, or the loss of the interface's board.
THEOREM FlagIsMisledBySetBaudrate == Spec => FlagMisledBySetBaudrate
<1> DEFINE Misled ==
      \A i \in Slots : FlagMisleads(i)' /\ ~FlagMisleads(i) =>
        \/ ret'.op = "set"
        \/ ret'.op = "open" /\ ret'.val = -1 /\ can_interface[i].opened = 1
        \/ SocketOf(i)[1] \in attached \ attached'
<1>1. ASSUME IInv, [Next]_vars PROVE Misled
  <2> SUFFICES ASSUME NEW i \in Slots, FlagMisleads(i)', ~FlagMisleads(i)
               PROVE  \/ ret'.op = "set"
                      \/ ret'.op = "open" /\ ret'.val = -1 /\ can_interface[i].opened = 1
                      \/ SocketOf(i)[1] \in attached \ attached'
    OBVIOUS
  <2>1. ~Misleads(can_interface[i], line)
    BY HeldIs, HoldersAre DEF FlagMisleads, Live, Misleads
  <2>2. Misleads(can_interface'[i], line')
    BY DEF FlagMisleads, Live, Misleads, Held, OnIxxat, Holds, SocketOf, Sock
  <2> QED BY <1>1, <2>1, <2>2, NextSteps, StepMisleads, HoldersAre
<1>2. IInv /\ [Next]_vars => [Misled]_vars
  BY <1>1
<1> QED BY <1>2, Invariant, PTL DEF Spec, FlagMisledBySetBaudrate

-----------------------------------------------------------------------------
(* The back-end implements CanLifecycle *)

\* The abstract state that a table stands for; what a step does to it.
Names(tab) == [i \in Slots |-> tab[i].name]
Opened(tab) == Holding(tab, "can")

Same == /\ Names(can_interface') = Names(can_interface)
        /\ Opened(can_interface') = Opened(can_interface)

OpensIndex(i) ==
  /\ can_interface[i].name # NULL
  /\ Names(can_interface') = Names(can_interface)
  /\ Opened(can_interface') = Opened(can_interface) \cup {i}

ClosesIndex(i) ==
  /\ Names(can_interface') = Names(can_interface)
  /\ Opened(can_interface') = Opened(can_interface) \ {i}

FreesIndices(S) ==
  /\ Names(can_interface') =
       [i \in Slots |-> IF i \in S THEN NULL ELSE Names(can_interface)[i]]
  /\ Opened(can_interface') = Opened(can_interface) \ S

TakesIndex(i, n) ==
  /\ Names(can_interface)[i] = NULL
  /\ \A j \in Slots : /\ Names(can_interface)[j] # n
                      /\ j < i => Names(can_interface)[j] # NULL
  /\ Names(can_interface') = [Names(can_interface) EXCEPT ![i] = n]
  /\ Opened(can_interface') = Opened(can_interface)

Abstract ==
  \/ Same
  \/ \E i \in Slots : OpensIndex(i) \/ ClosesIndex(i)
  \/ \E S \in {Slots} \cup {{i} : i \in Slots} : FreesIndices(S)
  \/ \E i \in Slots, n \in Device : TakesIndex(i, n)

\* Slots that keep their names, of which one at most takes or drops its object.
LEMMA NamesKept ==
  ASSUME NEW i \in Slots, can_interface[i].name # NULL,
         can_interface'[i].name = can_interface[i].name,
         \A j \in Slots \ {i} : can_interface'[j] = can_interface[j]
  PROVE  Abstract
<1>1. Names(can_interface') = Names(can_interface)
  BY DEF Names
<1>2. CASE "can" \in Holds(can_interface'[i])
  <2>1. Opened(can_interface') = Opened(can_interface) \cup {i}
    BY <1>2 DEF Opened, Holding
  <2> QED BY <1>1, <2>1 DEF OpensIndex, Abstract
<1>3. CASE "can" \notin Holds(can_interface'[i])
  <2>1. Opened(can_interface') = Opened(can_interface) \ {i}
    BY <1>3 DEF Opened, Holding
  <2> QED BY <1>1, <2>1 DEF ClosesIndex, Abstract
<1> QED BY <1>2, <1>3

LEMMA StepsImplement == ASSUME IInv, Step PROVE Abstract
<1>1. Agree(can_interface, refs, line)
  BY DEF IInv
<1>2. \A i \in Slots : OnIxxat(i) => can_interface[i].name # NULL
  BY <1>1, HoldsType DEF Agree, OnIxxat
<1>3. ASSUME UNCHANGED can_interface PROVE Abstract
  BY <1>3 DEF Same, Abstract
<1>4. ASSUME NEW i \in Slots, NEW b \in AnyBaud, StoresBaud(i, b)
      PROVE  Abstract
  <2>1. /\ \A k : Holding(can_interface', k) = Holding(can_interface, k)
        /\ \A j \in Slots : can_interface'[j].name = can_interface[j].name
    BY <1>1, <1>4, StoresBaudAgrees
  <2> QED BY <2>1 DEF Same, Names, Opened, Abstract
<1>5. ASSUME NEW i \in Slots, NEW b \in AnyBaud, Opens(i, b)
      PROVE  Abstract
  BY <1>1, <1>2, <1>5, NamesKept, OpenCases, OpenFailsAgrees, OpenStartsAgrees DEF Opens
<1>6. ASSUME NEW i \in Slots, NEW b \in AnyBaud, Sets(i, b)
      PROVE  Abstract
  BY <1>1, <1>2, <1>6, NamesKept, SetCases, SetFailsAgrees, SetStartsAgrees DEF Sets
<1>7. ASSUME Closes({}) \/ ReleaseSlots({}) PROVE Abstract
  <2>1. \A i \in Slots : can_interface'[i] = can_interface[i]
    BY <1>1, <1>7, CloseAgrees, ReleaseAgrees DEF Closes
  <2> QED BY <2>1 DEF Same, Names, Opened, Holding, Abstract
<1>8. ASSUME NEW i \in Slots, Closes({i})
      PROVE  Abstract
  <2>1. /\ can_interface'[i].name = can_interface[i].name
        /\ \A j \in Slots \ {i} : can_interface'[j] = can_interface[j]
        /\ OnIxxat(i)
    BY <1>1, <1>8, CloseAgrees DEF Closes
  <2> QED BY <1>2, <2>1, NamesKept
<1>9. ASSUME NEW S \in {Slots} \cup {{i} : i \in Slots}, ReleaseSlots(S)
      PROVE  Abstract
  <2>1. /\ \A i \in Slots \ S : can_interface'[i] = can_interface[i]
        /\ \A i \in S : can_interface'[i].name = NULL /\ Holds(can_interface'[i]) = {}
    BY <1>1, <1>9, ReleaseAgrees
  <2>2. FreesIndices(S)
    BY <2>1 DEF FreesIndices, Names, Opened, Holding
  <2> QED BY <2>2 DEF Abstract
<1>10. ASSUME NEW s \in Socket, NEW i \in Slots, Registers(s, i)
       PROVE  Abstract
  <2>0. /\ \A k : Holding(can_interface', k) = Holding(can_interface, k)
        /\ \A j \in Slots \ {i} : can_interface'[j] = can_interface[j]
        /\ can_interface[i].name = NULL /\ can_interface'[i].name \in Device
        /\ \A j \in Slots : /\ can_interface[j].name # can_interface'[i].name
                            /\ j < i => can_interface[j].name # NULL
    BY <1>1, <1>10, RegisterAgrees
  <2>1. PICK n \in Device :
          /\ can_interface'[i].name = n
          /\ \A j \in Slots \ {i} : can_interface'[j] = can_interface[j]
          /\ can_interface[i].name = NULL
          /\ \A j \in Slots : /\ can_interface[j].name # n
                              /\ j < i => can_interface[j].name # NULL
    BY <2>0
  <2>2. \A j \in Slots : Names(can_interface)[j] = can_interface[j].name
    BY DEF Names
  <2>3. Names(can_interface') = [Names(can_interface) EXCEPT ![i] = n]
    <3>1. \A j \in Slots :
            can_interface'[j].name = IF j = i THEN n ELSE can_interface[j].name
      BY <2>1
    <3> QED BY <3>1 DEF Names
  <2>4. Opened(can_interface') = Opened(can_interface)
    BY <2>0 DEF Opened
  <2>5. TakesIndex(i, n)
    BY <2>1, <2>2, <2>3, <2>4 DEF TakesIndex
  <2> QED BY <2>1, <2>5 DEF Abstract
<1>11. CASE Quiet
  BY <1>3, <1>11 DEF Quiet
<1>12. ASSUME NEW b \in Board, LosesBoard(b) PROVE Abstract
  BY <1>3, <1>12 DEF LosesBoard
<1> QED BY <1>4, <1>5, <1>6, <1>7, <1>8, <1>9, <1>10, <1>11, <1>12 DEF Step

\* Every step is a step of CanLifecycle, or changes nothing that it shows.
LEMMA NextImplements ==
  ASSUME IInv, [Next]_vars
  PROVE  [Lifecycle!Next]_(Lifecycle!vars)
<1> DEFINE dev == [i \in Slots |-> can_interface[i].name]
           opn == Holders("can")
<1>1. dev = Names(can_interface) /\ dev' = Names(can_interface')
  BY DEF Names
<1>2. opn = Opened(can_interface) /\ opn' = Opened(can_interface')
  BY DEF Opened, Holders, Held, OnIxxat, Holding, Holds
<1>3. Slots = Lifecycle!Index
  BY DEF Slots, Lifecycle!Index
<1> HIDE DEF dev, opn
<1>4. CASE Same
  BY <1>1, <1>2, <1>4 DEF Same, Lifecycle!vars, dev, opn
<1>5. ASSUME NEW i \in Slots, OpensIndex(i)
      PROVE  Lifecycle!Open(i)
  BY <1>1, <1>2, <1>5 DEF OpensIndex, Names, Lifecycle!Open, dev, opn
<1>6. ASSUME NEW i \in Slots, ClosesIndex(i)
      PROVE  Lifecycle!Close(i)
  BY <1>1, <1>2, <1>6 DEF ClosesIndex, Lifecycle!Close, dev, opn
<1>7. ASSUME NEW S, FreesIndices(S)
      PROVE  Lifecycle!Release(S)
  BY <1>1, <1>2, <1>3, <1>7 DEF FreesIndices, Lifecycle!Release, dev, opn
<1>8. ASSUME NEW i \in Slots, NEW n \in Device, TakesIndex(i, n)
      PROVE  Lifecycle!Register(i, n)
  BY <1>1, <1>2, <1>3, <1>8 DEF TakesIndex, Lifecycle!Register, dev, opn
<1> QED
  BY <1>3, <1>4, <1>5, <1>6, <1>7, <1>8, NextSteps, StepsImplement
  DEF Abstract, Lifecycle!Next

\* The Ixxat back-end implements CanLifecycle: an index is open exactly while
\* its context has a CAN object, whatever the opened flag says.
THEOREM ImplementsLifecycle == Spec => Refinement
<1>1. Init => Lifecycle!Init
  BY DEF Init, Lifecycle!Init, Lifecycle!Index, Slots, ZeroIface, Holders, Held, OnIxxat
<1>2. IInv /\ [Next]_vars => [Lifecycle!Next]_(Lifecycle!vars)
  BY NextImplements
<1> QED BY <1>1, <1>2, Invariant, PTL DEF Spec, Refinement, Lifecycle!Spec
=============================================================================
