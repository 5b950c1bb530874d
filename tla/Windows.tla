------------------------------ MODULE Windows -------------------------------
(***************************************************************************)
(* The Windows build of CANvenient (src/src/CANvenient.c): four back-ends  *)
(* over one interface table.  can_find_interfaces_mask looks for           *)
(* vciapi.dll once and then asks the back-ends of the mask in turn; every  *)
(* other call goes to the back-end of the slot's vendor.  The back-ends    *)
(* are the modules Ixxat, Peak, Kvaser and Softing, which share the table, *)
(* the outcome of the last call and the program counter.                   *)
(***************************************************************************)
EXTENDS CanCalls, Sequences, SequencesExt

CONSTANTS
  PeakChannel, Named, PCAN_NONEBUS, NoneBus,             \* PEAK
  KvaserDevice, Channels, KvaserHandle,                  \* Kvaser
  Board, Description, CanBus, IxxatDevice, MaxRefs, MaxFifo,   \* Ixxat
  SoftingDevice, SoftingHandle,                          \* Softing
  NoHandle,
  Asked       \* baud rates that callers ask for

Vendors == <<"IXXAT", "PEAK", "KVASER", "SOFTING">>

VARIABLES
  dll,      \* vciapi.dll: "unchecked", "loaded" or "missing"
  pc,       \* of the call that runs, in the back-end it runs in
  asking,   \* back-end can_find_interfaces_mask has asked last, NULL for none
  toAsk,    \* back-ends it has still to ask, in the order of Vendors
  why       \* reason that one asked before has left

VARIABLES peak_attached, peak_init, peak_count, peak_list, peak_listed
VARIABLES kvaser_bus, kvaser_handle, kvaser_next, kvaser_count, kvaser_steady
VARIABLES ixxat_attached, ixxat_line, ixxat_refs, ixxat_todo, ixxat_sockets,
          ixxat_rx, ixxat_fifo
VARIABLES softing_present, softing_chan, softing_room, softing_todo

peak == <<peak_attached, peak_init, peak_count, peak_list, peak_listed>>
kvaser == <<kvaser_bus, kvaser_handle, kvaser_next, kvaser_count, kvaser_steady>>
ixxat == <<ixxat_attached, ixxat_line, ixxat_refs, ixxat_todo, ixxat_sockets,
           ixxat_rx, ixxat_fifo>>
softing == <<softing_present, softing_chan, softing_room, softing_todo>>
asked == <<asking, toAsk, why>>
vars == <<can_interface, ret, dll, pc, asked, peak, kvaser, ixxat, softing>>

P == INSTANCE Peak WITH
  Device <- Named \cup {NoneBus}, Channel <- PeakChannel,
  attached <- peak_attached, init <- peak_init,
  count <- peak_count, list <- peak_list, listed <- peak_listed

K == INSTANCE Kvaser WITH
  Device <- KvaserDevice, Handle <- KvaserHandle, bus <- kvaser_bus,
  handle <- kvaser_handle, next <- kvaser_next, count <- kvaser_count,
  steady <- kvaser_steady

X == INSTANCE Ixxat WITH
  Device <- IxxatDevice, attached <- ixxat_attached, line <- ixxat_line,
  refs <- ixxat_refs, todo <- ixxat_todo, sockets <- ixxat_sockets,
  rx <- ixxat_rx, fifo <- ixxat_fifo

S == INSTANCE Softing WITH
  Device <- SoftingDevice, Handle <- SoftingHandle, present <- softing_present,
  chan <- softing_chan, room <- softing_room, todo <- softing_todo

\* What every back-end assumes of its names and contexts.  A handle of PCAN-Basic
\* is a number, and no context of another back-end; NULL is none of the vendors.
ASSUME WindowsAssumption ==
  /\ P!TableAssumption /\ P!PeakAssumption
  /\ K!TableAssumption /\ K!KvaserAssumption
  /\ X!TableAssumption /\ X!IxxatAssumption
  /\ S!TableAssumption /\ S!SoftingAssumption
  /\ P!TPCANHandle \cap (K!kvaser_channel_info_t \cup X!ixxat_ctx_t \cup S!softing_ctx_t) = {}
  /\ NULL \notin ToSet(Vendors)

Init ==
  /\ dll = "unchecked"
  /\ asking = NULL /\ toAsk = {} /\ why = NULL
  /\ P!Init /\ K!Init /\ X!Init /\ S!Init

-----------------------------------------------------------------------------
(* Discovery *)

\* A mask may also name SocketCAN, which finds nothing in this build.
Masks == SUBSET ToSet(Vendors) \cup {{"SOCKETCAN"}}

\* Is back-end v asked, for a mask, when vciapi.dll is as state says?
Asks(v, mask, state) == v \in mask /\ (v = "IXXAT" => state = "loaded")

\* Without a vendor the call does nothing, not even look for vciapi.dll.
can_find_interfaces_mask(mask) ==
  /\ pc = "idle" /\ asking = NULL
  /\ \/ /\ mask = {}
        /\ Return("find", 0, NULL)
        /\ UNCHANGED <<dll, asked>>
     \/ /\ mask # {}
        /\ IF dll = "unchecked" THEN dll' \in {"loaded", "missing"} ELSE UNCHANGED dll
        /\ toAsk' = {v \in ToSet(Vendors) : Asks(v, mask, dll')}
        /\ asking' = "none yet"
        /\ ret' = NoCall
        /\ UNCHANGED why
  /\ UNCHANGED <<can_interface, pc, peak, kvaser, ixxat, softing>>

LastReason == IF ret.reason = NULL THEN why ELSE ret.reason

\* The next back-end starts its scan.  Nobody looks at what the one before it
\* returned.
Ask ==
  /\ pc = "idle"
  /\ \E k \in DOMAIN Vendors :
       /\ Vendors[k] \in toAsk
       /\ \A j \in DOMAIN Vendors : j < k => Vendors[j] \notin toAsk
       /\ asking' = Vendors[k]
  /\ toAsk' = toAsk \ {asking'}
  /\ why' = LastReason
  /\ \/ asking' = "IXXAT" /\ X!can_find_interfaces_mask(TRUE)
        /\ UNCHANGED <<peak, kvaser, softing>>
     \/ asking' = "PEAK" /\ P!can_find_interfaces_mask(TRUE)
        /\ UNCHANGED <<kvaser, ixxat, softing>>
     \/ asking' = "KVASER" /\ K!can_find_interfaces_mask(TRUE)
        /\ UNCHANGED <<peak, ixxat, softing>>
     \/ asking' = "SOFTING" /\ S!can_find_interfaces_mask(TRUE)
        /\ UNCHANGED <<peak, kvaser, ixxat>>
  /\ UNCHANGED dll

\* The scan of the back-end that was asked last goes on.
Scan ==
  /\ \/ /\ asking = "IXXAT" /\ X!Scan
        /\ UNCHANGED <<peak, kvaser, softing>>
     \/ /\ asking = "PEAK"
        /\ P!peak_list \/ P!peak_find_channel \/ P!peak_find_end
        /\ UNCHANGED <<kvaser, ixxat, softing>>
     \/ /\ asking = "KVASER"
        /\ K!kvaser_find_channel \/ K!kvaser_find_end
        /\ UNCHANGED <<peak, ixxat, softing>>
     \/ /\ asking = "SOFTING" /\ S!Scan
        /\ UNCHANGED <<peak, kvaser, ixxat>>
  /\ UNCHANGED <<dll, asked>>

AskEnd ==
  /\ pc = "idle" /\ asking # NULL /\ toAsk = {}
  /\ asking' = NULL /\ why' = NULL
  /\ Return("find", 0, LastReason)
  /\ UNCHANGED <<can_interface, dll, pc, toAsk, peak, kvaser, ixxat, softing>>

-----------------------------------------------------------------------------
(* The other calls *)

\* The vendor that the switch of a call finds.
Vendor(i) == IF i \in Slots THEN can_interface[i].vendor ELSE "NONE"

PeakCall(i) ==
  \/ \E b \in Asked : P!can_open(i, b) \/ P!can_set_baudrate(i, b)
  \/ P!can_close(i) \/ P!can_release(i) \/ P!can_update(i)
  \/ P!can_send(i) \/ P!can_recv(i)

KvaserCall(i) ==
  \/ \E b \in Asked : K!can_open(i, b) \/ K!can_set_baudrate(i, b)
  \/ K!can_close(i) \/ K!can_release(i) \/ K!can_update(i)
  \/ K!can_send(i) \/ K!can_recv(i)

IxxatCall(i) ==
  \/ \E b \in Asked : X!can_open(i, b) \/ X!can_set_baudrate(i, b)
  \/ X!can_close(i) \/ X!can_release(i) \/ X!can_update(i)
  \/ X!can_send(i) \/ X!can_recv(i)

SoftingCall(i) ==
  \/ \E b \in Asked : S!can_open(i, b) \/ S!can_set_baudrate(i, b)
  \/ S!can_close(i) \/ S!can_release(i) \/ S!can_update(i)
  \/ S!can_send(i) \/ S!can_recv(i)

\* The vendor switch.  What a call does on an index without a vendor is the same
\* in the modules of all back-ends.
Dispatch(i) ==
  /\ asking = NULL
  /\ \/ Vendor(i) \in {"PEAK", "NONE"} /\ PeakCall(i) /\ UNCHANGED <<kvaser, ixxat, softing>>
     \/ Vendor(i) = "KVASER" /\ KvaserCall(i) /\ UNCHANGED <<peak, ixxat, softing>>
     \/ Vendor(i) = "IXXAT" /\ IxxatCall(i) /\ UNCHANGED <<peak, kvaser, softing>>
     \/ Vendor(i) = "SOFTING" /\ SoftingCall(i) /\ UNCHANGED <<peak, kvaser, ixxat>>
  /\ UNCHANGED <<dll, asked>>

\* Mutant: can_release closes an interface only if its flag says it is open.
Closed_Flagged(v) == {i \in Slots : Vendor(i) = v /\ can_interface[i].opened = 1}

Of(v) == {i \in Slots : Vendor(i) = v}

can_release_interfaces ==
  /\ pc = "idle" /\ asking = NULL
  /\ can_interface' = [i \in Slots |-> Cleared(can_interface[i])]
  /\ peak_init' = P!Uninitialized(Of("PEAK"))
  /\ kvaser_handle' = K!CloseHandles(Of("KVASER"))
  /\ ixxat_refs' = X!RefsWithout(Of("IXXAT"))
  /\ ixxat_line' = X!LineWithout(Of("IXXAT"))
  /\ softing_chan' = S!CloseHandles(Of("SOFTING"))
  /\ Return("release all", 0, P!CloseReason(Of("PEAK")))
  /\ UNCHANGED <<dll, pc, asked, peak_attached, peak_count, peak_list, peak_listed,
                 kvaser_bus, kvaser_next, kvaser_count, kvaser_steady,
                 ixxat_attached, ixxat_todo, ixxat_sockets, ixxat_rx, ixxat_fifo,
                 softing_present, softing_room, softing_todo>>

can_get(i, bad) ==
  /\ pc = "idle" /\ asking = NULL
  /\ Get(i, bad)
  /\ UNCHANGED <<dll, pc, asked, peak, kvaser, ixxat, softing>>

-----------------------------------------------------------------------------
Environment ==
  /\ \/ P!Environment /\ UNCHANGED <<kvaser, ixxat, softing>>
     \/ K!Environment /\ UNCHANGED <<peak, ixxat, softing>>
     \/ X!Environment /\ UNCHANGED <<peak, kvaser, softing>>
     \/ S!Environment /\ UNCHANGED <<peak, kvaser, ixxat>>
  /\ UNCHANGED <<dll, asked>>

Next ==
  \/ \E mask \in Masks : can_find_interfaces_mask(mask)
  \/ Ask \/ Scan \/ AskEnd
  \/ \E i \in CallIndex : Dispatch(i)
  \/ can_release_interfaces
  \/ \E i \in CallIndex, bad \in BOOLEAN : can_get(i, bad)
  \/ X!ixxat_recv_entry /\ UNCHANGED <<dll, asked, peak, kvaser, softing>>
  \/ Environment

Spec == Init /\ [][Next]_vars

-----------------------------------------------------------------------------
(* Properties *)

\* A context is what the back-end of the slot's vendor takes it for; there is
\* none in a slot without a vendor.
ContextsMatchVendors ==
  \A i \in Slots :
    LET c == can_interface[i].internal IN
    /\ Vendor(i) = "NONE" <=> c = NULL
    /\ Vendor(i) = "PEAK" => c \in P!TPCANHandle
    /\ Vendor(i) = "KVASER" => c \in K!kvaser_channel_info_t
    /\ Vendor(i) = "IXXAT" => c \in X!ixxat_ctx_t
    /\ Vendor(i) = "SOFTING" => c \in S!softing_ctx_t

\* Without vciapi.dll no interface is Ixxat's, so no call reaches the functions
\* that would come from it.
IxxatNeedsDll == \A i \in Slots : Vendor(i) = "IXXAT" => dll = "loaded"

\* What holds of a back-end alone holds of it beside the others: no call, scan,
\* close or release of one takes, or loses, what another has open, whatever
\* becomes of the slots in between.
OthersLeftAlone ==
  /\ P!InitializedOwned
  /\ K!HandlesOwned
  /\ X!RefsHeld
  /\ S!HandlesOwned

WindowsTable == ContextsMatchVendors /\ IxxatNeedsDll /\ OthersLeftAlone

-----------------------------------------------------------------------------
(* The public interface: an index is open while the back-end of its vendor has its *)
(* channel, handle or object open.                                                 *)

HasOpen(iface) ==
  \/ iface.vendor = "PEAK" /\ iface.internal \in peak_init
  \/ iface.vendor = "KVASER" /\ iface.internal.handle # NoHandle
  \/ iface.vendor = "IXXAT" /\ "can" \in iface.internal.held
  \/ iface.vendor = "SOFTING" /\ iface.internal.hChannel # NoHandle

Lifecycle == INSTANCE CanLifecycle WITH
  Device <- Named \cup {NoneBus} \cup KvaserDevice \cup IxxatDevice \cup SoftingDevice,
  Whole <- {NoneBus}, Part <- Named \cup {NoneBus},
  device <- [i \in Slots |-> can_interface[i].name],
  open <- {i \in Slots : HasOpen(can_interface[i])}

\* The four back-ends together implement what CanLifecycle promises of an index,
\* whichever of them registers, opens, closes or frees it: a call opens, closes or
\* frees the index it names and no other.  But to close or free the index of the
\* device PCAN-NONEBUS may close those of PEAK's other devices.
Refinement == Lifecycle!Spec
=============================================================================
