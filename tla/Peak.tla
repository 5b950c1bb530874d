-------------------------------- MODULE Peak --------------------------------
(***************************************************************************)
(* The PEAK back-end of the Windows build: the public calls of             *)
(* CANvenient.c over PCAN-Basic, which knows channels by a handle and      *)
(* initialises each at most once.  One thread calls the library; a call is *)
(* one step, but can_find_interfaces asks for the number of channels, then *)
(* for their list, and then goes through it, a step each, since channels   *)
(* come and go in between.                                                 *)
(***************************************************************************)
EXTENDS CanCalls, FiniteSets, Sequences

CONSTANTS
  Channel,        \* handles of PCAN channels
  Named,          \* those lookup_bus_name has a name for
  PCAN_NONEBUS,   \* the handle 0, no channel, which stands for all of them
  NoneBus         \* "PCAN-NONEBUS", the name of every handle not in Named

TPCANHandle == Channel \cup {PCAN_NONEBUS}

Reason == {"pcan", "memory"}

\* A handle is a TPCANHandle, 16 bits wide; neither it nor a text is null.
ASSUME PeakAssumption ==
  /\ IsFiniteSet(Channel)
  /\ Named \subseteq Channel
  /\ NoneBus \notin Channel /\ PCAN_NONEBUS \notin Channel
  /\ NULL \notin Channel \cup {PCAN_NONEBUS} \cup Reason
  /\ Device = Named \cup {NoneBus}

VARIABLES
  attached,   \* channels with a device on them
  init,       \* channels this process has initialised
  pc,         \* "list" once the channels are counted, "find" once listed
  count,      \* room in the list
  list,       \* what is left of the list
  listed      \* channels that PCAN-Basic wrote into it

scan == <<pc, count, list, listed>>
vars == <<can_interface, ret, attached, init, pc, count, list, listed>>

-----------------------------------------------------------------------------
TypeOK ==
  /\ can_interface \in [Slots -> Iface({"PEAK"}, TPCANHandle)]
  /\ ret \in Result(Reason)
  /\ attached \subseteq Channel
  /\ init \subseteq Channel
  /\ pc \in {"idle", "list", "find"}
  /\ count \in 0 .. MaxInterfaces
  /\ list \in Seq(TPCANHandle) /\ Len(list) <= count
  /\ listed \subseteq Channel

Init ==
  /\ can_interface = [i \in Slots |-> ZeroIface]
  /\ ret = NoCall
  /\ attached \in SUBSET Channel
  /\ init = {}
  /\ pc = "idle"
  /\ count = 0
  /\ list = <<>>
  /\ listed = {}

lookup_bus_name(c) == IF c \in Named THEN c ELSE NoneBus

OnPeak(i) == i \in Slots /\ can_interface[i].vendor = "PEAK"

-----------------------------------------------------------------------------
(* Closing, as every call that closes does it *)

\* The handles in the contexts of the slots in S.
ChannelsOf(S) == {can_interface[i].internal : i \in {j \in S : OnPeak(j)}}

\* Mutant: a channel is uninitialised only if its device still answers.
Uninitialized_IfAttached(S) == init \ (ChannelsOf(S) \cap attached)

\* The initialised channels after peak_close of every slot in S: to CAN_Uninitialize,
\* PCAN_NONEBUS means every channel of the process.
Uninitialized(S) ==
  IF PCAN_NONEBUS \in ChannelsOf(S) THEN {} ELSE init \ ChannelsOf(S)

\* CAN_Uninitialize, called slot after slot, fails on a channel not initialised, or
\* not any more.
UninitializeFails(i, S) ==
  /\ can_interface[i].internal # PCAN_NONEBUS
  /\ \/ can_interface[i].internal \notin init
     \/ \E j \in S : OnPeak(j) /\ j < i /\ can_interface[j].internal = PCAN_NONEBUS

\* The reason it leaves then.
CloseReason(S) ==
  IF \E i \in S : OnPeak(i) /\ UninitializeFails(i, S) THEN "pcan" ELSE NULL

\* can_release of every slot in S.
ReleaseSlots(S) ==
  /\ can_interface' = [i \in Slots |->
       IF i \in S THEN Cleared(can_interface[i]) ELSE can_interface[i]]
  /\ init' = Uninitialized(S)

-----------------------------------------------------------------------------
(* Discovery *)

Least(m, n) == IF m < n THEN m ELSE n

\* The scan ends for the reason why; the caller of can_find_interfaces gets 0
\* in every case.
EndScan(why) ==
  /\ pc' = "idle"
  /\ count' = 0
  /\ list' = <<>>
  /\ listed' = {}
  /\ Return("find", 0, why)

\* wanted: the mask names PEAK.  The channels are counted, and a list of that
\* length allocated.
can_find_interfaces_mask(wanted) ==
  /\ pc = "idle"
  /\ \/ wanted /\ \E why \in Reason : EndScan(why)
     \/ /\ wanted
        /\ pc' = "list"
        /\ count' = Least(Cardinality(attached), MaxInterfaces)
        /\ ret' = NoCall
        /\ UNCHANGED <<list, listed>>
     \/ ~wanted /\ Return("find", 0, NULL) /\ UNCHANGED scan
  /\ UNCHANGED <<can_interface, attached, init>>

\* PCAN-Basic fills the list with attached channels as far as there are any.
\* The rest of it is what malloc found there.
peak_list ==
  /\ pc = "list"
  /\ \/ EndScan("pcan")
     \/ LET filled == Least(count, Cardinality(attached)) IN
        \E l \in [1 .. count -> TPCANHandle] :
          /\ \A j, k \in 1 .. filled : l[j] \in attached /\ (j # k => l[j] # l[k])
          /\ pc' = "find"
          /\ list' = l
          /\ listed' = {l[k] : k \in 1 .. filled}
          /\ UNCHANGED <<count, ret>>
  /\ UNCHANGED <<can_interface, attached, init>>

\* Mutant: the names are compared over a prefix that all of them share.
Registered_Prefix(c) == \E k \in Slots : ~Free(k)

Registered(c) == AlreadyRegistered(lookup_bus_name(c))

RegisterChannel(c, i) ==
  /\ ~Registered(c)
  /\ FirstFree(i)
  /\ can_interface' = [can_interface EXCEPT
       ![i] = [name |-> lookup_bus_name(c), vendor |-> "PEAK", opened |-> 0,
               baudrate |-> CAN_BAUD_1M, internal |-> c]]

\* One turn of the loop of peak_find_interfaces, and its end.
peak_find_channel ==
  /\ pc = "find"
  /\ list # <<>>
  /\ \/ /\ \/ Registered(Head(list)) /\ UNCHANGED can_interface
           \/ \E i \in Slots : RegisterChannel(Head(list), i)
        /\ list' = Tail(list)
        /\ UNCHANGED <<pc, count, listed, ret>>
     \/ /\ ~Registered(Head(list))
        /\ IF TableFull THEN EndScan(NULL) ELSE EndScan("memory")
        /\ UNCHANGED can_interface
  /\ UNCHANGED <<attached, init>>

peak_find_end ==
  /\ pc = "find"
  /\ list = <<>>
  /\ EndScan(NULL)
  /\ UNCHANGED <<can_interface, attached, init>>

-----------------------------------------------------------------------------
(* Opening and closing *)

\* Mutant: the flag is set before CAN_Initialize is asked.
peak_open_FlagFirst(op, i, ready, b, why) ==
  LET c == can_interface[i].internal IN
  /\ can_interface' = [can_interface EXCEPT ![i].baudrate = b, ![i].opened = 1]
  /\ \/ init' = ready /\ Return(op, -1, "pcan")
     \/ c \in attached \ ready /\ init' = ready \cup {c} /\ Return(op, 0, why)

\* peak_open for the call op, when the channels in ready are initialised and
\* why is the reason the call has left so far.  CAN_Initialize may refuse any
\* channel; one without a device, or already initialised, it does refuse.
peak_open(op, i, ready, b, why) ==
  LET c == can_interface[i].internal IN
  \/ /\ can_interface' = [can_interface EXCEPT ![i].baudrate = b]
     /\ init' = ready
     /\ Return(op, -1, "pcan")
  \/ /\ c \in attached \ ready
     /\ can_interface' = [can_interface EXCEPT ![i].baudrate = b, ![i].opened = 1]
     /\ init' = ready \cup {c}
     /\ Return(op, 0, why)

can_open(i, b) ==
  /\ pc = "idle"
  /\ \/ OpenRejected(i, b) /\ UNCHANGED init
     \/ OnPeak(i) /\ peak_open("open", i, init, b, NULL)
  /\ UNCHANGED <<attached, scan>>

\* peak_set_baudrate goes through can_close and can_open.
can_set_baudrate(i, b) ==
  /\ pc = "idle"
  /\ \/ SetRejected(i, b) /\ UNCHANGED init
     \/ /\ b \in Baud
        /\ OnPeak(i)
        /\ peak_open("set", i, Uninitialized({i}), b, CloseReason({i}))
  /\ UNCHANGED <<attached, scan>>

\* peak_close leaves the opened flag as it is.
can_close(i) ==
  /\ pc = "idle"
  /\ init' = Uninitialized({i})
  /\ Return("close", 0, CloseReason({i}))
  /\ UNCHANGED <<can_interface, attached, scan>>

can_release(i) ==
  /\ pc = "idle"
  /\ ReleaseSlots({i} \cap Slots)
  /\ Return("release", 0, CloseReason({i}))
  /\ UNCHANGED <<attached, scan>>

can_release_interfaces ==
  /\ pc = "idle"
  /\ ReleaseSlots(Slots)
  /\ Return("release all", 0, CloseReason(Slots))
  /\ UNCHANGED <<attached, scan>>

\* CAN_GetStatus answers PCAN_ERROR_ILLHW only when the device is gone, and
\* need not then: of a channel that is not initialised it may say just that.
peak_update(i) ==
  \/ Return("update", 0, NULL) /\ UNCHANGED <<can_interface, init>>
  \/ /\ can_interface[i].internal \notin attached
     /\ ReleaseSlots({i})
     /\ Return("update", -1, CloseReason({i}))

can_update(i) ==
  /\ pc = "idle"
  /\ \/ Rejected("update", i) /\ UNCHANGED init
     \/ OnPeak(i) /\ peak_update(i)
  /\ UNCHANGED <<attached, scan>>

-----------------------------------------------------------------------------
(* Frames and the calls that read the table *)

can_get(i, bad) == pc = "idle" /\ Get(i, bad) /\ UNCHANGED <<attached, init, scan>>

\* CAN_Write and CAN_Read decide, whatever the opened flag says; that the
\* receive queue is empty is an error like the others.
peak_transfer(op, i) ==
  \/ can_interface[i].internal \in init /\ Return(op, 0, NULL)
  \/ Return(op, -1, "pcan")

can_send(i) ==
  /\ pc = "idle"
  /\ \/ Rejected("send", i)
     \/ OnPeak(i) /\ peak_transfer("send", i) /\ UNCHANGED can_interface
  /\ UNCHANGED <<attached, init, scan>>

can_recv(i) ==
  /\ pc = "idle"
  /\ \/ Rejected("recv", i)
     \/ OnPeak(i) /\ peak_transfer("recv", i) /\ UNCHANGED can_interface
  /\ UNCHANGED <<attached, init, scan>>

-----------------------------------------------------------------------------
(* Devices come and go; PCAN-Basic keeps a channel initialised meanwhile. *)

Plug(c) ==
  /\ c \notin attached
  /\ attached' = attached \cup {c}
  /\ UNCHANGED <<can_interface, ret, init, scan>>

Unplug(c) ==
  /\ c \in attached
  /\ attached' = attached \ {c}
  /\ UNCHANGED <<can_interface, ret, init, scan>>

-----------------------------------------------------------------------------
Call ==
  \/ \E wanted \in BOOLEAN : can_find_interfaces_mask(wanted)
  \/ \E i \in CallIndex, b \in AnyBaud : can_open(i, b) \/ can_set_baudrate(i, b)
  \/ \E i \in CallIndex : \/ can_close(i) \/ can_release(i) \/ can_update(i)
                          \/ can_send(i) \/ can_recv(i)
  \/ \E i \in CallIndex, bad \in BOOLEAN : can_get(i, bad)
  \/ can_release_interfaces

Environment == \E c \in Channel : Plug(c) \/ Unplug(c)

Next == Call \/ peak_list \/ peak_find_channel \/ peak_find_end \/ Environment

Spec == Init /\ [][Next]_vars

-----------------------------------------------------------------------------
(* Properties *)

ReallyOpen == {i \in Slots : can_interface[i].internal \in init}

\* Every channel the process has initialised can still be uninitialised through
\* the table: one slot has its handle, under the name of that handle, flagged
\* open.  No two slots share a channel, so none closes the other's.
InitializedOwned ==
  /\ init \subseteq {can_interface[i].internal : i \in Slots}
  /\ \A i \in ReallyOpen :
       /\ can_interface[i].opened = 1
       /\ can_interface[i].name = lookup_bus_name(can_interface[i].internal)
       /\ \A j \in Slots \ {i} :
            can_interface[j].internal # can_interface[i].internal

FlagMisleads(i) == can_interface[i].opened = 1 /\ i \notin ReallyOpen

\* peak_close never clears the opened flag.  That is how the flag comes to say open
\* of a channel that is not initialised: by the close of the slot's own channel and
\* no other, or by the close, also in a release, of a slot with PCAN_NONEBUS, which
\* closes them all.  No failed can_open, no scan and no other release does it.
FlagLeftByClose ==
  [][\A i \in Slots : FlagMisleads(i)' /\ ~FlagMisleads(i) =>
       \/ /\ ret'.op \in {"close", "set"}
          /\ init' = init \ {can_interface[i].internal}
       \/ /\ ret'.op \in {"close", "set", "release", "update"}
          /\ PCAN_NONEBUS \in ChannelsOf(Slots) /\ init' = {}]_vars

\* "0 = closed, 1 = opened", the table says of the flag: set, it says that the
\* slot's channel is initialised.  It does not hold after can_close.
FlagTrue == \A i \in Slots : ~FlagMisleads(i)

\* A scan that met no error leaves a slot for the name of every channel that
\* PCAN-Basic put in the list, or no slot free.
FindComplete ==
  [][pc = "find" /\ pc' = "idle" /\ ret'.reason = NULL =>
       \/ TableFull
       \/ \A c \in listed : \E i \in Slots :
            can_interface[i].name = lookup_bus_name(c)]_vars

\* can_find_interfaces_mask "Finds available CAN interfaces for the given vendor
\* back-ends": a scan registers channels that PCAN-Basic listed.  It does not
\* hold: when a channel disappears between the count and the list, the end of
\* the list is uninitialised memory, and what it holds is registered as a channel.
RegistersListed ==
  [][\A i \in Slots :
       Free(i) /\ can_interface'[i].name # NULL =>
         can_interface'[i].internal \in listed]_vars

-----------------------------------------------------------------------------
(* The public interface: an index is open while its channel is initialised.  The *)
(* device that discovery names PCAN-NONEBUS may stand for all the others.         *)

Lifecycle == INSTANCE CanLifecycle WITH
  Whole <- {NoneBus}, Part <- Device,
  device <- [i \in Slots |-> can_interface[i].name],
  open <- ReallyOpen

Refinement == Lifecycle!Spec
=============================================================================
