------------------------------ MODULE Softing -------------------------------
(***************************************************************************)
(* The Softing back-end of the Windows build: the public calls of          *)
(* CANvenient.c over the CANL2 library, which knows channels by the name   *)
(* an interface gets and gives out handles on them.  One thread calls the  *)
(* library; a call is one step, but can_find_interfaces asks for the size  *)
(* of the list of channels, then for the list, and then goes through it, a *)
(* step each, since channels come and go in between.                       *)
(***************************************************************************)
EXTENDS CanCalls, FiniteSets

CONSTANTS
  Handle,     \* handles CANL2 can give out
  NoHandle    \* 0, in a context without a handle

\* softing_ctx_t: the channel name is the slot's.
softing_ctx_t == [hChannel : Handle \cup {NoHandle}]

\* A pointer to a context is not null, and CANL2 counts channels in an unsigned
\* int.
ASSUME SoftingAssumption ==
  /\ NoHandle \notin Handle
  /\ NULL \notin Handle \cup softing_ctx_t
  /\ IsFiniteSet(Device)

VARIABLES
  present,   \* channels that are there
  chan,      \* channel every handle is open on, NULL when closed
  pc,        \* "list" once the list is sized, "find" once it is read
  room,      \* channels the buffer has room for
  todo       \* listed channels the scan has still to look at

scan == <<pc, room, todo>>
vars == <<can_interface, ret, present, chan, pc, room, todo>>

-----------------------------------------------------------------------------
Reason == {"canl2", "memory", "not open"}

TypeOK ==
  /\ can_interface \in [Slots -> Iface({"SOFTING"}, softing_ctx_t)]
  /\ ret \in Result(Reason)
  /\ present \subseteq Device
  /\ chan \in [Handle -> Device \cup {NULL}]
  /\ pc \in {"idle", "list", "find"}
  /\ room \in Nat
  /\ todo \subseteq Device

Init ==
  /\ can_interface = [i \in Slots |-> ZeroIface]
  /\ ret = NoCall
  /\ present \in SUBSET Device
  /\ chan = [h \in Handle |-> NULL]
  /\ pc = "idle"
  /\ room = 0
  /\ todo = {}

OnSofting(i) == i \in Slots /\ can_interface[i].vendor = "SOFTING"

\* The handle in a slot.
hChannel(i) == IF OnSofting(i) THEN can_interface[i].internal.hChannel ELSE NoHandle

-----------------------------------------------------------------------------
(* Closing, as every call that closes does it *)

\* Mutant: the handle stays in the context after INIL2_close_channel.
CloseIface_KeepsHandle(iface) == [iface EXCEPT !.opened = 0]

\* softing_close: the slot after it; the handles after it, for every slot in S.
CloseIface(iface) == [iface EXCEPT !.internal.hChannel = NoHandle, !.opened = 0]

CloseHandles(S) ==
  [h \in Handle |-> IF \E i \in S : hChannel(i) = h THEN NULL ELSE chan[h]]

\* can_release of every slot in S.
ReleaseSlots(S) ==
  /\ can_interface' = [i \in Slots |->
       IF i \in S THEN Cleared(can_interface[i]) ELSE can_interface[i]]
  /\ chan' = CloseHandles(S)

-----------------------------------------------------------------------------
(* Discovery *)

\* The scan ends for the reason why; the caller of can_find_interfaces gets 0
\* in every case.
EndScan(why) ==
  /\ pc' = "idle"
  /\ room' = 0
  /\ todo' = {}
  /\ Return("find", 0, why)

\* wanted: the mask names Softing.  There may be no channel, or CANL2 may fail to
\* count them; the scan is over then, without a reason.
can_find_interfaces_mask(wanted) ==
  /\ pc = "idle"
  /\ \/ Return("find", 0, NULL) /\ UNCHANGED scan
     \/ wanted /\ present # {} /\ EndScan("memory")
     \/ /\ wanted /\ present # {}
        /\ pc' = "list"
        /\ room' = Cardinality(present)
        /\ ret' = NoCall
        /\ UNCHANGED todo
  /\ UNCHANGED <<can_interface, present, chan>>

\* The list is read, unless it has outgrown the buffer, or CANL2 fails.
softing_list ==
  /\ pc = "list"
  /\ \/ EndScan("canl2")
     \/ /\ Cardinality(present) <= room
        /\ pc' = "find"
        /\ todo' = present
        /\ UNCHANGED <<room, ret>>
  /\ UNCHANGED <<can_interface, present, chan>>

RegisterChannel(c, i) ==
  /\ ~AlreadyRegistered(c)
  /\ FirstFree(i)
  /\ can_interface' = [can_interface EXCEPT
       ![i] = [name |-> c, vendor |-> "SOFTING", opened |-> 0,
               baudrate |-> CAN_BAUD_1M, internal |-> [hChannel |-> NoHandle]]]

\* One turn of the loop of softing_find_interfaces, and its end.  CANL2 lists
\* channels in an order of its own.
softing_find_channel(c) ==
  /\ pc = "find"
  /\ c \in todo
  /\ \/ /\ \/ AlreadyRegistered(c) /\ UNCHANGED can_interface
           \/ \E i \in Slots : RegisterChannel(c, i)
        /\ todo' = todo \ {c}
        /\ UNCHANGED <<pc, room, ret>>
     \/ /\ ~AlreadyRegistered(c)
        /\ IF TableFull THEN EndScan(NULL) ELSE EndScan("memory")
        /\ UNCHANGED can_interface
  /\ UNCHANGED <<present, chan>>

softing_find_end ==
  /\ pc = "find"
  /\ todo = {}
  /\ EndScan(NULL)
  /\ UNCHANGED <<can_interface, present, chan>>

-----------------------------------------------------------------------------
(* Opening and closing *)

\* Mutant: a handle that cannot be started is left open.
softing_open_NoCleanup(op, i, iface, open) ==
  /\ iface.name \in present
  /\ can_interface' = [can_interface EXCEPT
       ![i] = [iface EXCEPT !.internal.hChannel = NoHandle]]
  /\ \E h \in Handle : open[h] = NULL /\ chan' = [open EXCEPT ![h] = iface.name]
  /\ Return(op, -1, "canl2")

\* softing_open for the call op, on a slot and on handles as they are when it is
\* reached; the null check of the context is left out, a slot of this vendor has
\* one.  INIL2_initialize_channel writes a new handle into the context, or, on a
\* channel that is open, perhaps the handle it has.  When it fails it may leave
\* the context as it is or without a handle.  A handle that cannot be configured
\* or started is closed again.
softing_open(op, i, iface, open) ==
  \/ /\ \E h \in {iface.internal.hChannel, NoHandle} :
          can_interface' = [can_interface EXCEPT
            ![i] = [iface EXCEPT !.internal.hChannel = h]]
     /\ chan' = open
     /\ Return(op, -1, "canl2")
  \/ \E h \in Handle :
       /\ iface.name \in present
       /\ open[h] = NULL \/ h = iface.internal.hChannel
       /\ \/ /\ can_interface' = [can_interface EXCEPT
                  ![i] = [iface EXCEPT !.internal.hChannel = NoHandle]]
             /\ chan' = [open EXCEPT ![h] = NULL]
             /\ Return(op, -1, "canl2")
          \/ /\ can_interface' = [can_interface EXCEPT
                  ![i] = [iface EXCEPT !.internal.hChannel = h, !.opened = 1]]
             /\ chan' = [open EXCEPT ![h] = iface.name]
             /\ Return(op, 0, NULL)

can_open(i, b) ==
  /\ pc = "idle"
  /\ \/ OpenRejected(i, b) /\ UNCHANGED chan
     \/ OnSofting(i)
        /\ softing_open("open", i, [can_interface[i] EXCEPT !.baudrate = b], chan)
  /\ UNCHANGED <<present, scan>>

can_set_baudrate(i, b) ==
  /\ pc = "idle"
  /\ \/ SetRejected(i, b) /\ UNCHANGED chan
     \/ /\ b \in Baud
        /\ OnSofting(i)
        /\ softing_open("set", i, [CloseIface(can_interface[i]) EXCEPT !.baudrate = b],
                        CloseHandles({i}))
  /\ UNCHANGED <<present, scan>>

can_close(i) ==
  /\ pc = "idle"
  /\ can_interface' = [j \in Slots |->
       IF j = i /\ OnSofting(j) THEN CloseIface(can_interface[j]) ELSE can_interface[j]]
  /\ chan' = CloseHandles({i} \cap Slots)
  /\ Return("close", 0, NULL)
  /\ UNCHANGED <<present, scan>>

can_release(i) ==
  /\ pc = "idle"
  /\ ReleaseSlots({i} \cap Slots)
  /\ Return("release", 0, NULL)
  /\ UNCHANGED <<present, scan>>

can_release_interfaces ==
  /\ pc = "idle"
  /\ ReleaseSlots(Slots)
  /\ Return("release all", 0, NULL)
  /\ UNCHANGED <<present, scan>>

\* softing_update releases the slot when its channel is not listed, and also
\* when the list cannot be read; out of memory, it does neither.  No reason.
softing_update(i) ==
  \/ /\ can_interface[i].name \in present
     /\ Return("update", 0, NULL)
     /\ UNCHANGED <<can_interface, chan>>
  \/ /\ present # {}
     /\ Return("update", -1, NULL)
     /\ UNCHANGED <<can_interface, chan>>
  \/ ReleaseSlots({i}) /\ Return("update", -1, NULL)

can_update(i) ==
  /\ pc = "idle"
  /\ \/ Rejected("update", i) /\ UNCHANGED chan
     \/ OnSofting(i) /\ softing_update(i)
  /\ UNCHANGED <<present, scan>>

-----------------------------------------------------------------------------
(* Frames and the calls that read the table *)

can_get(i, bad) == pc = "idle" /\ Get(i, bad) /\ UNCHANGED <<present, chan, scan>>

\* softing_send and softing_recv; that there is no message, or one that is no
\* data, is a failure like the others.
softing_transfer(op, i) ==
  IF hChannel(i) = NoHandle
  THEN Return(op, -1, "not open")
  ELSE Return(op, 0, NULL) \/ Return(op, -1, "canl2")

can_send(i) ==
  /\ pc = "idle"
  /\ \/ Rejected("send", i)
     \/ OnSofting(i) /\ softing_transfer("send", i) /\ UNCHANGED can_interface
  /\ UNCHANGED <<present, chan, scan>>

can_recv(i) ==
  /\ pc = "idle"
  /\ \/ Rejected("recv", i)
     \/ OnSofting(i) /\ softing_transfer("recv", i) /\ UNCHANGED can_interface
  /\ UNCHANGED <<present, chan, scan>>

-----------------------------------------------------------------------------
(* Channels come and go; handles stay open until they are closed. *)

Plug(c) ==
  /\ c \notin present
  /\ present' = present \cup {c}
  /\ UNCHANGED <<can_interface, ret, chan, scan>>

Unplug(c) ==
  /\ c \in present
  /\ present' = present \ {c}
  /\ UNCHANGED <<can_interface, ret, chan, scan>>

-----------------------------------------------------------------------------
Call ==
  \/ \E wanted \in BOOLEAN : can_find_interfaces_mask(wanted)
  \/ \E i \in CallIndex, b \in AnyBaud : can_open(i, b) \/ can_set_baudrate(i, b)
  \/ \E i \in CallIndex : \/ can_close(i) \/ can_release(i) \/ can_update(i)
                          \/ can_send(i) \/ can_recv(i)
  \/ \E i \in CallIndex, bad \in BOOLEAN : can_get(i, bad)
  \/ can_release_interfaces

Scan == softing_list \/ softing_find_end \/ \E c \in Device : softing_find_channel(c)

Environment == \E c \in Device : Plug(c) \/ Unplug(c)

Next == Call \/ Scan \/ Environment

Spec == Init /\ [][Next]_vars

-----------------------------------------------------------------------------
(* Properties *)

\* A handle in a context is open, on the slot's own channel, in no other context,
\* and the slot is flagged open: close, and every error path of softing_open,
\* reach the channel of the interface they were called for and no other.
HandlesOwned ==
  \A i \in Slots : hChannel(i) # NoHandle =>
    /\ chan[hChannel(i)] = can_interface[i].name
    /\ can_interface[i].opened = 1
    /\ \A j \in Slots \ {i} : hChannel(j) # hChannel(i)

FlagMisleads(i) == can_interface[i].opened = 1 /\ hChannel(i) = NoHandle

Stray == {h \in Handle : chan[h] # NULL /\ \A i \in Slots : hChannel(i) # h}

\* Only a can_open on an interface that is open can do lasting damage: failing,
\* it may leave the flag set with no handle behind it; and, failing or not, it
\* may leave the old handle open with nobody to close it.
DamageByReopenOnly ==
  [][/\ \A i \in Slots : FlagMisleads(i)' /\ ~FlagMisleads(i) =>
          ret'.op = "open" /\ ret'.val = -1 /\ can_interface[i].opened = 1
     /\ \A h \in Stray' \ Stray :
          ret'.op = "open" /\ \E i \in Slots : hChannel(i) = h]_vars

-----------------------------------------------------------------------------
(* The public interface: an index is open while its context has a handle. *)

Lifecycle == INSTANCE CanLifecycle WITH
  Whole <- {}, Part <- {},
  device <- [i \in Slots |-> can_interface[i].name],
  open <- {i \in Slots : hChannel(i) # NoHandle}

Refinement == Lifecycle!Spec
=============================================================================
