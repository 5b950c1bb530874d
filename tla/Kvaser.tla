------------------------------- MODULE Kvaser -------------------------------
(***************************************************************************)
(* The Kvaser back-end of the Windows build: the public calls of           *)
(* CANvenient.c over CANlib, whose channels are numbered, carry a          *)
(* description that need not be unique, and come and go.  One thread calls *)
(* the library; a call is one step, but the scan of can_find_interfaces is *)
(* one step per channel, since channels change while it runs.              *)
(***************************************************************************)
EXTENDS CanCalls

CONSTANTS
  Channels,   \* CANlib numbers channels below this
  Handle,     \* handles CANlib can give out
  NoHandle    \* canINVALID_HANDLE

Channel == 0 .. Channels - 1

\* kvaser_channel_info_t
kvaser_channel_info_t == [channel : Channel, handle : Handle \cup {NoHandle}]

ASSUME KvaserAssumption ==
  /\ Channels \in Nat \ {0}
  /\ NoHandle \notin Handle
  /\ NULL \notin Handle \cup Channel \cup kvaser_channel_info_t

VARIABLES
  bus,      \* description of the device on each channel, NULL for none
  handle,   \* channel every handle is open and on bus on, NULL when closed
  pc,       \* "find" while the scan runs
  next,     \* channel the scan comes to
  count,    \* channels it goes through
  steady    \* channels whose device has been there since the scan began

canlib == <<bus, handle>>
scan == <<pc, next, count, steady>>
vars == <<can_interface, ret, bus, handle, pc, next, count, steady>>

-----------------------------------------------------------------------------
Reason == {"canlib", "memory"}

TypeOK ==
  /\ can_interface \in [Slots -> Iface({"KVASER"}, kvaser_channel_info_t)]
  /\ ret \in Result(Reason)
  /\ bus \in [Channel -> Device \cup {NULL}]
  /\ handle \in [Handle -> Channel \cup {NULL}]
  /\ pc \in {"idle", "find"}
  /\ next \in 0 .. Channels
  /\ count \in 0 .. Channels
  /\ steady \subseteq Channel

Init ==
  /\ can_interface = [i \in Slots |-> ZeroIface]
  /\ ret = NoCall
  /\ bus \in [Channel -> Device \cup {NULL}]
  /\ handle = [h \in Handle |-> NULL]
  /\ pc = "idle"
  /\ next = 0
  /\ count = 0
  /\ steady = {}

-----------------------------------------------------------------------------
(* Closing, as every call that closes does it *)

OnKvaser(i) == i \in Slots /\ can_interface[i].vendor = "KVASER"

HasHandle(iface) == iface.internal # NULL /\ iface.internal.handle # NoHandle

\* Mutant: the handle stays in the context after canClose.
CloseIface_KeepsHandle(iface) ==
  IF HasHandle(iface) THEN [iface EXCEPT !.opened = 0] ELSE iface

\* kvaser_close: the slot, and the handles, after it.
CloseIface(iface) ==
  IF HasHandle(iface)
  THEN [iface EXCEPT !.internal.handle = NoHandle, !.opened = 0]
  ELSE iface

\* Mutant: canBusOff without canClose.
CloseHandles_BusOffOnly(S) == handle

CloseHandles(S) ==
  [h \in Handle |-> IF \E i \in S : /\ HasHandle(can_interface[i])
                                    /\ can_interface[i].internal.handle = h
                    THEN NULL ELSE handle[h]]

\* can_release of every slot in S.
ReleaseSlots(S) ==
  /\ can_interface' = [i \in Slots |->
       IF i \in S THEN Cleared(CloseIface(can_interface[i]))
                  ELSE can_interface[i]]
  /\ handle' = CloseHandles(S)

-----------------------------------------------------------------------------
(* Discovery *)

Attached == {c \in Channel : bus[c] # NULL}

\* canGetNumberOfChannels: one more than the highest channel number.
NumberOfChannels ==
  IF Attached = {} THEN 0
  ELSE 1 + CHOOSE c \in Attached : \A d \in Attached : d <= c

\* wanted: the mask names Kvaser.
can_find_interfaces_mask(wanted) ==
  /\ pc = "idle"
  /\ \/ /\ wanted
        /\ pc' = "find"
        /\ next' = 0
        /\ count' = IF NumberOfChannels > MaxInterfaces THEN MaxInterfaces
                                                        ELSE NumberOfChannels
        /\ steady' = Attached
        /\ ret' = NoCall
     \/ \* not asked for, or CANlib could not count its channels
        /\ Return("find", 0, NULL)
        /\ UNCHANGED scan
  /\ UNCHANGED <<can_interface, canlib>>

\* The scan ends for the reason why; the caller of can_find_interfaces gets 0
\* in every case.
EndScan(why) ==
  /\ pc' = "idle"
  /\ next' = 0
  /\ count' = 0
  /\ steady' = {}
  /\ Return("find", 0, why)

\* Mutant: the names are compared over a prefix that all of them share.
KnownChannel_Prefix(c) == bus[c] # NULL /\ \E k \in Slots : ~Free(k)

KnownChannel(c) == bus[c] # NULL /\ AlreadyRegistered(bus[c])

RegisterChannel(c, i) ==
  /\ bus[c] # NULL
  /\ ~AlreadyRegistered(bus[c])
  /\ FirstFree(i)
  /\ can_interface' = [can_interface EXCEPT
       ![i] = [name |-> bus[c], vendor |-> "KVASER", opened |-> 0,
               baudrate |-> CAN_BAUD_1M,
               internal |-> [channel |-> c, handle |-> NoHandle]]]

\* One turn of the loop of kvaser_find_interfaces, and its end.
kvaser_find_channel ==
  /\ pc = "find"
  /\ next < count
  /\ \/ /\ \/ KnownChannel(next) /\ UNCHANGED can_interface
           \/ \E i \in Slots : RegisterChannel(next, i)
        /\ next' = next + 1
        /\ UNCHANGED <<pc, count, steady, ret>>
     \/ /\ \/ EndScan("canlib")   \* refused, and without a device it always is
           \/ bus[next] # NULL /\ ~AlreadyRegistered(bus[next])
              /\ (IF TableFull THEN EndScan(NULL) ELSE EndScan("memory"))
        /\ UNCHANGED can_interface
  /\ UNCHANGED canlib

kvaser_find_end ==
  /\ pc = "find"
  /\ next = count
  /\ EndScan(NULL)
  /\ UNCHANGED <<can_interface, canlib>>

-----------------------------------------------------------------------------
(* Opening and closing *)

canClose(h, handles) == [handles EXCEPT ![h] = NULL]

\* How kvaser_open leaves slot i and the handles, and what the call op returns.
OpenOutcome(op, i, iface, handles, v, why) ==
  /\ can_interface' = [can_interface EXCEPT ![i] = iface]
  /\ handle' = handles
  /\ Return(op, v, why)

\* Mutant: a handle that cannot go on bus is left open.
kvaser_open_NoCleanup(op, i, iface, open, b) ==
  LET asked == [iface EXCEPT !.baudrate = b]
      channel == iface.internal.channel
  IN \/ OpenOutcome(op, i, asked, open, -1, "canlib")
     \/ /\ bus[channel] # NULL
        /\ \E h \in Handle :
             /\ open[h] = NULL
             /\ LET opened == [open EXCEPT ![h] = channel]
                IN \/ OpenOutcome(op, i, asked, canClose(h, opened), -1, "canlib")
                   \/ OpenOutcome(op, i, asked, opened, -1, "canlib")
                   \/ OpenOutcome(op, i, [asked EXCEPT !.opened = 1,
                                                       !.internal.handle = h],
                                  opened, 0, NULL)

\* kvaser_open for the call op, on a slot and on handles as they are when it is
\* reached: canOpenChannel is refused; or it gives a handle h, which is closed
\* again when canSetBusParams and when canBusOn refuses it; or h goes into the
\* context, whatever the context held.
kvaser_open(op, i, iface, open, b) ==
  LET asked == [iface EXCEPT !.baudrate = b]
      channel == iface.internal.channel
  IN \/ OpenOutcome(op, i, asked, open, -1, "canlib")
     \/ /\ bus[channel] # NULL
        /\ \E h \in Handle :
             /\ open[h] = NULL
             /\ LET opened == [open EXCEPT ![h] = channel]
                IN \/ \* canSetBusParams
                      OpenOutcome(op, i, asked, canClose(h, opened), -1, "canlib")
                   \/ \* canBusOn
                      OpenOutcome(op, i, asked, canClose(h, opened), -1, "canlib")
                   \/ OpenOutcome(op, i, [asked EXCEPT !.opened = 1,
                                                       !.internal.handle = h],
                                  opened, 0, NULL)

can_open(i, b) ==
  /\ pc = "idle"
  /\ \/ OpenRejected(i, b) /\ UNCHANGED handle
     \/ OnKvaser(i) /\ kvaser_open("open", i, can_interface[i], handle, b)
  /\ UNCHANGED <<bus, scan>>

can_set_baudrate(i, b) ==
  /\ pc = "idle"
  /\ \/ SetRejected(i, b) /\ UNCHANGED handle
     \/ /\ b \in Baud
        /\ OnKvaser(i)
        /\ kvaser_open("set", i, CloseIface(can_interface[i]), CloseHandles({i}), b)
  /\ UNCHANGED <<bus, scan>>

can_close(i) ==
  /\ pc = "idle"
  /\ can_interface' = [j \in Slots |->
       IF j = i THEN CloseIface(can_interface[j]) ELSE can_interface[j]]
  /\ handle' = CloseHandles({i} \cap Slots)
  /\ Return("close", 0, NULL)
  /\ UNCHANGED <<bus, scan>>

can_release(i) ==
  /\ pc = "idle"
  /\ ReleaseSlots({i} \cap Slots)
  /\ Return("release", 0, NULL)
  /\ UNCHANGED <<bus, scan>>

can_release_interfaces ==
  /\ pc = "idle"
  /\ ReleaseSlots(Slots)
  /\ Return("release all", 0, NULL)
  /\ UNCHANGED <<bus, scan>>

\* kvaser_update asks whether the channel number answers, not whether the device
\* behind it is the one the slot is named after.  Without a device there is no
\* answer, with one there may be: any refusal releases the slot.
kvaser_update(i) ==
  \/ /\ bus[can_interface[i].internal.channel] # NULL
     /\ Return("update", 0, NULL)
     /\ UNCHANGED <<can_interface, handle>>
  \/ Return("update", -1, NULL) /\ ReleaseSlots({i})

can_update(i) ==
  /\ pc = "idle"
  /\ \/ Rejected("update", i) /\ UNCHANGED handle
     \/ OnKvaser(i) /\ kvaser_update(i)
  /\ UNCHANGED <<bus, scan>>

-----------------------------------------------------------------------------
(* Frames and the calls that read the table *)

can_get(i, bad) == pc = "idle" /\ Get(i, bad) /\ UNCHANGED <<canlib, scan>>

\* canWrite and canRead decide; an empty queue leaves no reason.
kvaser_transfer(op, i) ==
  \/ HasHandle(can_interface[i]) /\ Return(op, 0, NULL)
  \/ Return(op, -1, "canlib")
  \/ op = "recv" /\ HasHandle(can_interface[i]) /\ Return(op, -1, NULL)

can_send(i) ==
  /\ pc = "idle"
  /\ \/ Rejected("send", i)
     \/ OnKvaser(i) /\ kvaser_transfer("send", i) /\ UNCHANGED can_interface
  /\ UNCHANGED <<canlib, scan>>

can_recv(i) ==
  /\ pc = "idle"
  /\ \/ Rejected("recv", i)
     \/ OnKvaser(i) /\ kvaser_transfer("recv", i) /\ UNCHANGED can_interface
  /\ UNCHANGED <<canlib, scan>>

-----------------------------------------------------------------------------
(* Devices come and go *)

Plug(c, n) ==
  /\ bus[c] = NULL
  /\ bus' = [bus EXCEPT ![c] = n]
  /\ UNCHANGED <<can_interface, ret, handle, scan>>

\* CANlib keeps the handles on a channel that is gone until they are closed.
Unplug(c) ==
  /\ bus[c] # NULL
  /\ bus' = [bus EXCEPT ![c] = NULL]
  /\ steady' = steady \ {c}
  /\ UNCHANGED <<can_interface, ret, handle, pc, next, count>>

-----------------------------------------------------------------------------
Call ==
  \/ \E wanted \in BOOLEAN : can_find_interfaces_mask(wanted)
  \/ \E i \in CallIndex, b \in AnyBaud : can_open(i, b) \/ can_set_baudrate(i, b)
  \/ \E i \in CallIndex : \/ can_close(i) \/ can_release(i) \/ can_update(i)
                          \/ can_send(i) \/ can_recv(i)
  \/ \E i \in CallIndex, bad \in BOOLEAN : can_get(i, bad)
  \/ can_release_interfaces

Environment == \E c \in Channel : Unplug(c) \/ \E n \in Device : Plug(c, n)

Next == Call \/ kvaser_find_channel \/ kvaser_find_end \/ Environment

Spec == Init /\ [][Next]_vars

-----------------------------------------------------------------------------
(* Safety *)

HandleOf(i) == can_interface[i].internal.handle

Owned(h) == \E i \in Slots : OnKvaser(i) /\ HandleOf(i) = h

\* Every Kvaser slot has a context, so no call goes through a null one; its
\* opened flag is set exactly while the context has a handle; and that handle
\* is open, on the channel the context names, and no other slot's.
HandlesOwned ==
  \A i \in Slots : OnKvaser(i) =>
    /\ can_interface[i].internal # NULL
    /\ can_interface[i].opened = 1 <=> HandleOf(i) # NoHandle
    /\ HandleOf(i) # NoHandle =>
         /\ handle[HandleOf(i)] = can_interface[i].internal.channel
         /\ \A j \in Slots \ {i} : OnKvaser(j) => HandleOf(j) # HandleOf(i)

\* A scan that goes on has passed no description over for a reason other than a
\* full table.
FindComplete ==
  pc = "find" =>
    \A c \in steady : c < next =>
      \/ \E i \in Slots : can_interface[i].name = bus[c]
      \/ \A i \in Slots : can_interface[i].name # NULL

\* A registered slot goes by can_release, or by a can_update that reports it, and
\* then alone, or with all the others by can_release_interfaces; nothing stays in
\* it but the baud rate, and its handle, if it is open, is closed with it.
RegistrationStable ==
  [][\A i \in Slots : SlotLost(i) =>
       /\ SlotCleared(i)
       /\ HandleOf(i) # NoHandle => handle'[HandleOf(i)] = NULL
       /\ \/ ret'.op = "release all"
          \/ /\ <<ret'.op, ret'.val>> \in {<<"release", 0>>, <<"update", -1>>}
             /\ \A j \in Slots \ {i} : can_interface'[j] = can_interface[j]]_vars

\* A can_open or can_set_baudrate that fails leaves no handle behind, at whichever
\* call of CANlib it does.  A can_open that fails has no effect but on the recorded
\* baud rate: an interface that was open still is, through its old handle.  A
\* can_set_baudrate that fails has closed the slot's own handle at most, and the
\* slot with it.
FailedOpenIsClean ==
  [][pc = "idle" /\ ret'.op \in {"open", "set"} /\ ret'.val = -1 =>
       /\ \A h \in Handle : handle'[h] # handle[h] =>
            /\ ret'.op = "set" /\ handle'[h] = NULL
            /\ \E i \in Slots : OnKvaser(i) /\ HandleOf(i) = h /\ HandleOf(i)' = NoHandle
       /\ \A i \in Slots :
            LET after == [can_interface'[i] EXCEPT !.baudrate = can_interface[i].baudrate]
            IN \/ after = can_interface[i]
               \/ ret'.op = "set" /\ after = CloseIface(can_interface[i])]_vars

\* A handle leaves the table by being closed, with one exception: can_open on
\* an interface already open puts the new handle over the old one.
HandleLostByReopen ==
  [][\A h \in Handle :
       Owned(h) /\ ~Owned(h)' /\ handle'[h] # NULL =>
         /\ ret'.op = "open" /\ ret'.val = 0
         /\ \E i \in Slots : /\ OnKvaser(i)
                             /\ HandleOf(i) = h
                             /\ can_interface'[i].opened = 1]_vars

\* After can_release_interfaces nothing is open (example.c: it "Implicitly calls
\* can_close() for all opened interfaces").  It does not hold: can_close reaches
\* the last handle of an interface, not the ones a second can_open covered.
ReleaseClosesAll ==
  ret.op = "release all" => \A h \in Handle : handle[h] = NULL

-----------------------------------------------------------------------------
(* The public interface: an index is open while its context has a handle. *)

Lifecycle == INSTANCE CanLifecycle WITH
  Whole <- {}, Part <- {},
  device <- [i \in Slots |-> can_interface[i].name],
  open <- {i \in Slots : OnKvaser(i) /\ HandleOf(i) # NoHandle}

Refinement == Lifecycle!Spec
=============================================================================
