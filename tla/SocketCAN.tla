----------------------------- MODULE SocketCAN ------------------------------
(***************************************************************************)
(* The Linux build of CANvenient: the public calls of CANvenient.c over    *)
(* the SocketCAN back-end, against a kernel whose CAN devices come and go. *)
(* One thread calls the library.  A call is one step, except the two that  *)
(* give the kernel time in between: the directory scan of                  *)
(* can_find_interfaces, one step per entry, and can_recv, which blocks.    *)
(***************************************************************************)
EXTENDS CanCalls

CONSTANTS
  Asked,   \* baud rates that callers ask for; none acts on another field
  Fd,      \* descriptors the kernel can hand out
  NoFd     \* the descriptor -1

\* What the back-end writes to can_error_reason.
Reason == {"socket", "ioctl", "bind", "write", "timeout", "recvmsg"}

\* Callers ask for rates can_open takes; neither a descriptor nor a text is the
\* null pointer.
ASSUME FdAssumption ==
  /\ Asked \subseteq AnyBaud
  /\ NULL \notin Fd /\ NoFd \notin Fd /\ NoFd # NULL
  /\ NULL \notin CallReason \cup Reason

VARIABLES
  netdev,   \* CAN devices the kernel has now
  sock,     \* state of every descriptor
  pc,       \* what the calling thread is in
  todo,     \* names the scan has not come to in /sys/class/net
  steady,   \* devices present without a break since the scan began
  unread,   \* those of them whose type file the scan could not read
  rx        \* slot the blocked can_recv reads from

kernel == <<netdev, sock>>
scan == <<todo, steady, unread>>
thread == <<pc, scan, rx>>
vars == <<can_interface, kernel, thread, ret>>

-----------------------------------------------------------------------------
(* Types *)

\* A descriptor is "raw" between socket() and the end of the set-up, when it
\* is neither bound nor has a receive timeout, and "ready" after it.
SockState == [state : {"closed", "raw", "ready"}, dev : Device \cup {NULL}]

ClosedSock == [state |-> "closed", dev |-> NULL]
RawSock == [state |-> "raw", dev |-> NULL]
\* Mutant: a bound socket without SO_RCVTIMEO.
ReadySock_NoTimeout(n) == [state |-> "raw", dev |-> n]
ReadySock(n) == [state |-> "ready", dev |-> n]

TypeOK ==
  /\ can_interface \in [Slots -> Iface({"SOCKETCAN"}, Fd \cup {NoFd})]
  /\ netdev \subseteq Device
  /\ sock \in [Fd -> SockState]
  /\ pc \in {"idle", "find", "recv", "crashed"}
  /\ todo \subseteq Device
  /\ steady \subseteq Device
  /\ unread \subseteq Device
  /\ rx \in Slots \cup {NULL}
  /\ ret \in Result(Reason)

Init ==
  /\ can_interface = [i \in Slots |-> ZeroIface]
  /\ netdev \in SUBSET Device
  /\ sock = [f \in Fd |-> ClosedSock]
  /\ pc = "idle"
  /\ todo = {}
  /\ steady = {}
  /\ unread = {}
  /\ rx = NULL
  /\ ret = NoCall

-----------------------------------------------------------------------------
(* Helpers of the calls *)

\* Mutant: the default case of the switch falls into the back-end.
OnSocketCAN_Default(i) == i \in Slots

OnSocketCAN(i) == i \in Slots /\ can_interface[i].vendor = "SOCKETCAN"

\* Reading or writing through the null context ends the process.
Dereference(i) ==
  /\ can_interface[i].internal = NULL
  /\ pc' = "crashed"
  /\ ret' = NoCall
  /\ UNCHANGED <<can_interface, sock, rx>>

\* socketcan_close: its effect on the slot and on the descriptors.
IsOpen(iface) == iface.name # NULL /\ iface.opened = 1

\* Mutant: the closed descriptor's number stays in the context.
CloseIface_KeepsNumber(iface) ==
  IF IsOpen(iface) THEN [iface EXCEPT !.opened = 0] ELSE iface

\* Mutant: the flag stays set.
CloseIface_KeepsFlag(iface) ==
  IF IsOpen(iface) THEN [iface EXCEPT !.internal = NoFd] ELSE iface

CloseIface(iface) ==
  IF IsOpen(iface) THEN [iface EXCEPT !.internal = NoFd, !.opened = 0]
                   ELSE iface

\* Mutant: the context is given up without the call to close().
CloseSocks_Forgets(S) == sock

CloseSocks(S) ==
  [f \in Fd |-> IF \E i \in S : /\ IsOpen(can_interface[i])
                                /\ can_interface[i].internal = f
                THEN ClosedSock ELSE sock[f]]

\* can_release of every slot in S: dispatch to the close, then clear.
ReleaseSlots(S) ==
  /\ can_interface' = [i \in Slots |->
       IF i \in S THEN Cleared(CloseIface(can_interface[i]))
                  ELSE can_interface[i]]
  /\ sock' = CloseSocks(S)

-----------------------------------------------------------------------------
(* Discovery *)

\* can_find_interfaces_mask: wanted says whether the mask names SocketCAN;
\* whatever the back-end returns, the caller gets 0.
can_find_interfaces_mask(wanted) ==
  /\ pc = "idle"
  /\ \/ /\ wanted
        /\ pc' = "find"
        /\ todo' = Device
        /\ steady' = netdev
        /\ unread' = {}
        /\ ret' = NoCall
     \/ \* not asked for, or opendir failed
        /\ Return("find", 0, NULL)
        /\ UNCHANGED <<pc, scan>>
  /\ UNCHANGED <<can_interface, kernel, rx>>

EndScan ==
  /\ pc' = "idle"
  /\ todo' = {}
  /\ steady' = {}
  /\ unread' = {}
  /\ Return("find", 0, NULL)

\* Entries passed over when the type has been read, or that have none to read:
\* not listed, or gone again, which a device that came or went meanwhile may be;
\* known; no room.
PassedOver(n) ==
  /\ n \notin steady \/ AlreadyRegistered(n) \/ TableFull
  /\ UNCHANGED unread

\* fopen or fscanf refused the type file, which may befall any device: it is
\* passed over without a word.
TypeUnread(n) == n \in steady /\ unread' = unread \cup {n}

\* Mutant: the search for room leaves the last slot out.
SkipEntry_LastSlot(n) ==
  /\ \/ PassedOver(n) \/ TypeUnread(n)
     \/ /\ \A i \in Slots \ {MaxInterfaces - 1} : ~Free(i)
        /\ UNCHANGED unread
  /\ todo' = todo \ {n}
  /\ UNCHANGED <<can_interface, pc, steady, ret>>

\* Mutant: an entry passed over is read again.
SkipEntry_ReadsAgain(n) ==
  /\ PassedOver(n) \/ TypeUnread(n)
  /\ UNCHANGED <<can_interface, pc, todo, steady, ret>>

SkipEntry(n) ==
  /\ PassedOver(n) \/ TypeUnread(n)
  /\ todo' = todo \ {n}
  /\ UNCHANGED <<can_interface, pc, steady, ret>>

RegisterEntry(n, i) ==
  /\ n \in netdev
  /\ ~AlreadyRegistered(n)
  /\ FirstFree(i)
  /\ LET named == [can_interface[i] EXCEPT
                     !.name = n, !.vendor = "SOCKETCAN",
                     !.opened = 0, !.baudrate = CAN_BAUD_1M]
     IN \/ /\ can_interface' =
                [can_interface EXCEPT ![i] = [named EXCEPT !.internal = NoFd]]
           /\ todo' = todo \ {n}
           /\ UNCHANGED <<pc, steady, unread, ret>>
        \/ \* no memory for the name
           UNCHANGED can_interface /\ EndScan
        \/ \* no memory for the descriptor: the slot keeps its name
           can_interface' = [can_interface EXCEPT ![i] = named] /\ EndScan

\* One turn of the readdir loop of socketcan_find_interfaces, and its end.
socketcan_find_entry(n) ==
  /\ pc = "find"
  /\ n \in todo
  /\ SkipEntry(n) \/ \E i \in Slots : RegisterEntry(n, i)
  /\ UNCHANGED <<kernel, rx>>

socketcan_find_end ==
  /\ pc = "find"
  /\ todo = {}
  /\ EndScan
  /\ UNCHANGED <<can_interface, kernel, rx>>

-----------------------------------------------------------------------------
(* Opening, closing, releasing, polling *)

\* socketcan_open up to socket(): a slot found open is closed first, and f,
\* whatever the context held before, is the number in it.
Attempt(i, b, f) ==
  [CloseIface(can_interface[i]) EXCEPT !.baudrate = b, !.internal = f]

\* The socket calls of socketcan_open; the descriptor of a call that failed
\* stays open, and stays in the context until the next attempt.
socketcan_open(i, b) ==
  LET n == can_interface[i].name
      closed == CloseSocks({i})
      Outcome(iface, s, v, why) ==
        /\ can_interface' = [can_interface EXCEPT ![i] = iface]
        /\ sock' = s
        /\ Return("open", v, why)
  IN /\ can_interface[i].internal # NULL
     /\ \/ Outcome(Attempt(i, b, NoFd), closed, -1, "socket")
        \/ \E f \in Fd :
             /\ closed[f].state = "closed"
             /\ \/ /\ n \notin netdev
                   /\ Outcome(Attempt(i, b, f),
                              [closed EXCEPT ![f] = RawSock], -1, "ioctl")
                \/ \* gone between the ioctl and the bind
                   /\ n \in netdev
                   /\ Outcome(Attempt(i, b, f),
                              [closed EXCEPT ![f] = RawSock], 1, "bind")
                \/ /\ n \in netdev
                   /\ Outcome([Attempt(i, b, f) EXCEPT !.opened = 1],
                              [closed EXCEPT ![f] = ReadySock(n)], 0, NULL)
     /\ UNCHANGED <<pc, rx>>

can_open(i, b) ==
  /\ pc = "idle"
  /\ \/ OpenRejected(i, b) /\ UNCHANGED <<sock, pc, rx>>
     \/ OnSocketCAN(i) /\ (socketcan_open(i, b) \/ Dereference(i))
  /\ UNCHANGED <<netdev, scan>>

\* The void calls report nothing; out of range or on a free slot they only
\* return, and Cleared changes nothing on a slot that is free.
can_close(i) ==
  /\ pc = "idle"
  /\ can_interface' = [j \in Slots |->
       IF j = i THEN CloseIface(can_interface[j]) ELSE can_interface[j]]
  /\ sock' = CloseSocks({i} \cap Slots)
  /\ Return("close", 0, NULL)
  /\ UNCHANGED <<netdev, thread>>

can_release(i) ==
  /\ pc = "idle"
  /\ ReleaseSlots({i} \cap Slots)
  /\ Return("release", 0, NULL)
  /\ UNCHANGED <<netdev, thread>>

can_release_interfaces ==
  /\ pc = "idle"
  /\ ReleaseSlots(Slots)
  /\ Return("release all", 0, NULL)
  /\ UNCHANGED <<netdev, thread>>

\* socketcan_update opens and closes a descriptor of its own to look the
\* name up, and releases the slot of a device that is gone.
socketcan_update(i) ==
  \/ /\ Return("update", -1, NULL)   \* no descriptor for the lookup
     /\ UNCHANGED <<can_interface, sock>>
  \/ /\ \E f \in Fd : sock[f].state = "closed"
     /\ IF can_interface[i].name \in netdev
        THEN Return("update", 0, NULL) /\ UNCHANGED <<can_interface, sock>>
        ELSE Return("update", -1, NULL) /\ ReleaseSlots({i})

can_update(i) ==
  /\ pc = "idle"
  /\ \/ Rejected("update", i) /\ UNCHANGED sock
     \/ OnSocketCAN(i) /\ socketcan_update(i)
  /\ UNCHANGED <<netdev, thread>>

-----------------------------------------------------------------------------
(* Baud rate and name *)

can_get(i, bad) == pc = "idle" /\ Get(i, bad) /\ UNCHANGED <<kernel, thread>>

\* libsocketcan's can_set_bitrate decides, and tells a reason to nobody.  The
\* rate is the device's, outside this model: the slot's own baud rate stays.
socketcan_set_baudrate(i) ==
  \/ Return("set", -1, NULL)
  \/ can_interface[i].name \in netdev /\ Return("set", 0, NULL)

can_set_baudrate(i, b) ==
  /\ pc = "idle"
  /\ \/ SetRejected(i, b)
     \/ /\ b \in Baud /\ OnSocketCAN(i)
        /\ socketcan_set_baudrate(i)
        /\ UNCHANGED can_interface
  /\ UNCHANGED <<kernel, thread>>

-----------------------------------------------------------------------------
(* Frames *)

\* Neither call asks whether the slot is open: the descriptor decides.
Bound(i) ==
  LET f == can_interface[i].internal
  IN f \in Fd /\ sock[f].dev # NULL

socketcan_send(i) ==
  /\ can_interface[i].internal # NULL
  /\ \/ Bound(i) /\ Return("send", 0, NULL)
     \/ Return("send", -1, "write")
  /\ UNCHANGED <<can_interface, sock, pc, rx>>

can_send(i) ==
  /\ pc = "idle"
  /\ \/ Rejected("send", i) /\ UNCHANGED <<sock, pc, rx>>
     \/ OnSocketCAN(i) /\ (socketcan_send(i) \/ Dereference(i))
  /\ UNCHANGED <<netdev, scan>>

can_recv(i) ==
  /\ pc = "idle"
  /\ \/ Rejected("recv", i) /\ UNCHANGED <<sock, pc, rx>>
     \/ /\ OnSocketCAN(i)
        /\ \/ /\ can_interface[i].internal # NULL
              /\ pc' = "recv"
              /\ rx' = i
              /\ ret' = NoCall
              /\ UNCHANGED <<can_interface, sock>>
           \/ Dereference(i)
  /\ UNCHANGED <<netdev, scan>>

\* recvmsg comes back with a frame or an error of the device the socket is
\* bound to; or, with nothing from there, at the receive timeout; or at once
\* when it is given no descriptor.  A raw socket has neither a device nor a
\* timeout, and a recvmsg on it does not come back.
Ready(i) ==
  LET f == can_interface[i].internal
  IN f \in Fd /\ sock[f].state = "ready"

RecvReturn(v, why) ==
  /\ Return("recv", v, why)
  /\ pc' = "idle"
  /\ rx' = NULL
  /\ UNCHANGED <<can_interface, kernel, scan>>

socketcan_recv_frame ==
  /\ pc = "recv"
  /\ \/ Bound(rx) /\ RecvReturn(0, NULL)
     \/ Ready(rx) /\ RecvReturn(-1, "recvmsg")

socketcan_recv_fails ==
  /\ pc = "recv"
  /\ \/ Ready(rx) /\ RecvReturn(-1, "timeout")
     \/ can_interface[rx].internal = NoFd /\ RecvReturn(-1, "recvmsg")

-----------------------------------------------------------------------------
(* The kernel and the process *)

Plug(n) ==
  /\ n \notin netdev
  /\ netdev' = netdev \cup {n}
  /\ UNCHANGED <<can_interface, sock, thread, ret>>

\* A device that goes unbinds its sockets; one that comes back under the same
\* name is a new device.
Unplug(n) ==
  /\ n \in netdev
  /\ netdev' = netdev \ {n}
  /\ sock' = [f \in Fd |-> IF sock[f].dev = n
                           THEN [sock[f] EXCEPT !.dev = NULL] ELSE sock[f]]
  /\ steady' = steady \ {n}
  /\ unread' = unread \ {n}
  /\ UNCHANGED <<can_interface, pc, todo, rx, ret>>

\* The process that crashed is started again: zeroed table, no descriptors.
Restart ==
  /\ pc = "crashed"
  /\ can_interface' = [i \in Slots |-> ZeroIface]
  /\ sock' = [f \in Fd |-> ClosedSock]
  /\ pc' = "idle"
  /\ UNCHANGED <<netdev, ret, scan, rx>>

-----------------------------------------------------------------------------
Scan == (\E n \in Device : socketcan_find_entry(n)) \/ socketcan_find_end

Call ==
  \/ \E wanted \in BOOLEAN : can_find_interfaces_mask(wanted)
  \/ \E i \in CallIndex, b \in Asked : can_open(i, b) \/ can_set_baudrate(i, b)
  \/ \E i \in CallIndex : \/ can_close(i) \/ can_release(i) \/ can_update(i)
                          \/ can_send(i) \/ can_recv(i)
  \/ \E i \in CallIndex, bad \in BOOLEAN : can_get(i, bad)
  \/ can_release_interfaces

Environment == (\E n \in Device : Plug(n) \/ Unplug(n)) \/ Restart

Next == Call \/ Scan \/ socketcan_recv_frame \/ socketcan_recv_fails \/ Environment

Spec == Init /\ [][Next]_vars

\* The thread inside a scan runs on, a receive timeout expires and a recvmsg
\* without a descriptor is refused; no frame is ever promised to arrive.
FairSpec == Spec /\ WF_vars(Scan) /\ WF_vars(socketcan_recv_fails)

-----------------------------------------------------------------------------
(* Safety *)

\* The descriptor number a slot keeps is a descriptor the slot owns: the kernel
\* has not taken it back, no other slot keeps it, and it is bound to no device
\* but the slot's own.  So the close() of one slot never closes, and its write()
\* never reaches, the socket of another.
DescriptorsOwned ==
  \A i \in Slots :
    can_interface[i].internal \in Fd =>
      /\ sock[can_interface[i].internal].state # "closed"
      /\ sock[can_interface[i].internal].dev \in {NULL, can_interface[i].name}
      /\ \A j \in Slots \ {i} :
           can_interface[j].internal # can_interface[i].internal

\* The opened flag says what the kernel says: it is set exactly while the slot
\* has a socket that can_open set up to its end.
OpenedIsReady ==
  \A i \in Slots : can_interface[i].opened = 1 <=> Ready(i)

\* No call loses the socket of an opened interface: every socket that was set
\* up is still in the table, where can_release_interfaces finds it.  (Sockets
\* of a can_open that failed do get lost.)
CompletedSocketsOwned ==
  \A f \in Fd : sock[f].state = "ready" =>
    \E i \in Slots : can_interface[i].internal = f

\* The null context is dereferenced only through a slot that discovery left
\* half registered when it ran out of memory.
CrashNeedsHalfRegistration ==
  pc = "crashed" =>
    \E i \in Slots : ~Free(i) /\ can_interface[i].internal = NULL

\* A scan that goes on passes a device over for two reasons only, a full table
\* and a type file it could not read: any other that was there from the start and
\* that it has come to is registered.
FindComplete ==
  pc = "find" =>
    \A n \in steady \ (todo \cup unread) :
      \/ \E i \in Slots : can_interface[i].name = n
      \/ \A i \in Slots : can_interface[i].name # NULL

\* A registered slot keeps its name and its context until can_release, or until
\* can_update finds its device gone; no scan, open, close or error path may
\* rename it or take its context away.
RegistrationStable ==
  [][\A i \in Slots : SlotLost(i) =>
       /\ SlotCleared(i)
       /\ \/ ret'.op \in {"release", "release all"}
          \/ /\ ret'.op = "update"
             /\ ret'.val = -1
             /\ can_interface[i].name \notin netdev
          \/ pc = "crashed"]_vars

\* What can_open returns is what it leaves: 0 with the interface opened, and
\* otherwise a closed interface and a reason for can_get_error.
OpenOutcome ==
  [][pc = "idle" /\ ret'.op = "open" /\ pc' # "crashed" =>
       \A i \in CallIndex, b \in Asked : can_open(i, b) =>
         /\ ret'.val = 0 <=> (i \in Slots /\ can_interface'[i].opened = 1)
         /\ ret'.val # 0 => ret'.reason # NULL]_vars

-----------------------------------------------------------------------------
(* The public interface: an index is open while its socket is set up. *)

Lifecycle == INSTANCE CanLifecycle WITH
  Whole <- {}, Part <- {},
  device <- [i \in Slots |-> can_interface[i].name],
  open <- {i \in Slots : Ready(i)}

Refinement == Lifecycle!Spec

-----------------------------------------------------------------------------
(* Liveness *)

\* A scan ends, whatever comes and goes while it runs.
ScanReturns == pc = "find" ~> pc # "find"

\* can_recv on an opened interface comes back, also when its device is gone.
OpenedRecvReturns ==
  (pc = "recv" /\ can_interface[rx].opened = 1) ~> pc = "idle"

\* The receive timeout of socketcan_open, taken as a promise about can_recv:
\* every call comes back.  It does not on a slot whose can_open failed.
RecvReturns == pc = "recv" ~> pc = "idle"
=============================================================================
