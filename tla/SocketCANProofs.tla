-------------------------- MODULE SocketCANProofs ---------------------------
(***************************************************************************)
(* Proofs about the Linux build, for every table size and every set of     *)
(* devices and descriptors.  The four invariants that relate can_interface *)
(* to the sockets of the kernel are proved together because each needs the *)
(* others; that a name has one index is proved at the end, from the types  *)
(* alone.                                                                  *)
(***************************************************************************)
EXTENDS SocketCAN, CanCallsProofs

IfaceType == Iface({"SOCKETCAN"}, Fd \cup {NoFd})

-----------------------------------------------------------------------------
(* Operators of the model *)

\* Callers ask for rates a slot can hold.
LEMMA AskedRates == \A b \in Asked : b \in AnyBaud
  BY FdAssumption

LEMMA CloseIfaceType ==
  ASSUME NEW iface \in IfaceType
  PROVE  /\ CloseIface(iface) \in IfaceType
         /\ CloseIface(iface).name = iface.name
         /\ CloseIface(iface).vendor = iface.vendor
  BY DEF IfaceType, Iface, CloseIface

LEMMA CloseSocksType ==
  ASSUME sock \in [Fd -> SockState], NEW S
  PROVE  CloseSocks(S) \in [Fd -> SockState]
  BY DEF CloseSocks, SockState, ClosedSock

LEMMA ReleaseSlotsType ==
  ASSUME can_interface \in [Slots -> IfaceType], sock \in [Fd -> SockState],
         NEW S, ReleaseSlots(S)
  PROVE  /\ can_interface' \in [Slots -> IfaceType]
         /\ sock' \in [Fd -> SockState]
<1>1. \A i \in Slots : /\ CloseIface(can_interface[i]) \in IfaceType
                       /\ Cleared(CloseIface(can_interface[i])) \in IfaceType
  BY CloseIfaceType, ClearedType DEF IfaceType
<1> QED BY <1>1, CloseSocksType DEF ReleaseSlots

-----------------------------------------------------------------------------
(* Type correctness *)

LEMMA AttemptType ==
  ASSUME can_interface \in [Slots -> IfaceType],
         NEW i \in Slots, NEW b \in AnyBaud, NEW f \in Fd \cup {NoFd}
  PROVE  /\ Attempt(i, b, f) \in IfaceType
         /\ [Attempt(i, b, f) EXCEPT !.opened = 1] \in IfaceType
<1>1. CloseIface(can_interface[i]) \in IfaceType
  BY CloseIfaceType
<1> QED BY <1>1 DEF Attempt, IfaceType, Iface

\* can_open of a free slot writes its baud rate only.
LEMMA OpenRejectedSlots ==
  ASSUME can_interface \in [Slots -> IfaceType],
         NEW i, NEW b \in AnyBaud, OpenRejected(i, b)
  PROVE  can_interface' \in [Slots -> IfaceType]
<1>1. CASE UNCHANGED can_interface
  BY <1>1
<1>2. CASE /\ i \in Slots
           /\ can_interface' = [can_interface EXCEPT ![i].baudrate = b]
  <2>1. [can_interface[i] EXCEPT !.baudrate = b] \in IfaceType
    BY <1>2, SetBaudType DEF IfaceType
  <2> QED BY <1>2, <2>1
<1> QED BY <1>1, <1>2, OpenRejectedTable

\* The outcomes of socketcan_open: no socket, a socket that was not set up to
\* its end, a socket that was.
OpenNoSocket(i, b) ==
  /\ can_interface' = [can_interface EXCEPT ![i] = Attempt(i, b, NoFd)]
  /\ sock' = CloseSocks({i})
  /\ Return("open", -1, "socket")

OpenFails(i, b, f) ==
  /\ CloseSocks({i})[f].state = "closed"
  /\ can_interface' = [can_interface EXCEPT ![i] = Attempt(i, b, f)]
  /\ sock' = [CloseSocks({i}) EXCEPT ![f] = RawSock]
  /\ Return("open", -1, "ioctl") \/ Return("open", 1, "bind")

OpenSucceeds(i, b, f) ==
  /\ CloseSocks({i})[f].state = "closed"
  /\ can_interface' = [can_interface EXCEPT
                         ![i] = [Attempt(i, b, f) EXCEPT !.opened = 1]]
  /\ sock' = [CloseSocks({i}) EXCEPT ![f] = ReadySock(can_interface[i].name)]
  /\ Return("open", 0, NULL)

LEMMA OpenCases ==
  ASSUME NEW i, NEW b, socketcan_open(i, b)
  PROVE  /\ \/ OpenNoSocket(i, b)
            \/ \E f \in Fd : OpenFails(i, b, f) \/ OpenSucceeds(i, b, f)
         /\ UNCHANGED <<pc, rx>>
  BY Zenon DEF socketcan_open, OpenNoSocket, OpenFails, OpenSucceeds

LEMMA OpenType ==
  ASSUME TypeOK, NEW i \in Slots, NEW b \in AnyBaud, socketcan_open(i, b)
  PROVE  /\ can_interface' \in [Slots -> IfaceType]
         /\ sock' \in [Fd -> SockState]
         /\ ret' \in Result(Reason)
<1>1. CloseSocks({i}) \in [Fd -> SockState]
  BY CloseSocksType DEF TypeOK
<1>2. can_interface \in [Slots -> IfaceType] /\ i \in CallIndex
  BY SlotsAreIndices DEF TypeOK, IfaceType
<1>3. \A f \in Fd \cup {NoFd} :
        /\ Attempt(i, b, f) \in IfaceType
        /\ [Attempt(i, b, f) EXCEPT !.opened = 1] \in IfaceType
  BY <1>2, AttemptType
<1>4. RawSock \in SockState /\ ReadySock(can_interface[i].name) \in SockState
  BY <1>2 DEF RawSock, ReadySock, SockState, IfaceType, Iface
<1>5. CASE OpenNoSocket(i, b)
  <2>1. ret' \in Result(Reason)
    BY <1>2, <1>5, ReturnType DEF OpenNoSocket, Op, Reason
  <2> QED BY <1>1, <1>2, <1>3, <1>5, <2>1 DEF OpenNoSocket
<1>6. ASSUME NEW f \in Fd, OpenFails(i, b, f)
      PROVE  /\ can_interface' \in [Slots -> IfaceType]
             /\ sock' \in [Fd -> SockState]
             /\ ret' \in Result(Reason)
  <2>1. ret' \in Result(Reason)
    BY <1>2, <1>6, ReturnType DEF OpenFails, Op, Reason
  <2>2. can_interface' \in [Slots -> IfaceType]
    BY <1>2, <1>3, <1>6 DEF OpenFails
  <2>3. sock' \in [Fd -> SockState]
    BY <1>1, <1>4, <1>6 DEF OpenFails
  <2> QED BY <2>1, <2>2, <2>3
<1>7. ASSUME NEW f \in Fd, OpenSucceeds(i, b, f)
      PROVE  /\ can_interface' \in [Slots -> IfaceType]
             /\ sock' \in [Fd -> SockState]
             /\ ret' \in Result(Reason)
  <2>1. ret' \in Result(Reason)
    BY <1>2, <1>7, ReturnType DEF OpenSucceeds, Op, Reason
  <2>2. can_interface' \in [Slots -> IfaceType]
    BY <1>2, <1>3, <1>7 DEF OpenSucceeds
  <2>3. sock' \in [Fd -> SockState]
    BY <1>1, <1>4, <1>7 DEF OpenSucceeds
  <2> QED BY <2>1, <2>2, <2>3
<1> QED BY <1>5, <1>6, <1>7, OpenCases

\* The slot RegisterEntry names, with and without memory for the descriptor.
NamedIface(iface, n) ==
  [iface EXCEPT !.name = n, !.vendor = "SOCKETCAN",
                !.opened = 0, !.baudrate = CAN_BAUD_1M]

LEMMA RegisterCases ==
  ASSUME NEW n, NEW i, RegisterEntry(n, i)
  PROVE  /\ n \in netdev /\ ~AlreadyRegistered(n) /\ FirstFree(i)
         /\ \/ /\ can_interface' = [can_interface EXCEPT
                     ![i] = [NamedIface(can_interface[i], n) EXCEPT
                               !.internal = NoFd]]
               /\ todo' = todo \ {n}
               /\ UNCHANGED <<pc, steady, unread, ret>>
            \/ UNCHANGED can_interface /\ EndScan
            \/ /\ can_interface' = [can_interface EXCEPT
                     ![i] = NamedIface(can_interface[i], n)]
               /\ EndScan
  BY Zenon DEF RegisterEntry, NamedIface

LEMMA NamedIfaceType ==
  ASSUME NEW iface \in IfaceType, NEW n \in Device
  PROVE  /\ NamedIface(iface, n) \in IfaceType
         /\ [NamedIface(iface, n) EXCEPT !.internal = NoFd] \in IfaceType
  BY TableAssumption DEF IfaceType, Iface, NamedIface, AnyBaud

LEMMA ScanType ==
  ASSUME TypeOK, Scan
  PROVE  TypeOK'
<1>1. ASSUME EndScan
      PROVE  /\ pc' = "idle" /\ todo' = {} /\ steady' = {} /\ unread' = {}
             /\ ret' \in Result(Reason)
  BY <1>1, ReturnType DEF EndScan, Op
<1>2. ASSUME NEW n \in Device, socketcan_find_entry(n)
      PROVE  TypeOK'
  <2>1. CASE SkipEntry(n)
    BY <1>2, <2>1 DEF socketcan_find_entry, SkipEntry, PassedOver, TypeUnread, kernel, TypeOK
  <2>2. ASSUME NEW i \in Slots, RegisterEntry(n, i)
        PROVE  TypeOK'
    <3>1. can_interface' \in [Slots -> IfaceType]
      <4>1. /\ can_interface \in [Slots -> IfaceType]
            /\ NamedIface(can_interface[i], n) \in IfaceType
            /\ [NamedIface(can_interface[i], n) EXCEPT !.internal = NoFd]
                 \in IfaceType
        BY NamedIfaceType DEF TypeOK, IfaceType
      <4> QED BY <2>2, <4>1, RegisterCases
    <3>2. /\ pc' \in {"idle", "find", "recv", "crashed"}
          /\ todo' \subseteq Device
          /\ steady' \subseteq Device
          /\ unread' \subseteq Device
          /\ ret' \in Result(Reason)
      BY <1>1, <2>2, RegisterCases DEF TypeOK
    <3> QED BY <1>2, <3>1, <3>2 DEF socketcan_find_entry, kernel, TypeOK, IfaceType
  <2> QED BY <1>2, <2>1, <2>2 DEF socketcan_find_entry
<1>3. ASSUME socketcan_find_end PROVE TypeOK'
  BY <1>1, <1>3 DEF socketcan_find_end, kernel, TypeOK
<1> QED BY <1>2, <1>3 DEF Scan

LEMMA CallType ==
  ASSUME TypeOK, Call
  PROVE  TypeOK'
<1> USE DEF thread, kernel, scan
<1>1. ASSUME NEW wanted \in BOOLEAN, can_find_interfaces_mask(wanted)
      PROVE  TypeOK'
  <2>1. ret' \in Result(Reason)
    BY <1>1, ReturnType, NoCallType DEF can_find_interfaces_mask, Op
  <2> QED BY <1>1, <2>1 DEF can_find_interfaces_mask, TypeOK
<1>2. ASSUME NEW i \in CallIndex, NEW b \in Asked, can_open(i, b)
      PROVE  TypeOK'
  <2>1. CASE OpenRejected(i, b) /\ UNCHANGED <<sock, pc, rx>>
    <3>1. ret' \in Result(Reason) /\ can_interface' \in [Slots -> IfaceType]
      BY <2>1, AskedRates, OpenRejectedType, OpenRejectedSlots DEF TypeOK, IfaceType
    <3> QED BY <1>2, <2>1, <3>1 DEF can_open, TypeOK, IfaceType
  <2>3. CASE OnSocketCAN(i) /\ socketcan_open(i, b)
    BY <1>2, <2>3, AskedRates, OpenType, OpenCases
    DEF can_open, OnSocketCAN, TypeOK, IfaceType
  <2>4. CASE OnSocketCAN(i) /\ Dereference(i)
    BY <1>2, <2>4, NoCallType DEF can_open, Dereference, TypeOK
  <2> QED BY <1>2, <2>1, <2>3, <2>4 DEF can_open
<1>3. ASSUME NEW i \in CallIndex, can_close(i)
      PROVE  TypeOK'
  <2>1. can_interface' \in [Slots -> IfaceType] /\ sock' \in [Fd -> SockState]
    BY <1>3, CloseIfaceType, CloseSocksType DEF can_close, TypeOK, IfaceType
  <2>2. ret' \in Result(Reason)
    BY <1>3, ReturnType DEF can_close, Op
  <2> QED BY <1>3, <2>1, <2>2 DEF can_close, TypeOK, IfaceType
<1>4. ASSUME NEW i \in CallIndex, can_release(i)
      PROVE  TypeOK'
  <2>1. can_interface' \in [Slots -> IfaceType] /\ sock' \in [Fd -> SockState]
    BY <1>4, ReleaseSlotsType DEF can_release, TypeOK, IfaceType
  <2>2. ret' \in Result(Reason)
    BY <1>4, ReturnType DEF can_release, Op
  <2> QED BY <1>4, <2>1, <2>2 DEF can_release, TypeOK, IfaceType
<1>5. ASSUME can_release_interfaces
      PROVE  TypeOK'
  <2>1. can_interface' \in [Slots -> IfaceType] /\ sock' \in [Fd -> SockState]
    BY <1>5, ReleaseSlotsType DEF can_release_interfaces, TypeOK, IfaceType
  <2>2. ret' \in Result(Reason)
    BY <1>5, ReturnType DEF can_release_interfaces, Op
  <2> QED BY <1>5, <2>1, <2>2 DEF can_release_interfaces, TypeOK, IfaceType
<1>6. ASSUME NEW i \in CallIndex, can_update(i)
      PROVE  TypeOK'
  <2>1. CASE Rejected("update", i) /\ UNCHANGED sock
    BY <1>6, <2>1, RejectedType DEF can_update, TypeOK, Op
  <2>2. CASE OnSocketCAN(i) /\ socketcan_update(i)
    <3>1. ret' \in Result(Reason)
      BY <1>6, <2>2, ReturnType DEF socketcan_update, Op
    <3>2. can_interface' \in [Slots -> IfaceType] /\ sock' \in [Fd -> SockState]
      BY <2>2, ReleaseSlotsType DEF socketcan_update, TypeOK, IfaceType
    <3> QED BY <1>6, <3>1, <3>2 DEF can_update, TypeOK, IfaceType
  <2> QED BY <1>6, <2>1, <2>2 DEF can_update
<1>7. ASSUME NEW i \in CallIndex, NEW bad \in BOOLEAN, can_get(i, bad)
      PROVE  TypeOK'
  BY <1>7, GetType DEF can_get, TypeOK
<1>8. ASSUME NEW i \in CallIndex, NEW b \in Asked, can_set_baudrate(i, b)
      PROVE  TypeOK'
  <2>1. ret' \in Result(Reason) /\ UNCHANGED can_interface
    BY <1>8, SetRejectedType, ReturnType
    DEF can_set_baudrate, socketcan_set_baudrate, Op
  <2> QED BY <1>8, <2>1 DEF can_set_baudrate, TypeOK
<1>9. ASSUME NEW i \in CallIndex, can_send(i)
      PROVE  TypeOK'
  <2>1. CASE Rejected("send", i) /\ UNCHANGED <<sock, pc, rx>>
    BY <1>9, <2>1, RejectedType DEF can_send, TypeOK, Op
  <2>3. CASE OnSocketCAN(i) /\ socketcan_send(i)
    <3>1. ret' \in Result(Reason)
      BY <1>9, <2>3, ReturnType DEF socketcan_send, Op, Reason
    <3> QED BY <1>9, <2>3, <3>1 DEF can_send, socketcan_send, TypeOK
  <2>4. CASE OnSocketCAN(i) /\ Dereference(i)
    BY <1>9, <2>4, NoCallType DEF can_send, Dereference, TypeOK
  <2> QED BY <1>9, <2>1, <2>3, <2>4 DEF can_send
<1>10. ASSUME NEW i \in CallIndex, can_recv(i)
       PROVE  TypeOK'
  <2>1. CASE Rejected("recv", i) /\ UNCHANGED <<sock, pc, rx>>
    BY <1>10, <2>1, RejectedType DEF can_recv, TypeOK, Op
  <2>3. CASE OnSocketCAN(i) /\ Dereference(i)
    BY <1>10, <2>3, NoCallType DEF can_recv, Dereference, TypeOK
  <2>4. CASE /\ OnSocketCAN(i)
             /\ pc' = "recv"
             /\ rx' = i
             /\ ret' = NoCall
             /\ UNCHANGED <<can_interface, sock>>
    BY <1>10, <2>4, NoCallType DEF can_recv, OnSocketCAN, TypeOK
  <2> QED BY <1>10, <2>1, <2>3, <2>4 DEF can_recv
<1> QED
  BY <1>1, <1>2, <1>3, <1>4, <1>5, <1>6, <1>7, <1>8, <1>9, <1>10 DEF Call

LEMMA RecvReturnType ==
  ASSUME TypeOK, socketcan_recv_frame \/ socketcan_recv_fails
  PROVE  TypeOK'
<1>1. ret' \in Result(Reason)
  BY ReturnType
  DEF socketcan_recv_frame, socketcan_recv_fails, RecvReturn, Op, Reason
<1> QED
  BY <1>1 DEF socketcan_recv_frame, socketcan_recv_fails, RecvReturn, kernel, scan, TypeOK

LEMMA EnvironmentType ==
  ASSUME TypeOK, Environment
  PROVE  TypeOK'
<1> USE DEF thread, scan
<1>1. ASSUME NEW n \in Device, Plug(n) PROVE TypeOK'
  BY <1>1 DEF Plug, TypeOK
<1>2. ASSUME NEW n \in Device, Unplug(n) PROVE TypeOK'
  <2>1. sock' \in [Fd -> SockState]
    BY <1>2 DEF Unplug, TypeOK, SockState
  <2> QED BY <1>2, <2>1 DEF Unplug, TypeOK
<1>3. ASSUME Restart PROVE TypeOK'
  <2>1. ClosedSock \in SockState
    BY DEF ClosedSock, SockState
  <2> QED BY <1>3, <2>1, ZeroIfaceType DEF Restart, TypeOK, IfaceType
<1> QED BY <1>1, <1>2, <1>3 DEF Environment

LEMMA InitType == Init => TypeOK
<1>1. ClosedSock \in SockState
  BY DEF ClosedSock, SockState
<1> QED BY <1>1, ZeroIfaceType, NoCallType DEF Init, TypeOK, IfaceType

LEMMA NextType == ASSUME TypeOK, [Next]_vars PROVE TypeOK'
<1>1. ASSUME UNCHANGED vars PROVE TypeOK'
  BY <1>1 DEF vars, kernel, thread, scan, TypeOK
<1> QED BY <1>1, CallType, ScanType, RecvReturnType, EnvironmentType DEF Next

\* Every variable keeps to its values (the type invariant of the runs).
THEOREM TypeCorrect == Spec => []TypeOK
<1>1. TypeOK /\ [Next]_vars => TypeOK'
  BY NextType
<1> QED BY <1>1, InitType, PTL DEF Spec

-----------------------------------------------------------------------------
(* The invariants, over any table and any sockets *)

\* The invariants of SocketCAN over any table and sockets, so that a call can
\* be followed through the table between its close and its open.
Agree(tab, sck) ==
  /\ tab \in [Slots -> IfaceType]
  /\ sck \in [Fd -> SockState]
  /\ \A i \in Slots :
       /\ tab[i].name = NULL <=> tab[i].vendor = "NONE"
       /\ tab[i].name = NULL => tab[i].opened = 0 /\ tab[i].internal = NULL
       /\ tab[i].opened = 1 <=>
            tab[i].internal \in Fd /\ sck[tab[i].internal].state = "ready"
  /\ \A i \in Slots : tab[i].internal \in Fd =>
       /\ sck[tab[i].internal].state # "closed"
       /\ sck[tab[i].internal].dev \in {NULL, tab[i].name}
       /\ \A j \in Slots \ {i} : tab[j].internal # tab[i].internal
  /\ \A f \in Fd : sck[f].state = "ready" => \E i \in Slots : tab[i].internal = f

Inv ==
  /\ TypeOK
  /\ TableWellFormed
  /\ DescriptorsOwned
  /\ OpenedIsReady
  /\ CompletedSocketsOwned

LEMMA InvAgree == Inv <=> TypeOK /\ Agree(can_interface, sock)
<1>1. ASSUME Inv PROVE Agree(can_interface, sock)
  BY <1>1 DEF Inv, Agree, TypeOK, IfaceType, TableWellFormed, Free, DescriptorsOwned,
     OpenedIsReady, Ready, CompletedSocketsOwned
<1>2. ASSUME TypeOK, Agree(can_interface, sock) PROVE Inv
  BY <1>2 DEF Inv, Agree, TypeOK, IfaceType, TableWellFormed, Free, DescriptorsOwned,
     OpenedIsReady, Ready, CompletedSocketsOwned
<1> QED BY <1>1, <1>2 DEF Inv

-----------------------------------------------------------------------------
(* What the operators of the model do to a table that agrees *)

\* An unopened slot may be written while its context holds no descriptor.
LEMMA PutClosed ==
  ASSUME NEW tab, NEW sck, Agree(tab, sck), NEW i \in Slots, NEW x \in IfaceType,
         tab[i].opened = 0, x.opened = 0, x.internal \notin Fd,
         x.name = NULL <=> x.vendor = "NONE",
         x.name = NULL => x.internal = NULL
  PROVE  Agree([tab EXCEPT ![i] = x], sck)
<1> DEFINE new == [tab EXCEPT ![i] = x]
<1>1. new \in [Slots -> IfaceType] /\ sck \in [Fd -> SockState]
  BY DEF Agree
<1>2. \A j \in Slots : new[j] = IF j = i THEN x ELSE tab[j]
  BY DEF Agree
<1> HIDE DEF new
<1>3. \A j \in Slots :
        /\ new[j].name = NULL <=> new[j].vendor = "NONE"
        /\ new[j].name = NULL => new[j].opened = 0 /\ new[j].internal = NULL
        /\ new[j].opened = 1 <=>
             new[j].internal \in Fd /\ sck[new[j].internal].state = "ready"
  BY <1>2 DEF Agree
<1>4. \A j \in Slots : new[j].internal \in Fd =>
        /\ sck[new[j].internal].state # "closed"
        /\ sck[new[j].internal].dev \in {NULL, new[j].name}
        /\ \A k \in Slots \ {j} : new[k].internal # new[j].internal
  BY <1>2 DEF Agree
<1>5. \A f \in Fd : sck[f].state = "ready" => \E j \in Slots : new[j].internal = f
  BY <1>2 DEF Agree
<1> QED BY <1>1, <1>3, <1>4, <1>5 DEF Agree, new

\* A descriptor the kernel hands out goes to a slot that is not open.
LEMMA PutDescriptor ==
  ASSUME NEW tab, NEW sck, Agree(tab, sck), NEW i \in Slots, NEW x \in IfaceType,
         NEW f \in Fd, NEW s \in SockState,
         tab[i].opened = 0, tab[i].vendor # "NONE", sck[f].state = "closed",
         x.name = tab[i].name, x.vendor = tab[i].vendor, x.internal = f,
         s.state # "closed", s.dev \in {NULL, x.name},
         x.opened = 1 <=> s.state = "ready"
  PROVE  Agree([tab EXCEPT ![i] = x], [sck EXCEPT ![f] = s])
<1> DEFINE new == [tab EXCEPT ![i] = x]
           socks == [sck EXCEPT ![f] = s]
<1>1. new \in [Slots -> IfaceType] /\ socks \in [Fd -> SockState]
  BY DEF Agree
<1>2. /\ \A j \in Slots : new[j] = IF j = i THEN x ELSE tab[j]
      /\ \A g \in Fd : socks[g] = IF g = f THEN s ELSE sck[g]
  BY DEF Agree
<1> HIDE DEF new, socks
<1>3. \A j \in Slots : tab[j].internal # f
  BY DEF Agree
<1>4. \A j \in Slots :
        /\ new[j].name = NULL <=> new[j].vendor = "NONE"
        /\ new[j].name = NULL => new[j].opened = 0 /\ new[j].internal = NULL
        /\ new[j].opened = 1 <=>
             new[j].internal \in Fd /\ socks[new[j].internal].state = "ready"
  BY <1>2, <1>3 DEF Agree
<1>5. \A j \in Slots : new[j].internal \in Fd =>
        /\ socks[new[j].internal].state # "closed"
        /\ socks[new[j].internal].dev \in {NULL, new[j].name}
        /\ \A k \in Slots \ {j} : new[k].internal # new[j].internal
  BY <1>2, <1>3 DEF Agree
<1>6. \A g \in Fd : socks[g].state = "ready" => \E j \in Slots : new[j].internal = g
  BY <1>2, <1>3 DEF Agree
<1> QED BY <1>1, <1>4, <1>5, <1>6 DEF Agree, new, socks

ClosedTable(S) ==
  [i \in Slots |-> IF i \in S THEN CloseIface(can_interface[i])
                              ELSE can_interface[i]]

\* socketcan_close on every slot of S.
LEMMA CloseAgrees ==
  ASSUME Agree(can_interface, sock), NEW S \in SUBSET Slots
  PROVE  /\ Agree(ClosedTable(S), CloseSocks(S))
         /\ \A i \in S : ClosedTable(S)[i].opened = 0
<1> DEFINE tab == ClosedTable(S)
           sck == CloseSocks(S)
<1>1. tab \in [Slots -> IfaceType] /\ sck \in [Fd -> SockState]
  BY CloseIfaceType, CloseSocksType DEF Agree, ClosedTable
<1>2. \A i \in Slots : IsOpen(can_interface[i]) <=> can_interface[i].opened = 1
  BY DEF Agree, IsOpen
<1>3. \A i \in Slots :
        /\ tab[i].name = can_interface[i].name
        /\ tab[i].vendor = can_interface[i].vendor
        /\ i \in S /\ can_interface[i].opened = 1 =>
             tab[i].opened = 0 /\ tab[i].internal = NoFd
        /\ ~(i \in S /\ can_interface[i].opened = 1) =>
             tab[i] = can_interface[i]
  <2> SUFFICES ASSUME NEW i \in Slots
               PROVE  /\ tab[i].name = can_interface[i].name
                      /\ tab[i].vendor = can_interface[i].vendor
                      /\ i \in S /\ can_interface[i].opened = 1 =>
                           tab[i].opened = 0 /\ tab[i].internal = NoFd
                      /\ ~(i \in S /\ can_interface[i].opened = 1) =>
                           tab[i] = can_interface[i]
    OBVIOUS
  <2>1. can_interface[i] \in IfaceType
    BY DEF Agree
  <2> QED BY <1>2, <2>1, CloseIfaceType DEF ClosedTable, CloseIface, IfaceType, Iface
<1>4. \A f \in Fd :
        sck[f] = IF \E i \in S : /\ can_interface[i].opened = 1
                                 /\ can_interface[i].internal = f
                 THEN ClosedSock ELSE sock[f]
  BY <1>2 DEF CloseSocks
<1>5. \A i \in Slots : tab[i].internal \in Fd =>
        /\ tab[i] = can_interface[i]
        /\ sck[tab[i].internal] = sock[tab[i].internal]
  BY <1>3, <1>4, FdAssumption DEF Agree
<1> HIDE DEF tab, sck
<1>6. \A i \in Slots :
        /\ tab[i].name = NULL <=> tab[i].vendor = "NONE"
        /\ tab[i].name = NULL => tab[i].opened = 0 /\ tab[i].internal = NULL
        /\ tab[i].opened = 1 <=>
             tab[i].internal \in Fd /\ sck[tab[i].internal].state = "ready"
  BY <1>3, <1>5, FdAssumption DEF Agree
<1>7. \A i \in Slots : tab[i].internal \in Fd =>
        /\ sck[tab[i].internal].state # "closed"
        /\ sck[tab[i].internal].dev \in {NULL, tab[i].name}
        /\ \A j \in Slots \ {i} : tab[j].internal # tab[i].internal
  BY <1>3, <1>5, FdAssumption DEF Agree
<1>8. \A f \in Fd : sck[f].state = "ready" => \E i \in Slots : tab[i].internal = f
  <2> SUFFICES ASSUME NEW f \in Fd, sck[f].state = "ready"
               PROVE  \E i \in Slots : tab[i].internal = f
    OBVIOUS
  <2>1. /\ sock[f].state = "ready"
        /\ \A i \in S : can_interface[i].internal = f => can_interface[i].opened # 1
    BY <1>4 DEF ClosedSock
  <2> QED BY <1>3, <2>1 DEF Agree
<1>9. \A i \in S : tab[i].opened = 0
  BY <1>1, <1>3 DEF Agree, IfaceType, Iface
<1> QED BY <1>1, <1>6, <1>7, <1>8, <1>9 DEF Agree, tab, sck

\* can_release of every slot of S.
LEMMA ReleaseAgrees ==
  ASSUME Agree(can_interface, sock), NEW S \in SUBSET Slots, ReleaseSlots(S)
  PROVE  Agree(can_interface', sock')
<1> DEFINE tab == ClosedTable(S)
<1>1. Agree(tab, CloseSocks(S)) /\ \A i \in S : tab[i].opened = 0
  BY CloseAgrees
<1>2. sock' = CloseSocks(S)
  BY DEF ReleaseSlots
<1>3. \A i \in Slots : can_interface'[i] = IF i \in S THEN Cleared(tab[i]) ELSE tab[i]
  BY DEF ReleaseSlots, ClosedTable
<1> HIDE DEF tab
<1>4. tab \in [Slots -> IfaceType]
  BY <1>1 DEF Agree
<1>5. \A i \in S : /\ can_interface'[i].name = NULL
                   /\ can_interface'[i].vendor = "NONE"
                   /\ can_interface'[i].opened = 0
                   /\ can_interface'[i].internal = NULL
  BY <1>3, <1>4, ClearedType DEF IfaceType
<1>6. can_interface' \in [Slots -> IfaceType]
  <2>1. \A i \in S : Cleared(tab[i]) \in IfaceType
    BY <1>4, ClearedType DEF IfaceType
  <2> QED BY <1>3, <1>4, <2>1 DEF ReleaseSlots
<1>7. \A f \in Fd : sock'[f].state = "ready" =>
        \E i \in Slots : can_interface'[i].internal = f
  BY <1>1, <1>2, <1>3 DEF Agree
<1>8. \A i \in Slots :
        /\ can_interface'[i].name = NULL <=> can_interface'[i].vendor = "NONE"
        /\ can_interface'[i].name = NULL =>
             can_interface'[i].opened = 0 /\ can_interface'[i].internal = NULL
        /\ can_interface'[i].opened = 1 <=>
             /\ can_interface'[i].internal \in Fd
             /\ sock'[can_interface'[i].internal].state = "ready"
  BY <1>1, <1>2, <1>3, <1>5, FdAssumption DEF Agree
<1>9. \A i \in Slots : can_interface'[i].internal \in Fd =>
        /\ sock'[can_interface'[i].internal].state # "closed"
        /\ sock'[can_interface'[i].internal].dev \in {NULL, can_interface'[i].name}
        /\ \A j \in Slots \ {i} :
             can_interface'[j].internal # can_interface'[i].internal
  BY <1>1, <1>2, <1>3, <1>5, FdAssumption DEF Agree
<1>10. sock' \in [Fd -> SockState]
  BY <1>1, <1>2 DEF Agree
<1> QED BY <1>6, <1>7, <1>8, <1>9, <1>10 DEF Agree

LEMMA OpenAgrees ==
  ASSUME Agree(can_interface, sock), NEW i \in Slots, NEW b \in AnyBaud,
         OnSocketCAN(i), socketcan_open(i, b)
  PROVE  Agree(can_interface', sock')
<1> DEFINE tab == ClosedTable({i})
           sck == CloseSocks({i})
<1>1. Agree(tab, sck) /\ tab[i].opened = 0
  BY CloseAgrees
<1>2. can_interface \in [Slots -> IfaceType] /\ tab[i] = CloseIface(can_interface[i])
  BY DEF Agree, ClosedTable
<1>3. /\ tab[i] \in IfaceType
      /\ tab[i].name = can_interface[i].name
      /\ tab[i].vendor = "SOCKETCAN"
      /\ tab[i].name # NULL
  <2>1. can_interface[i] \in IfaceType
    BY <1>2
  <2>2. can_interface[i].vendor = "SOCKETCAN" /\ can_interface[i].name # NULL
    BY DEF OnSocketCAN, Agree
  <2> QED BY <1>2, <2>1, <2>2, CloseIfaceType
<1>4. \A x : [can_interface EXCEPT ![i] = x] = [tab EXCEPT ![i] = x]
  BY <1>2 DEF ClosedTable
<1>5. ASSUME NEW f \in Fd \cup {NoFd}
      PROVE  /\ Attempt(i, b, f) \in IfaceType
             /\ Attempt(i, b, f).name = tab[i].name
             /\ Attempt(i, b, f).vendor = tab[i].vendor
             /\ Attempt(i, b, f).opened = 0
             /\ Attempt(i, b, f).internal = f
  <2>1. Attempt(i, b, f) = [tab[i] EXCEPT !.baudrate = b, !.internal = f]
    BY <1>2 DEF Attempt
  <2>2. Attempt(i, b, f) \in IfaceType
    BY <1>2, AttemptType
  <2> HIDE DEF tab
  <2> QED BY <1>1, <1>3, <2>1, <2>2 DEF IfaceType, Iface
<1>6. ASSUME NEW f \in Fd \cup {NoFd}
      PROVE  LET x == [Attempt(i, b, f) EXCEPT !.opened = 1]
             IN /\ x \in IfaceType
                /\ x.name = tab[i].name
                /\ x.vendor = tab[i].vendor
                /\ x.opened = 1
                /\ x.internal = f
  <2> HIDE DEF tab
  <2> QED BY <1>2, <1>5, AttemptType DEF IfaceType, Iface
<1> HIDE DEF tab
<1>7. CASE OpenNoSocket(i, b)
  <2> DEFINE x == Attempt(i, b, NoFd)
  <2>1. /\ x \in IfaceType /\ x.name = tab[i].name /\ x.vendor = tab[i].vendor
        /\ x.opened = 0 /\ x.internal = NoFd
    BY <1>5
  <2>2. can_interface' = [tab EXCEPT ![i] = x] /\ sock' = sck
    BY <1>4, <1>7 DEF OpenNoSocket
  <2> HIDE DEF x, sck
  <2> QED BY <1>1, <1>3, <2>1, <2>2, PutClosed, FdAssumption
<1>8. ASSUME NEW f \in Fd, OpenFails(i, b, f)
      PROVE  Agree(can_interface', sock')
  <2> DEFINE x == Attempt(i, b, f)
             s == RawSock
  <2>1. s \in SockState /\ s.state = "raw" /\ s.dev = NULL
    BY DEF RawSock, SockState
  <2>2. /\ x \in IfaceType /\ x.name = tab[i].name /\ x.vendor = tab[i].vendor
        /\ x.opened = 0 /\ x.internal = f
    BY <1>5
  <2>3. /\ can_interface' = [tab EXCEPT ![i] = x]
        /\ sock' = [sck EXCEPT ![f] = s]
        /\ sck[f].state = "closed"
    BY <1>4, <1>8 DEF OpenFails
  <2>4. s.state # "closed" /\ s.dev \in {NULL, x.name} /\ (x.opened = 1 <=> s.state = "ready")
    BY <2>1, <2>2
  <2>5. tab[i].vendor # "NONE"
    BY <1>3
  <2> HIDE DEF x, s, sck
  <2>6. Agree([tab EXCEPT ![i] = x], [sck EXCEPT ![f] = s])
    BY <1>1, <2>1, <2>2, <2>3, <2>4, <2>5, PutDescriptor
  <2> QED BY <2>3, <2>6
<1>9. ASSUME NEW f \in Fd, OpenSucceeds(i, b, f)
      PROVE  Agree(can_interface', sock')
  <2> DEFINE x == [Attempt(i, b, f) EXCEPT !.opened = 1]
             s == ReadySock(can_interface[i].name)
  <2>1. s \in SockState /\ s.state = "ready" /\ s.dev = can_interface[i].name
    BY <1>3 DEF ReadySock, SockState, IfaceType, Iface
  <2>2. /\ x \in IfaceType /\ x.name = tab[i].name /\ x.vendor = tab[i].vendor
        /\ x.opened = 1 /\ x.internal = f
    BY <1>6
  <2>3. /\ can_interface' = [tab EXCEPT ![i] = x]
        /\ sock' = [sck EXCEPT ![f] = s]
        /\ sck[f].state = "closed"
    BY <1>4, <1>9 DEF OpenSucceeds
  <2> HIDE DEF x, s, sck
  <2> QED BY <1>1, <1>3, <2>1, <2>2, <2>3, PutDescriptor
<1> QED BY <1>7, <1>8, <1>9, OpenCases

LEMMA RegisterAgrees ==
  ASSUME Agree(can_interface, sock), NEW n \in Device, NEW i \in Slots,
         RegisterEntry(n, i), UNCHANGED sock
  PROVE  Agree(can_interface', sock')
<1>1. /\ can_interface[i] \in IfaceType
      /\ can_interface[i].name = NULL
      /\ can_interface[i].opened = 0
      /\ can_interface[i].internal = NULL
  BY RegisterCases DEF Agree, FirstFree, Free
<1> DEFINE x == NamedIface(can_interface[i], n)
           y == [x EXCEPT !.internal = NoFd]
<1>2. x \in IfaceType /\ y \in IfaceType
  BY <1>1, NamedIfaceType
<1>3. /\ x.name = n /\ x.vendor = "SOCKETCAN" /\ x.opened = 0
      /\ x.internal = NULL
  BY <1>1 DEF NamedIface, IfaceType, Iface
<1>4. /\ y.name = n /\ y.vendor = "SOCKETCAN" /\ y.opened = 0
      /\ y.internal = NoFd
  BY <1>1 DEF NamedIface, IfaceType, Iface
<1>5. \/ can_interface' = [can_interface EXCEPT ![i] = x]
      \/ can_interface' = [can_interface EXCEPT ![i] = y]
      \/ can_interface' = can_interface
  BY RegisterCases
<1> HIDE DEF x, y
<1>6. /\ Agree([can_interface EXCEPT ![i] = x], sock)
      /\ Agree([can_interface EXCEPT ![i] = y], sock)
  BY <1>1, <1>2, <1>3, <1>4, PutClosed, FdAssumption, TableAssumption
<1> QED BY <1>5, <1>6

-----------------------------------------------------------------------------
(* The invariant of the specification *)

LEMMA CallAgrees ==
  ASSUME TypeOK, Agree(can_interface, sock), Call
  PROVE  Agree(can_interface', sock')
<1>1. ASSUME NEW wanted \in BOOLEAN, can_find_interfaces_mask(wanted)
      PROVE  Agree(can_interface', sock')
  BY <1>1 DEF can_find_interfaces_mask, kernel
<1>2. ASSUME NEW i \in CallIndex, NEW b \in Asked, can_open(i, b)
      PROVE  Agree(can_interface', sock')
  <2>1. CASE OutOfRange("open", i) /\ UNCHANGED <<can_interface, sock>>
    BY <2>1
  <2>2. CASE /\ NoInterface("open", i)
             /\ can_interface' = [can_interface EXCEPT ![i].baudrate = b]
             /\ UNCHANGED sock
    <3> DEFINE x == [can_interface[i] EXCEPT !.baudrate = b]
    <3>1. /\ i \in Slots /\ sock' = sock
          /\ can_interface' = [can_interface EXCEPT ![i] = x]
      BY <2>2 DEF NoInterface
    <3>2. /\ can_interface[i] \in IfaceType /\ can_interface[i].vendor = "NONE"
          /\ can_interface[i].name = NULL /\ can_interface[i].opened = 0
          /\ can_interface[i].internal = NULL
      BY <2>2 DEF NoInterface, Agree
    <3>3. /\ x \in IfaceType /\ x.name = NULL /\ x.vendor = "NONE"
          /\ x.opened = 0 /\ x.internal = NULL
      BY <3>2, AskedRates DEF IfaceType, Iface
    <3> HIDE DEF x
    <3> QED BY <3>1, <3>2, <3>3, PutClosed, FdAssumption
  <2>3. CASE OnSocketCAN(i) /\ socketcan_open(i, b)
    BY <2>3, AskedRates, OpenAgrees DEF OnSocketCAN
  <2>4. CASE OnSocketCAN(i) /\ Dereference(i)
    BY <2>4 DEF Dereference
  <2> QED BY <1>2, <2>1, <2>2, <2>3, <2>4 DEF can_open, OpenRejected
<1>3. ASSUME NEW i \in CallIndex, can_close(i)
      PROVE  Agree(can_interface', sock')
  <2>1. can_interface' = ClosedTable({i} \cap Slots)
    BY <1>3 DEF can_close, ClosedTable
  <2> QED BY <1>3, <2>1, CloseAgrees DEF can_close
<1>4. ASSUME NEW i \in CallIndex, can_release(i)
      PROVE  Agree(can_interface', sock')
  BY <1>4, ReleaseAgrees DEF can_release
<1>5. ASSUME can_release_interfaces
      PROVE  Agree(can_interface', sock')
  BY <1>5, ReleaseAgrees DEF can_release_interfaces
<1>6. ASSUME NEW i \in CallIndex, can_update(i)
      PROVE  Agree(can_interface', sock')
  <2>1. CASE OnSocketCAN(i) /\ socketcan_update(i)
    BY <2>1, ReleaseAgrees DEF OnSocketCAN, socketcan_update
  <2> QED BY <1>6, <2>1 DEF can_update, Rejected
<1>7. ASSUME NEW i \in CallIndex, NEW bad \in BOOLEAN, can_get(i, bad)
      PROVE  Agree(can_interface', sock')
  BY <1>7 DEF can_get, Get, kernel
<1>8. ASSUME NEW i \in CallIndex, NEW b \in Asked, can_set_baudrate(i, b)
      PROVE  Agree(can_interface', sock')
  BY <1>8 DEF can_set_baudrate, SetRejected, kernel
<1>9. ASSUME NEW i \in CallIndex, can_send(i)
      PROVE  Agree(can_interface', sock')
  BY <1>9 DEF can_send, Rejected, socketcan_send, Dereference
<1>10. ASSUME NEW i \in CallIndex, can_recv(i)
       PROVE  Agree(can_interface', sock')
  BY <1>10 DEF can_recv, Rejected, Dereference
<1> QED
  BY <1>1, <1>2, <1>3, <1>4, <1>5, <1>6, <1>7, <1>8, <1>9, <1>10 DEF Call

LEMMA ScanAgrees ==
  ASSUME TypeOK, Agree(can_interface, sock), Scan
  PROVE  Agree(can_interface', sock')
<1>1. ASSUME NEW n \in Device, socketcan_find_entry(n)
      PROVE  Agree(can_interface', sock')
  BY <1>1, RegisterAgrees DEF socketcan_find_entry, SkipEntry, kernel
<1> QED BY <1>1 DEF Scan, socketcan_find_end, kernel

LEMMA EnvironmentAgrees ==
  ASSUME TypeOK, Agree(can_interface, sock), Environment
  PROVE  Agree(can_interface', sock')
<1>1. ASSUME NEW n \in Device, Unplug(n)
      PROVE  Agree(can_interface', sock')
  <2>1. /\ can_interface' = can_interface
        /\ sock' \in [Fd -> SockState]
        /\ \A f \in Fd : /\ sock'[f].state = sock[f].state
                         /\ sock'[f].dev \in {NULL, sock[f].dev}
    BY <1>1 DEF Unplug, Agree, SockState
  <2> QED BY <2>1 DEF Agree
<1>2. CASE Restart
  <2>1. /\ ZeroIface.name = NULL /\ ZeroIface.vendor = "NONE"
        /\ ZeroIface.opened = 0 /\ ZeroIface.internal = NULL
        /\ ClosedSock \in SockState /\ ClosedSock.state = "closed"
    BY DEF ZeroIface, ClosedSock, SockState
  <2>2. ZeroIface \in IfaceType
    BY ZeroIfaceType DEF IfaceType
  <2> QED BY <1>2, <2>1, <2>2, FdAssumption DEF Restart, Agree
<1> QED BY <1>1, <1>2 DEF Environment, Plug

\* The invariant is inductive on its own: Agree names every part of the table
\* that the next call relies on.
IInv == TypeOK /\ Agree(can_interface, sock)

LEMMA InitIInv == ASSUME Init PROVE IInv
<1>1. /\ ZeroIface.name = NULL /\ ZeroIface.vendor = "NONE"
      /\ ZeroIface.opened = 0 /\ ZeroIface.internal = NULL
      /\ ClosedSock.state = "closed"
  BY DEF ZeroIface, ClosedSock
<1>2. TypeOK
  BY InitType
<1> QED BY <1>1, <1>2, FdAssumption DEF IInv, Init, Agree, TypeOK, IfaceType

LEMMA NextIInv == ASSUME IInv, [Next]_vars PROVE IInv'
<1>1. TypeOK /\ TypeOK' /\ Agree(can_interface, sock)
  BY NextType DEF IInv
<1>2. ASSUME UNCHANGED vars PROVE Agree(can_interface', sock')
  BY <1>1, <1>2 DEF vars, kernel
<1>3. ASSUME socketcan_recv_frame \/ socketcan_recv_fails
      PROVE  Agree(can_interface', sock')
  BY <1>1, <1>3 DEF socketcan_recv_frame, socketcan_recv_fails, RecvReturn, kernel
<1>4. Agree(can_interface', sock')
  BY <1>1, <1>2, <1>3, CallAgrees, ScanAgrees, EnvironmentAgrees DEF Next
<1>5. Agree(can_interface, sock)'
  BY <1>4 DEF Agree
<1> QED BY <1>1, <1>5 DEF IInv

LEMMA Invariant == Spec => []IInv
  BY InitIInv, NextIInv, PTL DEF Spec

LEMMA IInvInv == ASSUME IInv PROVE Inv
  BY InvAgree DEF IInv

\* One descriptor, one owner, one truth about what is open: the table is well
\* formed, and the numbers it keeps are the sockets the kernel has.
THEOREM TableMatchesKernel ==
  Spec => [](TableWellFormed /\ DescriptorsOwned /\ OpenedIsReady
                             /\ CompletedSocketsOwned)
<1>1. IInv => TableWellFormed /\ DescriptorsOwned /\ OpenedIsReady /\ CompletedSocketsOwned
  BY IInvInv DEF Inv
<1> QED BY <1>1, Invariant, PTL

-----------------------------------------------------------------------------
(* One name, one index *)

\* What a step may do to the names: keep or free them, or give one slot a name
\* that no slot has.
NamesKept == \A i \in Slots : can_interface'[i].name \in {can_interface[i].name, NULL}

NameGiven ==
  \E n \in Device, k \in Slots :
    /\ ~AlreadyRegistered(n)
    /\ \A i \in Slots :
         can_interface'[i].name = IF i = k THEN n ELSE can_interface[i].name

LEMMA ReleaseNames ==
  ASSUME TypeOK, NEW S, ReleaseSlots(S)
  PROVE  NamesKept
<1> SUFFICES ASSUME NEW i \in Slots
             PROVE  can_interface'[i].name \in {can_interface[i].name, NULL}
  BY DEF NamesKept
<1>1. CloseIface(can_interface[i]) \in IfaceType
  BY CloseIfaceType DEF TypeOK, IfaceType
<1> QED BY <1>1, ClearedType DEF IfaceType, ReleaseSlots

LEMMA OpenNames ==
  ASSUME TypeOK, NEW i \in Slots, NEW b \in AnyBaud, socketcan_open(i, b)
  PROVE  NamesKept
<1>1. can_interface \in [Slots -> IfaceType]
  BY DEF TypeOK, IfaceType
<1>2. ASSUME NEW f \in Fd \cup {NoFd}
      PROVE  /\ Attempt(i, b, f).name = can_interface[i].name
             /\ [Attempt(i, b, f) EXCEPT !.opened = 1].name = can_interface[i].name
  <2>1. /\ CloseIface(can_interface[i]) \in IfaceType
        /\ CloseIface(can_interface[i]).name = can_interface[i].name
    BY <1>1, CloseIfaceType
  <2> QED BY <2>1 DEF Attempt, IfaceType, Iface
<1>3. \E x : /\ can_interface' = [can_interface EXCEPT ![i] = x]
             /\ x.name = can_interface[i].name
  <2>1. CASE OpenNoSocket(i, b)
    BY <1>2, <2>1 DEF OpenNoSocket
  <2>2. ASSUME NEW f \in Fd, OpenFails(i, b, f)
        PROVE  \E x : /\ can_interface' = [can_interface EXCEPT ![i] = x]
                      /\ x.name = can_interface[i].name
    BY <1>2, <2>2 DEF OpenFails
  <2>3. ASSUME NEW f \in Fd, OpenSucceeds(i, b, f)
        PROVE  \E x : /\ can_interface' = [can_interface EXCEPT ![i] = x]
                      /\ x.name = can_interface[i].name
    BY <1>2, <2>3 DEF OpenSucceeds
  <2> QED BY <2>1, <2>2, <2>3, OpenCases
<1> QED BY <1>1, <1>3 DEF NamesKept

LEMMA CallNames ==
  ASSUME TypeOK, Call
  PROVE  NamesKept
<1>1. ASSUME UNCHANGED can_interface PROVE NamesKept
  BY <1>1 DEF NamesKept
<1>2. ASSUME NEW wanted \in BOOLEAN, can_find_interfaces_mask(wanted)
      PROVE  NamesKept
  BY <1>1, <1>2 DEF can_find_interfaces_mask
<1>3. ASSUME NEW i \in CallIndex, NEW b \in Asked, can_open(i, b)
      PROVE  NamesKept
  <2>1. CASE OpenRejected(i, b)
    <3>1. ASSUME can_interface' = [can_interface EXCEPT ![i].baudrate = b]
          PROVE  NamesKept
      <4>1. can_interface \in [Slots -> IfaceType]
        BY DEF TypeOK, IfaceType
      <4>2. \A j \in Slots : can_interface'[j] =
              IF j = i THEN [can_interface[j] EXCEPT !.baudrate = b]
                       ELSE can_interface[j]
        BY <3>1, <4>1
      <4> QED BY <4>1, <4>2 DEF NamesKept, IfaceType, Iface
    <3> QED BY <1>1, <2>1, <3>1 DEF OpenRejected
  <2>2. CASE OnSocketCAN(i) /\ socketcan_open(i, b)
    BY <2>2, AskedRates, OpenNames DEF OnSocketCAN
  <2>3. CASE OnSocketCAN(i) /\ Dereference(i)
    BY <1>1, <2>3 DEF Dereference
  <2> QED BY <1>3, <2>1, <2>2, <2>3 DEF can_open
<1>4. ASSUME NEW i \in CallIndex, can_close(i)
      PROVE  NamesKept
  BY <1>4, CloseIfaceType DEF can_close, NamesKept, TypeOK, IfaceType
<1>5. ASSUME NEW i \in CallIndex, can_release(i)
      PROVE  NamesKept
  BY <1>5, ReleaseNames DEF can_release
<1>6. ASSUME can_release_interfaces
      PROVE  NamesKept
  BY <1>6, ReleaseNames DEF can_release_interfaces
<1>7. ASSUME NEW i \in CallIndex, can_update(i)
      PROVE  NamesKept
  BY <1>1, <1>7, ReleaseNames DEF can_update, Rejected, socketcan_update
<1>8. ASSUME NEW i \in CallIndex, NEW bad \in BOOLEAN, can_get(i, bad)
      PROVE  NamesKept
  BY <1>1, <1>8 DEF can_get, Get
<1>9. ASSUME NEW i \in CallIndex, NEW b \in Asked, can_set_baudrate(i, b)
      PROVE  NamesKept
  BY <1>1, <1>9 DEF can_set_baudrate, SetRejected
<1>10. ASSUME NEW i \in CallIndex, can_send(i)
       PROVE  NamesKept
  BY <1>1, <1>10 DEF can_send, Rejected, socketcan_send, Dereference
<1>11. ASSUME NEW i \in CallIndex, can_recv(i)
       PROVE  NamesKept
  BY <1>1, <1>11 DEF can_recv, Rejected, Dereference
<1> QED
  BY <1>2, <1>3, <1>4, <1>5, <1>6, <1>7, <1>8, <1>9, <1>10, <1>11 DEF Call

LEMMA ScanNames ==
  ASSUME TypeOK, Scan
  PROVE  NamesKept \/ NameGiven
<1>1. ASSUME UNCHANGED can_interface PROVE NamesKept
  BY <1>1 DEF NamesKept
<1>2. ASSUME NEW n \in Device, NEW i \in Slots, RegisterEntry(n, i)
      PROVE  NamesKept \/ NameGiven
  <2>1. /\ can_interface[i] \in IfaceType
        /\ can_interface \in [Slots -> IfaceType]
        /\ ~AlreadyRegistered(n)
    BY <1>2, RegisterCases DEF TypeOK, IfaceType
  <2>2. /\ NamedIface(can_interface[i], n).name = n
        /\ [NamedIface(can_interface[i], n) EXCEPT !.internal = NoFd].name = n
    BY <2>1 DEF NamedIface, IfaceType, Iface
  <2>3. CASE \E x : /\ can_interface' = [can_interface EXCEPT ![i] = x]
                    /\ x.name = n
    BY <2>1, <2>3 DEF NameGiven
  <2> QED BY <1>1, <1>2, <2>2, <2>3, RegisterCases
<1> QED
  BY <1>1, <1>2 DEF Scan, socketcan_find_entry, SkipEntry, socketcan_find_end

LEMMA NextNames ==
  ASSUME TypeOK, [Next]_vars
  PROVE  NamesKept \/ NameGiven
<1>1. ASSUME UNCHANGED can_interface PROVE NamesKept
  BY <1>1 DEF NamesKept
<1>2. ASSUME socketcan_recv_frame \/ socketcan_recv_fails PROVE NamesKept
  BY <1>1, <1>2 DEF socketcan_recv_frame, socketcan_recv_fails, RecvReturn
<1>3. ASSUME Environment PROVE NamesKept
  BY <1>1, <1>3 DEF Environment, Plug, Unplug, Restart, ZeroIface, NamesKept
<1> QED BY <1>1, <1>2, <1>3, CallNames, ScanNames DEF Next, vars

\* However discovery, release, update and restart alternate, and whatever fails
\* in between, no name is registered under two indices.
THEOREM NamesAreUnique == Spec => []UniqueNames
<1>1. Init => UniqueNames
  BY DEF Init, UniqueNames, Free, ZeroIface
<1>2. TypeOK /\ UniqueNames /\ [Next]_vars => UniqueNames'
  <2> SUFFICES ASSUME TypeOK, UniqueNames, [Next]_vars
               PROVE  UniqueNames'
    OBVIOUS
  <2>1. CASE NamesKept
    BY <2>1 DEF NamesKept, UniqueNames, Free
  <2>2. CASE NameGiven
    BY <2>2 DEF NameGiven, AlreadyRegistered, UniqueNames, Free
  <2> QED BY <2>1, <2>2, NextNames
<1> QED BY <1>1, <1>2, TypeCorrect, PTL DEF Spec

-----------------------------------------------------------------------------
(* A crash needs a half registered slot *)

\* Nothing but a restart leaves the crashed state, and only a call through a
\* null context enters it.
LEMMA NextCrash ==
  ASSUME IInv, CrashNeedsHalfRegistration, [Next]_vars
  PROVE  CrashNeedsHalfRegistration'
<1> USE DEF thread, scan
<1>1. ASSUME pc' # "crashed" PROVE CrashNeedsHalfRegistration'
  BY <1>1 DEF CrashNeedsHalfRegistration
<1>2. ASSUME NEW i, OnSocketCAN(i), Dereference(i)
      PROVE  CrashNeedsHalfRegistration'
  BY <1>2 DEF OnSocketCAN, Dereference, IInv, Agree, CrashNeedsHalfRegistration, Free
<1>3. CASE UNCHANGED <<can_interface, pc>>
  BY <1>3 DEF CrashNeedsHalfRegistration, Free
<1>4. CASE Call
  <2>1. ASSUME pc = "idle", UNCHANGED pc PROVE CrashNeedsHalfRegistration'
    BY <1>1, <2>1
  <2>2. ASSUME NEW wanted \in BOOLEAN, can_find_interfaces_mask(wanted)
        PROVE  CrashNeedsHalfRegistration'
    BY <1>1, <2>2 DEF can_find_interfaces_mask
  <2>3. ASSUME NEW i \in CallIndex, NEW b \in Asked, can_open(i, b)
        PROVE  CrashNeedsHalfRegistration'
    BY <1>2, <2>1, <2>3, OpenCases DEF can_open
  <2>4. ASSUME NEW i \in CallIndex, can_send(i)
        PROVE  CrashNeedsHalfRegistration'
    BY <1>2, <2>1, <2>4 DEF can_send, socketcan_send
  <2>5. ASSUME NEW i \in CallIndex, can_recv(i)
        PROVE  CrashNeedsHalfRegistration'
    BY <1>1, <1>2, <2>1, <2>5 DEF can_recv
  <2> QED
    BY <1>4, <2>1, <2>2, <2>3, <2>4, <2>5 DEF Call, can_set_baudrate, can_close, can_release,
       can_update, can_get, can_release_interfaces, kernel
<1>5. CASE Scan
  BY <1>1, <1>5, RegisterCases DEF Scan, socketcan_find_entry, SkipEntry, socketcan_find_end,
     EndScan
<1>6. CASE socketcan_recv_frame \/ socketcan_recv_fails
  BY <1>1, <1>6 DEF socketcan_recv_frame, socketcan_recv_fails, RecvReturn
<1>7. CASE Environment
  BY <1>1, <1>3, <1>7 DEF Environment, Plug, Unplug, Restart
<1> QED BY <1>3, <1>4, <1>5, <1>6, <1>7 DEF Next, vars

\* can_open, can_send and can_recv reach the null context of no slot but one
\* that discovery named and had no memory to finish.
THEOREM CrashesAreExplained == Spec => []CrashNeedsHalfRegistration
<1>1. Init => CrashNeedsHalfRegistration
  BY DEF Init, CrashNeedsHalfRegistration
<1>2. IInv /\ CrashNeedsHalfRegistration /\ [Next]_vars => CrashNeedsHalfRegistration'
  BY NextCrash
<1> QED BY <1>1, <1>2, Invariant, PTL DEF Spec

-----------------------------------------------------------------------------
(* The scan passes nothing over *)

LEMMA NextFinds ==
  ASSUME IInv, FindComplete, [Next]_vars
  PROVE  FindComplete'
<1> USE DEF thread, kernel, scan
<1>1. ASSUME pc' # "find" PROVE FindComplete'
  BY <1>1 DEF FindComplete
<1>2. TypeOK
  BY DEF IInv
<1>3. CASE Call
  <2>1. ASSUME pc = "idle", UNCHANGED pc PROVE FindComplete'
    BY <1>1, <2>1
  <2>2. ASSUME NEW wanted \in BOOLEAN, can_find_interfaces_mask(wanted)
        PROVE  FindComplete'
    <3>1. steady' \ todo' = {} \/ UNCHANGED pc
      BY <1>2, <2>2 DEF can_find_interfaces_mask, TypeOK
    <3> QED BY <1>1, <2>2, <3>1 DEF can_find_interfaces_mask, FindComplete
  <2>3. \/ \E wanted \in BOOLEAN : can_find_interfaces_mask(wanted)
        \/ pc = "idle" /\ (UNCHANGED pc \/ pc' \in {"crashed", "recv"})
    BY <1>3, OpenCases DEF Call, can_open, can_set_baudrate, can_close,
       can_release, can_update, can_send, can_recv, can_get, can_release_interfaces,
       Dereference, socketcan_send
  <2> QED BY <1>1, <2>1, <2>2, <2>3
<1>4. ASSUME NEW n \in Device, socketcan_find_entry(n)
      PROVE  FindComplete'
  <2>1. pc = "find"
    BY <1>4 DEF socketcan_find_entry
  <2>2. ASSUME SkipEntry(n) PROVE FindComplete'
    BY <2>1, <2>2 DEF SkipEntry, PassedOver, TypeUnread, FindComplete, AlreadyRegistered,
       TableFull, Free
  <2>3. ASSUME NEW i \in Slots, RegisterEntry(n, i) PROVE FindComplete'
    <3> DEFINE x == [NamedIface(can_interface[i], n) EXCEPT !.internal = NoFd]
    <3>1. CASE EndScan
      BY <1>1, <3>1 DEF EndScan
    <3>2. CASE /\ can_interface' = [can_interface EXCEPT ![i] = x]
               /\ todo' = todo \ {n}
               /\ UNCHANGED <<pc, steady, unread, ret>>
      <4>1. can_interface \in [Slots -> IfaceType] /\ x.name = n /\ n # NULL
        BY TableAssumption DEF IInv, Agree, NamedIface, IfaceType, Iface
      <4> HIDE DEF x
      <4>2. /\ can_interface[i].name = NULL
            /\ \A j \in Slots : can_interface'[j].name =
                 IF j = i THEN n ELSE can_interface[j].name
        BY <2>3, <3>2, <4>1, RegisterCases DEF FirstFree, Free
      <4>3. ASSUME NEW m \in steady \ (todo' \cup unread)
            PROVE  \/ \E j \in Slots : can_interface'[j].name = m
                   \/ \A j \in Slots : can_interface'[j].name # NULL
        <5>1. m = n \/ m \in steady \ (todo \cup unread)
          BY <3>2, <4>3
        <5> QED BY <1>2, <2>1, <4>1, <4>2, <5>1, TableAssumption DEF FindComplete, TypeOK
      <4> QED BY <3>2, <4>3 DEF FindComplete
    <3> QED BY <2>3, <3>1, <3>2, RegisterCases
  <2> QED BY <1>4, <2>2, <2>3 DEF socketcan_find_entry
<1>5. CASE socketcan_find_end
  BY <1>1, <1>5 DEF socketcan_find_end, EndScan
<1>6. CASE socketcan_recv_frame \/ socketcan_recv_fails
  BY <1>1, <1>6 DEF socketcan_recv_frame, socketcan_recv_fails, RecvReturn
<1>7. CASE Environment
  BY <1>1, <1>2, <1>7 DEF Environment, Plug, Unplug, Restart, FindComplete, TypeOK
<1>8. CASE UNCHANGED vars
  BY <1>8 DEF vars, FindComplete
<1> QED BY <1>3, <1>4, <1>5, <1>6, <1>7, <1>8 DEF Next, Scan

\* While a scan runs, every device it has come to that was there all along and
\* whose type file it could read is in the table, or the table is full: no entry of
\* the directory, whatever comes and goes, makes it pass over another.
THEOREM ScanIsComplete == Spec => []FindComplete
<1>1. Init => FindComplete
  BY DEF Init, FindComplete
<1>2. IInv /\ FindComplete /\ [Next]_vars => FindComplete'
  BY NextFinds
<1> QED BY <1>1, <1>2, Invariant, PTL DEF Spec

-----------------------------------------------------------------------------
(* What a step may do to the table *)

\* can_open stores the rate before it finds that the slot is free.
StoresBaud(i, b) ==
  /\ can_interface[i].vendor = "NONE"
  /\ can_interface' = [can_interface EXCEPT ![i].baudrate = b]

Opens(i, b) == OnSocketCAN(i) /\ socketcan_open(i, b)

Closes(S) == can_interface' = ClosedTable(S)

\* The calls that take slots away, and the restart of a crashed process.
Releases(S) ==
  /\ ReleaseSlots(S)
  /\ \/ ret'.op \in {"release", "release all"}
     \/ /\ ret'.op = "update" /\ ret'.val = -1
        /\ \E i \in Slots : S = {i} /\ can_interface[i].name \notin netdev

Restarts == pc = "crashed" /\ can_interface' = [i \in Slots |-> ZeroIface]

Step ==
  \/ UNCHANGED can_interface
  \/ \E i \in Slots, b \in AnyBaud : StoresBaud(i, b) \/ Opens(i, b)
  \/ \E S \in {{}} \cup {{i} : i \in Slots} : Closes(S)
  \/ \E S \in {{}, Slots} \cup {{i} : i \in Slots} : Releases(S)
  \/ \E n \in Device, i \in Slots : RegisterEntry(n, i)
  \/ Restarts

LEMMA CallSteps == ASSUME Call PROVE Step
<1>1. ASSUME NEW wanted \in BOOLEAN, can_find_interfaces_mask(wanted)
      PROVE  Step
  BY <1>1 DEF can_find_interfaces_mask, Step
<1>2. ASSUME NEW i \in CallIndex, NEW b \in Asked, can_open(i, b)
      PROVE  Step
  <2>1. CASE OpenRejected(i, b)
    BY <2>1, AskedRates, OpenRejectedTable DEF Step, StoresBaud
  <2>2. CASE OnSocketCAN(i) /\ socketcan_open(i, b)
    BY <2>2, AskedRates DEF OnSocketCAN, Step, Opens
  <2>3. CASE Dereference(i)
    BY <2>3 DEF Dereference, Step
  <2> QED BY <1>2, <2>1, <2>2, <2>3 DEF can_open
<1>3. ASSUME NEW i \in CallIndex
      PROVE  {i} \cap Slots \in {{}} \cup {{j} : j \in Slots}
  <2>1. CASE i \in Slots
    BY <2>1
  <2>2. CASE i \notin Slots
    BY <2>2
  <2> QED BY <2>1, <2>2
<1>4. ASSUME NEW i \in CallIndex, can_close(i)
      PROVE  Step
  <2>1. Closes({i} \cap Slots)
    BY <1>4 DEF can_close, Closes, ClosedTable
  <2> QED BY <1>3, <2>1 DEF Step
<1>5. ASSUME NEW i \in CallIndex, can_release(i)
      PROVE  Step
  <2>1. Releases({i} \cap Slots)
    BY <1>5, ReturnFields DEF can_release, Releases
  <2> QED BY <1>3, <2>1 DEF Step
<1>6. ASSUME can_release_interfaces
      PROVE  Step
  <2>1. Releases(Slots)
    BY <1>6, ReturnFields DEF can_release_interfaces, Releases
  <2> QED BY <2>1 DEF Step
<1>7. ASSUME NEW i \in CallIndex, can_update(i)
      PROVE  Step
  <2>1. CASE UNCHANGED can_interface
    BY <2>1 DEF Step
  <2>2. CASE /\ OnSocketCAN(i) /\ can_interface[i].name \notin netdev
             /\ Return("update", -1, NULL) /\ ReleaseSlots({i})
    <3>1. Releases({i}) /\ i \in Slots
      BY <2>2, ReturnFields DEF OnSocketCAN, Releases
    <3> QED BY <3>1 DEF Step
  <2> QED BY <1>7, <2>1, <2>2 DEF can_update, Rejected, socketcan_update
<1>8. ASSUME UNCHANGED can_interface PROVE Step
  BY <1>8 DEF Step
<1> QED
  BY <1>1, <1>2, <1>4, <1>5, <1>6, <1>7, <1>8 DEF Call, can_set_baudrate, SetRejected,
     can_get, Get, can_send, socketcan_send, can_recv, Rejected, Dereference

LEMMA NextSteps == ASSUME [Next]_vars PROVE Step
<1>1. ASSUME UNCHANGED can_interface PROVE Step
  BY <1>1 DEF Step
<1>2. CASE Scan
  <2>1. ASSUME NEW n \in Device, NEW i \in Slots, RegisterEntry(n, i)
        PROVE  Step
    BY <2>1 DEF Step
  <2> QED
    BY <1>1, <1>2, <2>1 DEF Scan, socketcan_find_entry, SkipEntry, socketcan_find_end
<1>3. CASE Restart
  BY <1>3 DEF Restart, Restarts, Step
<1> QED
  BY <1>1, <1>2, <1>3, CallSteps DEF Next, vars, Environment, Plug, Unplug,
     socketcan_recv_frame, socketcan_recv_fails, RecvReturn

\* The slot an open leaves, whatever came of it.
LEMMA OpenSlot ==
  ASSUME IInv, NEW i \in Slots, NEW b \in AnyBaud, Opens(i, b)
  PROVE  /\ \A j \in Slots \ {i} : can_interface'[j] = can_interface[j]
         /\ can_interface[i].name # NULL
         /\ can_interface'[i].name = can_interface[i].name
         /\ can_interface'[i].internal # NULL
         /\ ret'.op = "open"
         /\ ret'.val = 0 <=> can_interface'[i].opened = 1
         /\ can_interface'[i].opened \in {0, 1}
         /\ ret'.val # 0 => ret'.reason # NULL
<1>1. /\ can_interface \in [Slots -> IfaceType]
      /\ CloseIface(can_interface[i]) \in IfaceType
      /\ CloseIface(can_interface[i]).name = can_interface[i].name
      /\ CloseIface(can_interface[i]).opened = 0
      /\ can_interface[i].name # NULL
  <2>1. ClosedTable({i})[i].opened = 0
    BY CloseAgrees DEF IInv
  <2> QED BY <2>1, CloseIfaceType DEF IInv, Agree, ClosedTable, Opens, OnSocketCAN
<1>2. ASSUME NEW f \in Fd \cup {NoFd}
      PROVE  /\ Attempt(i, b, f).name = can_interface[i].name
             /\ Attempt(i, b, f).opened = 0
             /\ Attempt(i, b, f).internal = f
             /\ [Attempt(i, b, f) EXCEPT !.opened = 1].name = can_interface[i].name
             /\ [Attempt(i, b, f) EXCEPT !.opened = 1].opened = 1
             /\ [Attempt(i, b, f) EXCEPT !.opened = 1].internal = f
  BY <1>1 DEF Attempt, IfaceType, Iface
<1>3. ASSUME OpenNoSocket(i, b)
      PROVE  /\ can_interface' = [can_interface EXCEPT ![i] = Attempt(i, b, NoFd)]
             /\ ret'.op = "open" /\ ret'.val # 0 /\ ret'.reason # NULL
  BY <1>3, ReturnFields, FdAssumption DEF OpenNoSocket, Reason
<1>4. ASSUME NEW f \in Fd, OpenFails(i, b, f)
      PROVE  /\ can_interface' = [can_interface EXCEPT ![i] = Attempt(i, b, f)]
             /\ ret'.op = "open" /\ ret'.val # 0 /\ ret'.reason # NULL
  BY <1>4, ReturnFields, FdAssumption DEF OpenFails, Reason
<1>5. ASSUME NEW f \in Fd, OpenSucceeds(i, b, f)
      PROVE  /\ can_interface' = [can_interface EXCEPT
                                    ![i] = [Attempt(i, b, f) EXCEPT !.opened = 1]]
             /\ ret'.op = "open" /\ ret'.val = 0
  BY <1>5, ReturnFields DEF OpenSucceeds
<1>6. CASE OpenNoSocket(i, b)
  BY <1>1, <1>2, <1>3, <1>6, FdAssumption
<1>7. CASE \E f \in Fd : OpenFails(i, b, f)
  <2>1. PICK f \in Fd : OpenFails(i, b, f)
    BY <1>7
  <2> QED BY <1>1, <1>2, <1>4, <2>1, FdAssumption
<1>8. CASE \E f \in Fd : OpenSucceeds(i, b, f)
  <2>1. PICK f \in Fd : OpenSucceeds(i, b, f)
    BY <1>8
  <2>2. /\ can_interface' = [can_interface EXCEPT
                               ![i] = [Attempt(i, b, f) EXCEPT !.opened = 1]]
        /\ ret'.op = "open" /\ ret'.val = 0
    BY <1>5, <2>1
  <2>3. can_interface'[i] = [Attempt(i, b, f) EXCEPT !.opened = 1]
    BY <1>1, <2>2
  <2> QED BY <1>1, <1>2, <2>2, <2>3, FdAssumption
<1>9. OpenNoSocket(i, b) \/ \E f \in Fd : OpenFails(i, b, f) \/ OpenSucceeds(i, b, f)
  BY OpenCases DEF Opens
<1> HIDE DEF OpenNoSocket, OpenFails, OpenSucceeds
<1> QED BY <1>6, <1>7, <1>8, <1>9

\* The slot a release leaves.
LEMMA ReleaseSlot ==
  ASSUME IInv, NEW S \in SUBSET Slots, ReleaseSlots(S), NEW i \in Slots
  PROVE  /\ i \notin S => can_interface'[i] = can_interface[i]
         /\ i \in S => /\ can_interface'[i].name = NULL
                       /\ can_interface'[i].opened = 0
                       /\ SlotCleared(i)
<1>1. CloseIface(can_interface[i]) \in IfaceType
  BY CloseIfaceType DEF IInv, Agree
<1>2. can_interface'[i] = IF i \in S THEN Cleared(CloseIface(can_interface[i]))
                                     ELSE can_interface[i]
  BY DEF ReleaseSlots
<1> QED BY <1>1, <1>2, ClearedType, ClearedIsZero DEF IfaceType, SlotCleared

\* The slot a device is registered in.
LEMMA RegisterSlot ==
  ASSUME IInv, NEW n \in Device, NEW i \in Slots, RegisterEntry(n, i)
  PROVE  /\ \A j \in Slots : /\ can_interface[j].name # n
                             /\ j < i => can_interface[j].name # NULL
         /\ can_interface[i].name = NULL /\ can_interface[i].opened = 0
         /\ \/ UNCHANGED can_interface
            \/ /\ \A j \in Slots \ {i} : can_interface'[j] = can_interface[j]
               /\ can_interface'[i].name = n
               /\ can_interface'[i].opened = 0
<1>1. /\ can_interface \in [Slots -> IfaceType]
      /\ can_interface[i].name = NULL /\ can_interface[i].opened = 0
      /\ ~AlreadyRegistered(n) /\ FirstFree(i)
  BY RegisterCases DEF IInv, Agree, FirstFree, Free
<1> DEFINE x == NamedIface(can_interface[i], n)
           y == [x EXCEPT !.internal = NoFd]
<1>2. x.name = n /\ x.opened = 0 /\ y.name = n /\ y.opened = 0
  BY <1>1 DEF NamedIface, IfaceType, Iface
<1>3. \/ UNCHANGED can_interface
      \/ can_interface' = [can_interface EXCEPT ![i] = x]
      \/ can_interface' = [can_interface EXCEPT ![i] = y]
  BY RegisterCases
<1> HIDE DEF x, y
<1> QED BY <1>1, <1>2, <1>3 DEF AlreadyRegistered, FirstFree, Free

-----------------------------------------------------------------------------
(* What no step may do *)

\* A slot loses its name or its context only where it is cleared: by can_release,
\* by can_update when the device is gone, or with the process.
THEOREM RegistrationIsStable == Spec => RegistrationStable
<1> DEFINE Stable ==
      \A i \in Slots : SlotLost(i) =>
        /\ SlotCleared(i)
        /\ \/ ret'.op \in {"release", "release all"}
           \/ /\ ret'.op = "update"
              /\ ret'.val = -1
              /\ can_interface[i].name \notin netdev
           \/ pc = "crashed"
<1>1. ASSUME IInv, [Next]_vars PROVE Stable
  <2> DEFINE Cause(i) == \/ ret'.op \in {"release", "release all"}
                         \/ /\ ret'.op = "update"
                            /\ ret'.val = -1
                            /\ can_interface[i].name \notin netdev
                         \/ pc = "crashed"
  <2> SUFFICES ASSUME NEW j \in Slots, SlotLost(j)
               PROVE  SlotCleared(j) /\ Cause(j)
    OBVIOUS
  <2>1. can_interface \in [Slots -> IfaceType] /\ can_interface[j] \in IfaceType
    BY <1>1 DEF IInv, Agree
  <2>2. ~UNCHANGED can_interface
    BY DEF SlotLost
  <2>3. ASSUME NEW i \in Slots, NEW b \in AnyBaud, StoresBaud(i, b)
        PROVE  FALSE
    <3>1. can_interface'[j] = IF j = i THEN [can_interface[j] EXCEPT !.baudrate = b]
                                       ELSE can_interface[j]
      BY <2>1, <2>3 DEF StoresBaud
    <3> QED BY <2>1, <3>1, SetBaudType DEF IfaceType, SlotLost
  <2>4. ASSUME NEW i \in Slots, NEW b \in AnyBaud, Opens(i, b)
        PROVE  FALSE
    BY <1>1, <2>4, OpenSlot DEF SlotLost
  <2>5. ASSUME NEW S, Closes(S)
        PROVE  FALSE
    <3>1. can_interface'[j] \in {can_interface[j], CloseIface(can_interface[j])}
      BY <2>5 DEF Closes, ClosedTable
    <3>2. CloseIface(can_interface[j]).internal \in {can_interface[j].internal, NoFd}
      BY <2>1 DEF CloseIface, IfaceType, Iface
    <3> QED BY <2>1, <3>1, <3>2, CloseIfaceType, FdAssumption DEF SlotLost
  <2>6. ASSUME NEW S \in {{}, Slots} \cup {{i} : i \in Slots}, Releases(S)
        PROVE  SlotCleared(j) /\ Cause(j)
    <3>1. S \in SUBSET Slots /\ ReleaseSlots(S)
      BY <2>6 DEF Releases
    <3>2. j \in S
      BY <1>1, <3>1, ReleaseSlot DEF SlotLost
    <3> QED BY <1>1, <2>6, <3>1, <3>2, ReleaseSlot DEF Releases
  <2>7. ASSUME NEW n \in Device, NEW i \in Slots, RegisterEntry(n, i)
        PROVE  FALSE
    <3>1. can_interface[j].name # NULL /\ ~UNCHANGED can_interface[j]
      BY DEF SlotLost, Free
    <3> QED BY <1>1, <2>7, <3>1, RegisterSlot
  <2>8. CASE Restarts
    <3>1. ZeroIface = [ZeroIface EXCEPT !.baudrate = ZeroIface.baudrate]
      BY DEF ZeroIface
    <3> QED BY <2>8, <3>1 DEF Restarts, SlotCleared
  <2> QED
    BY <1>1, <2>2, <2>3, <2>4, <2>5, <2>6, <2>7, <2>8, NextSteps DEF Step
<1>2. IInv /\ [Next]_vars => [Stable]_vars
  BY <1>1
<1> QED BY <1>2, Invariant, PTL DEF Spec, RegistrationStable

\* can_open answers 0 exactly when it leaves its slot opened, and never fails
\* without a reason, on every path: index, vendor, socket, ioctl, bind.
THEOREM OpenTellsTheTruth == Spec => OpenOutcome
<1> DEFINE Truth ==
      pc = "idle" /\ ret'.op = "open" /\ pc' # "crashed" =>
        \A i \in CallIndex, b \in Asked : can_open(i, b) =>
          /\ ret'.val = 0 <=> (i \in Slots /\ can_interface'[i].opened = 1)
          /\ ret'.val # 0 => ret'.reason # NULL
<1>1. ASSUME IInv, [Next]_vars PROVE Truth
  <2> SUFFICES ASSUME NEW i \in CallIndex, NEW b \in Asked,
                      can_open(i, b), pc' # "crashed"
               PROVE  /\ ret'.val = 0 <=> (i \in Slots /\ can_interface'[i].opened = 1)
                      /\ ret'.val # 0 => ret'.reason # NULL
    OBVIOUS
  <2>1. CASE OutOfRange("open", i)
    <3>1. ret'.val = -1 /\ ret'.reason # NULL
      BY <2>1, ReturnFields, FdAssumption DEF OutOfRange, CallReason
    <3>2. i \notin Slots
      BY <2>1 DEF OutOfRange
    <3> QED BY <3>1, <3>2
  <2>2. CASE /\ NoInterface("open", i)
             /\ can_interface' = [can_interface EXCEPT ![i].baudrate = b]
    <3>1. ret'.val = -1 /\ ret'.reason # NULL
      BY <2>2, ReturnFields, FdAssumption DEF NoInterface, CallReason
    <3>2. /\ can_interface[i] \in IfaceType /\ can_interface[i].opened = 0
          /\ can_interface'[i] = [can_interface[i] EXCEPT !.baudrate = b]
      BY <1>1, <2>2 DEF NoInterface, IInv, Agree
    <3>3. can_interface'[i].opened = 0
      BY <3>2, SetBaudType DEF IfaceType
    <3> QED BY <3>1, <3>3
  <2>3. CASE OnSocketCAN(i) /\ socketcan_open(i, b)
    <3>1. i \in Slots /\ Opens(i, b)
      BY <2>3 DEF OnSocketCAN, Opens
    <3> QED BY <1>1, <3>1, AskedRates, OpenSlot
  <2> QED BY <2>1, <2>2, <2>3 DEF can_open, OpenRejected, Dereference
<1>2. IInv /\ [Next]_vars => [Truth]_vars
  BY <1>1
<1> QED BY <1>2, Invariant, PTL DEF Spec, OpenOutcome

-----------------------------------------------------------------------------
(* The back-end implements CanLifecycle *)

\* The abstract state that a table stands for.
Names(tab) == [i \in Slots |-> tab[i].name]
Opened(tab) == {i \in Slots : tab[i].opened = 1}

\* What a step does to the abstract state.
Same == /\ Names(can_interface') = Names(can_interface)
        /\ Opened(can_interface') = Opened(can_interface)

OpensIndex(i) ==
  /\ can_interface[i].name # NULL
  /\ Names(can_interface') = Names(can_interface)
  /\ Opened(can_interface') = Opened(can_interface) \cup {i}

ClosesIndex(i) ==
  /\ Names(can_interface') = Names(can_interface)
  /\ Opened(can_interface') = Opened(can_interface) \ {i}

FreesIndices(S) ==
  /\ Names(can_interface') =
       [i \in Slots |-> IF i \in S THEN NULL ELSE Names(can_interface)[i]]
  /\ Opened(can_interface') = Opened(can_interface) \ S

TakesIndex(i, n) ==
  /\ Names(can_interface)[i] = NULL
  /\ \A j \in Slots : /\ Names(can_interface)[j] # n
                      /\ j < i => Names(can_interface)[j] # NULL
  /\ Names(can_interface') = [Names(can_interface) EXCEPT ![i] = n]
  /\ Opened(can_interface') = Opened(can_interface)

LEMMA StepsImplement ==
  ASSUME IInv, Step
  PROVE  \/ Same
         \/ \E i \in Slots : OpensIndex(i) \/ ClosesIndex(i)
         \/ \E S \in {Slots} \cup {{i} : i \in Slots} : FreesIndices(S)
         \/ \E i \in Slots, n \in Device : TakesIndex(i, n)
<1> DEFINE Abstract ==
      \/ Same
      \/ \E i \in Slots : OpensIndex(i) \/ ClosesIndex(i)
      \/ \E S \in {Slots} \cup {{i} : i \in Slots} : FreesIndices(S)
      \/ \E i \in Slots, n \in Device : TakesIndex(i, n)
<1>1. can_interface \in [Slots -> IfaceType]
  BY DEF IInv, Agree
<1>2. ASSUME \A j \in Slots : /\ can_interface'[j].name = can_interface[j].name
                              /\ can_interface'[j].opened = can_interface[j].opened
      PROVE  Abstract
  <2>1. Same
    BY <1>2 DEF Same, Names, Opened
  <2> QED BY <2>1
<1>3. ASSUME NEW i \in Slots, can_interface'[i].opened = 0,
             can_interface'[i].name = can_interface[i].name,
             \A j \in Slots \ {i} :
               /\ can_interface'[j].name = can_interface[j].name
               /\ can_interface'[j].opened = can_interface[j].opened
      PROVE  Abstract
  <2>1. ClosesIndex(i)
    BY <1>3 DEF ClosesIndex, Names, Opened
  <2> QED BY <2>1
<1>4. ASSUME NEW i \in Slots, NEW b \in AnyBaud, Opens(i, b)
      PROVE  Abstract
  <2>1. CASE can_interface'[i].opened = 1
    <3>1. OpensIndex(i)
      BY <1>4, <2>1, OpenSlot DEF OpensIndex, Names, Opened
    <3> QED BY <3>1
  <2>2. CASE can_interface'[i].opened = 0
    BY <1>3, <1>4, <2>2, OpenSlot
  <2> QED BY <1>4, <2>1, <2>2, OpenSlot
<1>5. ASSUME NEW S \in {Slots} \cup {{i} : i \in Slots},
             \A j \in Slots :
               /\ j \in S => /\ can_interface'[j].name = NULL
                             /\ can_interface'[j].opened = 0
               /\ j \notin S => can_interface'[j] = can_interface[j]
      PROVE  Abstract
  <2>1. FreesIndices(S)
    BY <1>5 DEF FreesIndices, Names, Opened
  <2> QED BY <2>1
<1>6. ASSUME NEW n \in Device, NEW i \in Slots,
             \A j \in Slots : /\ can_interface[j].name # n
                              /\ j < i => can_interface[j].name # NULL,
             can_interface[i].name = NULL, can_interface[i].opened = 0,
             \A j \in Slots \ {i} : can_interface'[j] = can_interface[j],
             can_interface'[i].name = n, can_interface'[i].opened = 0
      PROVE  Abstract
  <2>1. \A j \in Slots : Names(can_interface)[j] = can_interface[j].name
    BY DEF Names
  <2>2. /\ Names(can_interface') = [Names(can_interface) EXCEPT ![i] = n]
        /\ Opened(can_interface') = Opened(can_interface)
    BY <1>6 DEF Names, Opened
  <2>3. TakesIndex(i, n)
    BY <1>6, <2>1, <2>2 DEF TakesIndex
  <2> QED BY <2>3
<1> HIDE DEF Abstract
<1>7. ASSUME UNCHANGED can_interface PROVE Abstract
  BY <1>2, <1>7
<1>8. ASSUME NEW i \in Slots, NEW b \in AnyBaud, StoresBaud(i, b)
      PROVE  Abstract
  <2>1. \A j \in Slots : can_interface'[j] =
          IF j = i THEN [can_interface[j] EXCEPT !.baudrate = b] ELSE can_interface[j]
    BY <1>1, <1>8 DEF StoresBaud
  <2>2. \A j \in Slots : /\ can_interface'[j].name = can_interface[j].name
                         /\ can_interface'[j].opened = can_interface[j].opened
    <3>1. \A x \in IfaceType : /\ [x EXCEPT !.baudrate = b].name = x.name
                               /\ [x EXCEPT !.baudrate = b].opened = x.opened
      BY SetBaudType DEF IfaceType
    <3> QED BY <1>1, <2>1, <3>1
  <2> QED BY <1>2, <2>2
<1>9. ASSUME Closes({}) PROVE Abstract
  <2>1. \A j \in Slots : can_interface'[j] = can_interface[j]
    BY <1>9 DEF Closes, ClosedTable
  <2> QED BY <1>2, <2>1
<1>10. ASSUME NEW i \in Slots, Closes({i}) PROVE Abstract
  <2>1. ClosedTable({i})[i].opened = 0
    BY CloseAgrees DEF IInv
  <2>2. /\ can_interface'[i] = CloseIface(can_interface[i])
        /\ can_interface'[i].opened = 0
        /\ \A j \in Slots \ {i} : can_interface'[j] = can_interface[j]
    BY <1>10, <2>1 DEF Closes, ClosedTable
  <2>3. can_interface'[i].name = can_interface[i].name
    BY <1>1, <2>2, CloseIfaceType
  <2> QED BY <1>3, <2>2, <2>3
<1>11. ASSUME NEW S \in SUBSET Slots, Releases(S), NEW j \in Slots
       PROVE  /\ j \in S => /\ can_interface'[j].name = NULL
                            /\ can_interface'[j].opened = 0
              /\ j \notin S => can_interface'[j] = can_interface[j]
  BY <1>11, ReleaseSlot DEF Releases
<1>12. ASSUME Releases({}) PROVE Abstract
  <2>1. \A j \in Slots : can_interface'[j] = can_interface[j]
    BY <1>11, <1>12
  <2> QED BY <1>2, <2>1
<1>13. ASSUME NEW S \in {Slots} \cup {{i} : i \in Slots}, Releases(S)
       PROVE  Abstract
  <2>1. S \in SUBSET Slots
    OBVIOUS
  <2> QED BY <1>5, <1>11, <1>13, <2>1
<1>14. ASSUME NEW n \in Device, NEW i \in Slots, RegisterEntry(n, i)
       PROVE  Abstract
  BY <1>6, <1>7, <1>14, RegisterSlot
<1>15. ASSUME Restarts PROVE Abstract
  <2>1. \A j \in Slots : can_interface'[j].name = NULL /\ can_interface'[j].opened = 0
    BY <1>15 DEF Restarts, ZeroIface
  <2> QED BY <1>5, <2>1
<1> QED
  BY <1>4, <1>7, <1>8, <1>9, <1>10, <1>12, <1>13, <1>14, <1>15 DEF Step, Abstract

\* Every step is a step of CanLifecycle, or changes nothing that it shows.
LEMMA NextImplements ==
  ASSUME IInv, IInv', [Next]_vars
  PROVE  [Lifecycle!Next]_(Lifecycle!vars)
<1> DEFINE dev == [i \in Slots |-> can_interface[i].name]
           opn == {i \in Slots : Ready(i)}
<1>1. dev = Names(can_interface) /\ dev' = Names(can_interface')
  BY DEF Names
<1>2. opn = Opened(can_interface)
  BY IInvInv DEF Inv, OpenedIsReady, Opened
<1>3. opn' = Opened(can_interface')
  <2>1. OpenedIsReady'
    BY DEF IInv, Agree, OpenedIsReady, Ready
  <2> QED BY <2>1 DEF OpenedIsReady, Opened
<1>4. Slots = Lifecycle!Index
  BY DEF Slots, Lifecycle!Index
<1> HIDE DEF dev, opn
<1>5. CASE Same
  BY <1>1, <1>2, <1>3, <1>5 DEF Same, Lifecycle!vars, dev, opn
<1>6. ASSUME NEW i \in Slots, OpensIndex(i)
      PROVE  Lifecycle!Open(i)
  BY <1>1, <1>2, <1>3, <1>6 DEF OpensIndex, Names, Lifecycle!Open, dev, opn
<1>7. ASSUME NEW i \in Slots, ClosesIndex(i)
      PROVE  Lifecycle!Close(i)
  BY <1>1, <1>2, <1>3, <1>7 DEF ClosesIndex, Lifecycle!Close, dev, opn
<1>8. ASSUME NEW S, FreesIndices(S)
      PROVE  Lifecycle!Release(S)
  BY <1>1, <1>2, <1>3, <1>4, <1>8 DEF FreesIndices, Lifecycle!Release, dev, opn
<1>9. ASSUME NEW i \in Slots, NEW n \in Device, TakesIndex(i, n)
      PROVE  Lifecycle!Register(i, n)
  BY <1>1, <1>2, <1>3, <1>4, <1>9 DEF TakesIndex, Lifecycle!Register, dev, opn
<1> QED
  BY <1>4, <1>5, <1>6, <1>7, <1>8, <1>9, NextSteps, StepsImplement DEF Lifecycle!Next

\* The Linux build implements CanLifecycle: an index is free, or registered and
\* closed, or registered with a socket that was set up to its end, and moves
\* between these only as the public interface promises.
THEOREM ImplementsLifecycle == Spec => Refinement
<1>1. Init => Lifecycle!Init
  BY FdAssumption
  DEF Init, Lifecycle!Init, Lifecycle!Index, Slots, ZeroIface, Ready
<1>2. IInv /\ IInv' /\ [Next]_vars => [Lifecycle!Next]_(Lifecycle!vars)
  BY NextImplements
<1> QED BY <1>1, <1>2, Invariant, PTL DEF Spec, Refinement, Lifecycle!Spec
=============================================================================
