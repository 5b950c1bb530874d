------------------------------- MODULE Ixxat --------------------------------
(***************************************************************************)
(* The Ixxat back-end of the Windows build: the public calls of            *)
(* CANvenient.c over VCI, whose boards have a description that need not be *)
(* unique and bus sockets that are used through counted references to a    *)
(* CAN object, a reader and a writer.  One thread calls the library; a     *)
(* call is one step, but the scan takes one step per board and per socket, *)
(* and can_recv one per message, since boards and messages come meanwhile. *)
(***************************************************************************)
EXTENDS CanCalls, FiniteSets, Sequences

CONSTANTS
  Board,         \* VCI object ids of boards
  Description,   \* what a board describes itself as
  CanBus,        \* the numbers of a board's sockets that are CAN buses
  Asked,         \* baud rates that callers ask for; none acts on another field
  MaxRefs,       \* references of a kind that VCI gives out
  MaxFifo        \* messages a receive FIFO holds

\* "%s CAN%u", the name an interface gets
Name(b, n) == <<Description[b], n>>

Socket == UNION {{b} \X CanBus[b] : b \in Board}

Fifo == {"reader", "writer"}
Kind == Fifo \cup {"can"}

\* ixxat_ctx_t: held are those of its three pointers that are not null.
ixxat_ctx_t == [board : Board, bus_no : UNION {CanBus[b] : b \in Board}, held : SUBSET Kind]

ASSUME IxxatAssumption ==
  /\ \A b \in Board : CanBus[b] \subseteq Nat
  /\ Device = {Name(s[1], s[2]) : s \in Socket}
  /\ Asked \subseteq AnyBaud
  /\ MaxRefs \in Nat \ {0} /\ MaxFifo \in Nat \ {0}
  /\ NULL \notin ixxat_ctx_t

VARIABLES
  attached,   \* boards VCI lists
  line,       \* sockets whose CAN line is started
  refs,       \* references of each kind the process has and did not release
  pc,         \* "find" while the scan runs, "recv" while can_recv runs
  todo,       \* boards the scan has still to open
  sockets,    \* sockets it has still to look at on the board it has open
  rx,         \* interface can_recv reads from
  fifo        \* messages in its receive FIFO

scan == <<todo, sockets>>
recv == <<rx, fifo>>
vars == <<can_interface, ret, attached, line, refs, pc, todo, sockets, rx, fifo>>

-----------------------------------------------------------------------------
Reason == {"vci", "not open"}

Message == {"data", "other"}

TypeOK ==
  /\ can_interface \in [Slots -> Iface({"IXXAT"}, ixxat_ctx_t)]
  /\ ret \in Result(Reason)
  /\ attached \subseteq Board
  /\ line \subseteq Socket
  /\ refs \in [Kind -> 0 .. MaxRefs]
  /\ pc \in {"idle", "find", "recv"}
  /\ todo \subseteq Board
  /\ sockets \subseteq Socket
  /\ rx \in Slots
  /\ fifo \in Seq(Message) /\ Len(fifo) <= MaxFifo

Init ==
  /\ can_interface = [i \in Slots |-> ZeroIface]
  /\ ret = NoCall
  /\ attached \in SUBSET Board
  /\ line = {}
  /\ refs = [k \in Kind |-> 0]
  /\ pc = "idle"
  /\ todo = {} /\ sockets = {}
  /\ rx = 0 /\ fifo = <<>>

OnIxxat(i) == i \in Slots /\ can_interface[i].vendor = "IXXAT"

SocketOf(i) == <<can_interface[i].internal.board, can_interface[i].internal.bus_no>>

Held(i) == IF OnIxxat(i) THEN can_interface[i].internal.held ELSE {}

-----------------------------------------------------------------------------
(* Releasing the references of interfaces, as every call that closes does it *)

\* The slot without its references.
Unheld(iface) == [iface EXCEPT !.internal.held = {}]

RefsWithout(S) == [k \in Kind |-> refs[k] - Cardinality({i \in S : k \in Held(i)})]

\* Mutant: the object is released and its line left running.
LineWithout_NoStop(S) == line

\* StopLine goes with the release of the CAN object.
LineWithout(S) == line \ {SocketOf(i) : i \in {j \in S : "can" \in Held(j)}}

\* ixxat_close of the slots in S.
CloseSlots(S) ==
  /\ can_interface' = [i \in Slots |->
       IF i \in S THEN [Unheld(can_interface[i]) EXCEPT !.opened = 0]
                  ELSE can_interface[i]]
  /\ refs' = RefsWithout(S)
  /\ line' = LineWithout(S)

\* can_release of the slots in S.
ReleaseSlots(S) ==
  /\ can_interface' = [i \in Slots |->
       IF i \in S THEN Cleared(can_interface[i]) ELSE can_interface[i]]
  /\ refs' = RefsWithout(S)
  /\ line' = LineWithout(S)

-----------------------------------------------------------------------------
(* Discovery *)

\* No failure of the scan leaves a reason.
EndScan ==
  /\ pc' = "idle"
  /\ todo' = {} /\ sockets' = {}
  /\ Return("find", 0, NULL)

\* wanted: the mask names Ixxat and vciapi.dll was loaded; VCI may fail to
\* enumerate the boards.
can_find_interfaces_mask(wanted) ==
  /\ pc = "idle"
  /\ \/ EndScan
     \/ wanted /\ pc' = "find" /\ todo' = attached /\ ret' = NoCall /\ UNCHANGED sockets
  /\ UNCHANGED <<can_interface, attached, line, refs, recv>>

\* The scan opens the next board, or cannot.
ixxat_find_board(b) ==
  /\ pc = "find"
  /\ sockets = {}
  /\ b \in todo
  /\ todo' = todo \ {b}
  /\ \/ b \in attached /\ sockets' = {b} \X CanBus[b]
     \/ UNCHANGED sockets
  /\ UNCHANGED <<can_interface, ret, attached, line, refs, pc, recv>>

RegisterSocket(b, n, i) ==
  /\ ~AlreadyRegistered(Name(b, n))
  /\ FirstFree(i)
  /\ can_interface' = [can_interface EXCEPT
       ![i] = [name |-> Name(b, n), vendor |-> "IXXAT", opened |-> 0,
               baudrate |-> CAN_BAUD_1M,
               internal |-> [board |-> b, bus_no |-> n, held |-> {}]]]

\* The scan looks at the next socket of the board it has open.  Without a slot,
\* or without memory, it leaves the board and goes on to the next.
ixxat_find_socket(b, n) ==
  /\ pc = "find"
  /\ <<b, n>> \in sockets
  /\ \A s \in sockets : n <= s[2]
  /\ \/ /\ \/ AlreadyRegistered(Name(b, n)) /\ UNCHANGED can_interface
           \/ \E i \in Slots : RegisterSocket(b, n, i)
        /\ sockets' = sockets \ {<<b, n>>}
     \/ /\ ~AlreadyRegistered(Name(b, n))
        /\ sockets' = {}
        /\ UNCHANGED can_interface
  /\ UNCHANGED <<ret, attached, line, refs, pc, todo, recv>>

ixxat_find_end ==
  /\ pc = "find"
  /\ sockets = {} /\ todo = {}
  /\ EndScan
  /\ UNCHANGED <<can_interface, attached, line, refs, recv>>

-----------------------------------------------------------------------------
(* Opening, closing and changing the rate *)

\* VCI refuses before ResetLine, or InitLine or StartLine fails after it: the
\* new reference is released again, but the line is stopped.
StartFails(s, running) ==
  \/ line' = running
  \/ s[1] \in attached /\ line' = running \ {s}

\* The line of slot i, whose context is as in iface, is started through a new
\* CAN object; the two FIFOs are asked for, and may be refused, which nobody
\* looks at: the pointer is null then, or what it was.
StartSucceeds(i, iface, running, counts) ==
  /\ iface.internal.board \in attached
  /\ counts["can"] < MaxRefs
  /\ line' = running \cup {SocketOf(i)}
  /\ \E got \in SUBSET {k \in Fifo : counts[k] < MaxRefs} :
       \E kept \in SUBSET ((iface.internal.held \cap Fifo) \ got) :
         /\ refs' = [k \in Kind |-> IF k \in got \cup {"can"} THEN counts[k] + 1
                                                             ELSE counts[k]]
         /\ can_interface' = [can_interface EXCEPT
              ![i] = [iface EXCEPT !.internal.held = {"can"} \cup got \cup kept]]

\* Mutant: the flag is set before VCI is asked.
ixxat_open_FlagFirst(i, b) ==
  LET iface == [can_interface[i] EXCEPT !.baudrate = b, !.opened = 1] IN
  \/ /\ can_interface' = [can_interface EXCEPT ![i] = iface]
     /\ StartFails(SocketOf(i), line)
     /\ UNCHANGED refs
     /\ Return("open", -1, "vci")
  \/ StartSucceeds(i, iface, line, refs) /\ Return("open", 0, NULL)

\* The null check of the context is left out: a slot of this vendor has one.
ixxat_open(i, b) ==
  LET iface == [can_interface[i] EXCEPT !.baudrate = b] IN
  \/ /\ can_interface' = [can_interface EXCEPT ![i] = iface]
     /\ StartFails(SocketOf(i), line)
     /\ UNCHANGED refs
     /\ Return("open", -1, "vci")
  \/ /\ StartSucceeds(i, [iface EXCEPT !.opened = 1], line, refs)
     /\ Return("open", 0, NULL)

can_open(i, b) ==
  /\ pc = "idle"
  /\ \/ OpenRejected(i, b) /\ UNCHANGED <<line, refs>>
     \/ OnIxxat(i) /\ ixxat_open(i, b)
  /\ UNCHANGED <<attached, pc, scan, recv>>

\* Mutant: the pointers are overwritten as in ixxat_open.
ixxat_set_baudrate_NoRelease(i, b) ==
  \/ /\ StartFails(SocketOf(i), line)
     /\ UNCHANGED <<can_interface, refs>>
     /\ Return("set", -1, "vci")
  \/ /\ StartSucceeds(i, [can_interface[i] EXCEPT !.baudrate = b], line, refs)
     /\ Return("set", 0, NULL)

\* ixxat_set_baudrate releases what the context holds and starts the line
\* again.  It leaves the opened flag alone, and the recorded rate when it fails.
ixxat_set_baudrate(i, b) ==
  LET iface == Unheld(can_interface[i]) IN
  \/ /\ can_interface' = [can_interface EXCEPT ![i] = iface]
     /\ refs' = RefsWithout({i})
     /\ StartFails(SocketOf(i), LineWithout({i}))
     /\ Return("set", -1, "vci")
  \/ /\ StartSucceeds(i, [iface EXCEPT !.baudrate = b], LineWithout({i}), RefsWithout({i}))
     /\ Return("set", 0, NULL)

can_set_baudrate(i, b) ==
  /\ pc = "idle"
  /\ \/ SetRejected(i, b) /\ UNCHANGED <<line, refs>>
     \/ b \in Baud /\ OnIxxat(i) /\ ixxat_set_baudrate(i, b)
  /\ UNCHANGED <<attached, pc, scan, recv>>

can_close(i) ==
  /\ pc = "idle"
  /\ CloseSlots({i} \cap {j \in Slots : OnIxxat(j)})
  /\ Return("close", 0, NULL)
  /\ UNCHANGED <<attached, pc, scan, recv>>

can_release(i) ==
  /\ pc = "idle"
  /\ ReleaseSlots({i} \cap Slots)
  /\ Return("release", 0, NULL)
  /\ UNCHANGED <<attached, pc, scan, recv>>

can_release_interfaces ==
  /\ pc = "idle"
  /\ ReleaseSlots(Slots)
  /\ Return("release all", 0, NULL)
  /\ UNCHANGED <<attached, pc, scan, recv>>

\* ixxat_update releases the slot when its board cannot be opened, for whatever
\* reason, and sets none.
ixxat_update(i) ==
  \/ /\ can_interface[i].internal.board \in attached
     /\ Return("update", 0, NULL)
     /\ UNCHANGED <<can_interface, line, refs>>
  \/ ReleaseSlots({i}) /\ Return("update", -1, NULL)

can_update(i) ==
  /\ pc = "idle"
  /\ \/ Rejected("update", i) /\ UNCHANGED <<line, refs>>
     \/ OnIxxat(i) /\ ixxat_update(i)
  /\ UNCHANGED <<attached, pc, scan, recv>>

-----------------------------------------------------------------------------
(* Frames and the calls that read the table *)

can_get(i, bad) ==
  pc = "idle" /\ Get(i, bad) /\ UNCHANGED <<attached, line, refs, pc, scan, recv>>

\* PutDataEntry decides, whether or not the line runs.
ixxat_send(i) ==
  IF "writer" \in Held(i)
  THEN Return("send", 0, NULL) \/ Return("send", -1, "vci")
  ELSE Return("send", -1, "not open")

can_send(i) ==
  /\ pc = "idle"
  /\ Rejected("send", i) \/ (OnIxxat(i) /\ ixxat_send(i) /\ UNCHANGED can_interface)
  /\ UNCHANGED <<attached, line, refs, pc, scan, recv>>

\* With a reader, can_recv goes into its loop over what the FIFO holds.
can_recv(i) ==
  /\ pc = "idle"
  /\ \/ Rejected("recv", i) /\ UNCHANGED <<can_interface, pc, recv>>
     \/ /\ OnIxxat(i) /\ "reader" \notin Held(i)
        /\ Return("recv", -1, "not open")
        /\ UNCHANGED <<can_interface, pc, recv>>
     \/ /\ OnIxxat(i) /\ "reader" \in Held(i)
        /\ pc' = "recv" /\ rx' = i /\ ret' = NoCall
        /\ fifo' \in UNION {[1 .. n -> Message] : n \in 0 .. MaxFifo}
        /\ UNCHANGED can_interface
  /\ UNCHANGED <<attached, line, refs, scan>>

EndRecv(v) ==
  /\ pc' = "idle" /\ rx' = 0 /\ fifo' = <<>>
  /\ Return("recv", v, NULL)

\* Mutant: the loop goes on while no data message was read, a failure included.
ixxat_recv_OnFailureToo ==
  IF fifo # <<>> /\ Head(fifo) = "data" THEN EndRecv(0)
  ELSE fifo # <<>> /\ fifo' = Tail(fifo) /\ UNCHANGED <<pc, rx, ret>>

\* One GetDataEntry: data ends the loop, another message does not, and a failure,
\* which an empty FIFO always is, ends it without a reason.
ixxat_recv ==
  \/ fifo # <<>> /\ Head(fifo) = "data" /\ EndRecv(0)
  \/ /\ fifo # <<>> /\ Head(fifo) # "data"
     /\ fifo' = Tail(fifo) /\ UNCHANGED <<pc, rx, ret>>
  \/ EndRecv(-1)

ixxat_recv_entry ==
  pc = "recv" /\ ixxat_recv /\ UNCHANGED <<can_interface, attached, line, refs, scan>>

-----------------------------------------------------------------------------
(* Boards and messages come and go *)

Plug(b) ==
  /\ b \notin attached
  /\ attached' = attached \cup {b}
  /\ UNCHANGED <<can_interface, ret, line, refs, pc, scan, recv>>

\* References to the objects of a board that is gone stay until released.
Unplug(b) ==
  /\ b \in attached
  /\ attached' = attached \ {b}
  /\ line' = {s \in line : s[1] # b}
  /\ UNCHANGED <<can_interface, ret, refs, pc, scan, recv>>

Arrive(m) ==
  /\ pc = "recv"
  /\ SocketOf(rx) \in line
  /\ Len(fifo) < MaxFifo
  /\ fifo' = Append(fifo, m)
  /\ UNCHANGED <<can_interface, ret, attached, line, refs, pc, scan, rx>>

-----------------------------------------------------------------------------
Call ==
  \/ \E wanted \in BOOLEAN : can_find_interfaces_mask(wanted)
  \/ \E i \in CallIndex, b \in Asked : can_open(i, b) \/ can_set_baudrate(i, b)
  \/ \E i \in CallIndex : \/ can_close(i) \/ can_release(i) \/ can_update(i)
                          \/ can_send(i) \/ can_recv(i)
  \/ \E i \in CallIndex, bad \in BOOLEAN : can_get(i, bad)
  \/ can_release_interfaces

Scan ==
  \/ \E b \in Board : ixxat_find_board(b)
  \/ \E s \in Socket : ixxat_find_socket(s[1], s[2])
  \/ ixxat_find_end

Environment ==
  \/ \E b \in Board : Plug(b) \/ Unplug(b)
  \/ \E m \in Message : Arrive(m)

Next == Call \/ Scan \/ ixxat_recv_entry \/ Environment

Spec == Init /\ [][Next]_vars

\* A thread inside can_recv goes on reading.
FairSpec == Spec /\ WF_vars(ixxat_recv_entry)

-----------------------------------------------------------------------------
(* Properties *)

Holders(k) == {i \in Slots : k \in Held(i)}

Live(i) == "can" \in Held(i) /\ SocketOf(i) \in line

\* Every pointer in a context is backed by a reference of its own, so that no
\* release gives back another interface's; and a line that runs can be stopped:
\* a context has its CAN object.
RefsHeld ==
  /\ \A k \in Kind : Cardinality(Holders(k)) <= refs[k]
  /\ line \subseteq {SocketOf(i) : i \in Holders("can")}

FlagMisleads(i) == ~(can_interface[i].opened = 1 <=> Live(i))

\* The opened flag says whether the line of an interface runs, until one of
\* three things happens: can_set_baudrate, which opens without setting the flag
\* and fails without clearing it; a can_open that fails on an open interface,
\* after ResetLine; or the loss of the board.
FlagMisledBySetBaudrate ==
  [][\A i \in Slots : FlagMisleads(i)' /\ ~FlagMisleads(i) =>
       \/ ret'.op = "set"
       \/ ret'.op = "open" /\ ret'.val = -1 /\ can_interface[i].opened = 1
       \/ SocketOf(i)[1] \in attached \ attached']_vars

Lost(k) == refs[k] - Cardinality(Holders(k))

\* A reference is lost in one way only: a can_open that succeeds on an interface
\* whose context has pointers writes over them.
RefLostByReopen ==
  [][\A k \in Kind : Lost(k)' > Lost(k) =>
       /\ ret'.op = "open" /\ ret'.val = 0
       /\ \E i \in Holders(k) : "can" \in Held(i)']_vars

\* can_recv returns, also when its board is unplugged, provided messages that
\* are no data do not keep coming: it has no limit on those it passes over.
RecvReturns ==
  <>[][~Arrive("other")]_vars => (pc = "recv" ~> pc = "idle")

-----------------------------------------------------------------------------
(* The public interface: an index is open while its context has a CAN object. *)

Lifecycle == INSTANCE CanLifecycle WITH
  Whole <- {}, Part <- {},
  device <- [i \in Slots |-> can_interface[i].name],
  open <- Holders("can")

Refinement == Lifecycle!Spec
=============================================================================
