# CANvenient in TLA+

This directory specifies CANvenient, the C library in this repository that puts
one CAN interface in front of five vendor APIs, checks the specifications with
TLC and proves theorems about them with TLAPS. File names below are relative to
the sources of the repository (`src/src/CANvenient.c` is `src/CANvenient.c` in it).

## The system

### Components

| Component | State | Operations |
|---|---|---|
| Interface table (`CANvenient.c`, `CANvenient_internal.h`) | `can_interface[CAN_MAX_INTERFACES]`: name, vendor, opened, baudrate, internal (the back-end's context) | free-slot search, name look-up, clearing of a slot |
| Public calls (`CANvenient.c`) | `can_error_reason` | `can_find_interfaces(_mask)`, `can_open`, `can_close`, `can_release(_interfaces)`, `can_update`, `can_get_name`, `can_get_baudrate`, `can_get_error`, `can_set_baudrate`, `can_send`, `can_recv` |
| SocketCAN back-end (Linux) | context: one descriptor number | find, open, close, update, set baud rate, send, receive |
| Kvaser back-end (Windows) | context: channel number, handle | the same |
| PEAK back-end (Windows) | context: channel information | the same |
| Ixxat back-end (Windows) | context: VCI object, two FIFOs, device id, bus number | the same |
| Softing back-end (Windows) | context: channel handle, channel name | the same |
| vciapi.dll loader (Windows, in `can_find_interfaces_mask`) | once flag, availability flag | probed by the first discovery |
| Frame translation, baud tables, error texts (in every back-end) | none | pure functions |

The library has no thread of its own, no lock and nothing persistent. A public
call checks its index, switches on the slot's vendor and calls that back-end's
function, which reads and writes the same slot. Three paths go the other way: a
back-end's update calls `can_release`, the Windows back-ends' set-baud-rate
functions call `can_close` and `can_open`, and discovery calls
`find_free_interface_slot`. On Linux only SocketCAN is compiled in, on Windows
the other four; the functions of the others return at once.

### What is hard in it

- The environment moves between the calls, and during the two that take time:
  devices appear and disappear while a scan reads the directory (or counts
  channels and then asks for them) and while a receive waits.
- Three fields say whether a slot is in use (name, vendor, context) and two
  whether it is open (opened, the descriptor or handle in the context). Every
  operation and each of its error paths has to keep them in step, and in step
  with what the kernel or the vendor's driver believes.
- Numbers are given out again: descriptors at once after a close, channel
  numbers when devices move.
- Calls come in any order: open twice, receive after a failed open, update and
  release in the middle of a device's life, scan again after a release.

### What makes each component correct

- Table: a slot is free in every respect or in none; a name has one index; a
  registration goes only where the interface says so; discovery loses no device
  while there is room.
- Back-ends: the table and the kernel (or driver) agree about what is open; no
  two slots share a descriptor; nothing that was opened is lost; a failed
  operation leaves what it found.
- Calls: the return value says what happened and there is a reason to read;
  every call comes back.

`PROJECT.json` lists the hazards one by one, at the lines where they bite, with
the property that would catch each, or the reason none does.

## Modules

| Module | Models |
|---|---|
| `CanTable` | the table, the free-slot search, the name look-up, the clearing by `can_release` |
| `CanCalls` | EXTENDS `CanTable`: return value and reason of a call, the index check, the vendor switch's default, the getters |
| `CanLifecycle` | the abstract specification: an index is free, registered or open |
| `SocketCAN` | EXTENDS `CanCalls`: the Linux build, against the kernel's devices and descriptors |
| `Kvaser` | EXTENDS `CanCalls`: the Kvaser back-end, against CANlib's channels and handles |
| `Peak` | EXTENDS `CanCalls`: the PEAK back-end, against the channels PCAN-Basic lists and has initialised |
| `Ixxat` | EXTENDS `CanCalls`: the Ixxat back-end, against VCI's boards, bus lines and counted references |
| `Softing` | EXTENDS `CanCalls`: the Softing back-end, against CANL2's channels and handles |
| `Windows` | composes `Ixxat`, `Peak`, `Kvaser` and `Softing` (by INSTANCE) over one table: the mask, vciapi.dll, the vendor switch |
| `BaudTables` | the bit rate every back-end programs for an enumerator |
| `Frames` | what every back-end makes of a frame when sending and of a message when receiving |
| `PeakError` | PEAK's `lookup_error_string`: which texts it joins, how long they are |
| `Conversions` | the inputs of the three modules above and their properties |
| `MCKvaser`, `MCPeak`, `MCIxxat`, `MCSofting`, `MCWindows` | symmetry sets and values of constants for TLC |
| `CanCallsProofs` | lemmas about slots and calls that every back-end's proofs use |
| `SocketCANProofs` | types, inductive invariant, safety and action properties of `SocketCAN`, the refinement |
| `KvaserProofs`, `PeakProofs`, `IxxatProofs`, `SoftingProofs` | the same for the back-ends of Windows, one module each |
| `WindowsProofs` | the invariant of the four back-ends over one table, its properties, the refinement |
| `ConversionsProofs` | frames, rates and error texts for every input; the order of PEAK's time stamps |

Actions carry the names of the C functions they stand for. A public call is one
action from its entry to its return value: the library is single-threaded, so
nothing of the program runs in between. Two calls are several steps, because
the environment acts while they run. Discovery is one step per entry of what is
listed (`socketcan_find_entry`, `kvaser_find_channel`, `peak_find_channel`,
`ixxat_find_board` and `ixxat_find_socket`, `softing_find_channel`), and where the
code asks for a list after its size, that is a step of its own (`peak_list`,
`softing_list`); `pc` and the variables in `scan` are its local variables. A
receive is an entry (`can_recv`) and a return over SocketCAN
(`socketcan_recv_frame`, `socketcan_recv_fails`), and an entry and a step per
message over Ixxat (`ixxat_recv_entry`), whose loop passes over messages that are
no data; in between `pc` is "recv".

A system call or a call of a vendor's library may fail wherever the code looks at
its result, for whatever reason, and `malloc` wherever it looks at that: the type
file of a SocketCAN device that is there may be refused (`TypeUnread`), a Kvaser
channel with a device may be refused in a scan and in `can_update`, and
`kvaser_open` fails at each of its three calls, after which the handle has to be
closed. One thing is taken for granted: `CAN_GetStatus` says PCAN_ERROR_ILLHW, the
one error `peak_update` acts on, only of a handle without a device.

How state corresponds to the code:

- `can_interface[i]` has the five fields of `struct can_iface`. `name` is the
  device, `NULL` when the pointer is. `internal` is `NULL` or the contents of the
  context: the descriptor number for SocketCAN, a `kvaser_channel_info_t` for
  Kvaser, the channel for PEAK, an `ixxat_ctx_t` whose `held` names the pointers
  that are not null for Ixxat, the handle for Softing.
- `ret` holds the call that returned last, what it returned and what it wrote to
  `can_error_reason`, NULL if it wrote nothing. It is `NoCall` while a call of
  several steps runs. Reasons are one value per kind of failure.
- `netdev` and `sock` are the kernel's: the CAN devices there are, and for every
  descriptor whether it is closed, "raw" (made by `socket()`, without a
  completed set-up) or "ready" (bound and with its receive timeout), and the
  device it is bound to. `Unplug` removes a device and unbinds its sockets. A
  device that comes back under the same name is another device.
- The directory scan visits each name at most once, in any order. A device that
  is there throughout is seen; one that comes or goes meanwhile may be seen or
  not (`PassedOver`).
- Dereferencing the null context, which a half-registered slot has, is a crash
  (`pc = "crashed"`), after which the process starts again with a zeroed table
  and no descriptors.
- `bus` and `handle` are CANlib's: the description on each channel, and the
  channel each open handle is on. Two channels may have the same description.
- `attached` and `init` are PCAN-Basic's: the channels with a device, and those
  the process has initialised. `CAN_Initialize` refuses a channel that is
  initialised, `CAN_Uninitialize` one that is not. `list` is the whole of the
  allocated list; PCAN-Basic fills it as far as there are channels, and what is
  beyond is any handle, whatever malloc found there: a channel, attached or not,
  or PCAN_NONEBUS. That one is no channel and cannot be initialised, and
  `CAN_Uninitialize` of it uninitialises every channel of the process
  (`Uninitialized`). A handle `lookup_bus_name` does not know gets `NoneBus`.
- `line` and `refs` are VCI's: the bus lines that run, and how many references of
  each kind the process has not released. The two FIFOs of a CAN object may be
  refused one by one, which `ixxat_open` does not look at (`StartSucceeds`): the
  pointer is null then, or what it was before. `fifo` is the receive FIFO of the
  interface `can_recv` reads; what it holds at the start is open, and messages
  arrive while the line runs.
- `present` and `chan` are CANL2's: the channels there are, and what each handle
  is open on. On a channel that is open CANL2 may give a new handle or the same
  one, and failing, may clear the handle it was given or not.
- In `Windows` each back-end has its own library variables, and `can_interface`,
  `ret` and `pc` are shared. `dll` is the outcome of the one look for vciapi.dll,
  `asking` and `toAsk` say how far `can_find_interfaces_mask` has come.
- `steady`, `unread` and `listed` are history variables: the devices (channels)
  present without a break since the scan began, those of them whose type file was
  refused, and the channels PCAN-Basic wrote into the list. `steady` also decides
  which entries the directory is certain to list.

## Runs

| Run | Instance | Shows |
|---|---|---|
| `socketcan` | 2 slots, 3 devices, 2 descriptors, fairness | the properties below, `ScanReturns`, `OpenedRecvReturns`, and `Refinement` |
| `socketcan_recv_blocks` | 1 slot, 1 device, 1 descriptor, fairness | `RecvReturns` is violated: finding 1 |
| `kvaser` | 2 slots, 3 channels, 3 descriptions, 2 handles | the safety and action properties below, and `Refinement` |
| `kvaser_release` | 2 slots, 1 channel, 2 handles | `ReleaseClosesAll` is violated: finding 2 |
| `peak` | 2 slots, 4 channels of 3 names | the safety and action properties below, and `Refinement` |
| `peak_ghost` | 2 slots, 2 channels | `RegistersListed` is violated: finding 3 |
| `peak_flag` | 1 slot, 1 channel | `FlagTrue` is violated: finding 4 |
| `ixxat` | 2 slots, 2 boards of one description with 4 sockets of 3 names, fairness | the properties below, `RecvReturns`, and `Refinement` |
| `softing` | 2 slots, 3 channels, 3 handles | the safety and action properties below, and `Refinement` |
| `windows` | 2 slots, one device per vendor, two of one name | `WindowsTable`, `Refinement` |
| `conversions` | every case the operators tell apart | `RatesInterwork`, `FramesKept`, `ErrorTextExact`, `ErrorTextFits` |
| `conversions_rates` | the same | `ClosestRate` is violated: finding 5 |

All back-ends:

- `UniqueNames` (SocketCAN; of the Windows table it is proved, and part of what
  `Refinement` demands of a registration): a name is registered under one index,
  whatever was released and scanned in between.
- `FindComplete` (SocketCAN, Kvaser, PEAK): a scan, as far as it has come, passes
  over nothing that was there all along (PEAK, at its end: nothing that was
  listed), unless the table is full. That is less than "Finds all available CAN interfaces on the system"
  (`CANvenient.h:113`), and the code does less, in ways the models have:
  - a scan that breaks off, for want of memory or because a channel is refused, leaves
    out what it has not come to, and `can_find_interfaces` returns 0 all the same
    (`CANvenient.c:95` drops the results of the back-ends);
  - a SocketCAN device whose type file is refused is passed over (`unread`);
  - of Kvaser channels that share a description only the first is found
    (`CANvenient_Kvaser.c:73`), and of PEAK channels `lookup_bus_name` has no name
    for, so that all are called PCAN-NONEBUS, only one (`CANvenient_PEAK.c:72`). The
    two back-ends' `FindComplete` speaks of names, therefore.
- `RegistrationStable` (SocketCAN, Kvaser): a slot loses its name or context only
  through a release or an update that returns -1, and then it is cleared entirely.
  Over SocketCAN that update has found the device gone. `kvaser_update` releases on
  any refusal, with the device there or not; what is stated of it is that it reports
  the loss, closes the slot's handle, and touches no other slot.
- `Refinement`: the back-end implements `CanLifecycle`. Discovery fills the
  lowest free index and leaves it closed, only a registered index opens, and a
  step that closes or frees one index touches no other. "Open" is mapped to the
  kernel's (driver's) view, a ready socket, a handle or CAN object in the context,
  an initialised channel, not to the `opened` flag. One exception is in
  `CanLifecycle`, and stated there as what it is: to close or free the index of a
  device in `Whole` may close the indices of devices in `Part` (and frees none of
  them). For PEAK `Whole` is the device `NoneBus`, whose slot may hold PCAN_NONEBUS;
  in `Windows` `Part` is the devices of PEAK, so that no other vendor's index is ever
  closed so. For the other back-ends both sets are empty.

SocketCAN:

- `DescriptorsOwned`: a descriptor number in the table belongs to that slot
  alone, and is open and bound to no other slot's device. Without it `close()` or
  `write()` of one interface would hit another.
- `OpenedIsReady`: the flag agrees with the kernel.
- `CompletedSocketsOwned`: no call loses an open interface's socket.
- `CrashNeedsHalfRegistration`: the null dereference has one cause.
- `OpenOutcome`: `can_open` returns 0 exactly when it leaves the interface opened,
  and a failure leaves a reason, as `example.c` expects.
- `ScanReturns`, `OpenedRecvReturns`: liveness.

Kvaser:

- `HandlesOwned`: the handle in a context is open on that context's channel,
  belongs to no other slot, and the flag agrees.
- `FailedOpenIsClean`: wherever `kvaser_open` fails (`canOpenChannel`,
  `canSetBusParams`, `canBusOn`), no handle is left behind. A failed `can_open`
  changes nothing but the recorded baud rate; a failed `can_set_baudrate`, which
  closes first, leaves that slot closed at most, and no other handle touched.
- `HandleLostByReopen`: a handle leaves the table without being closed in one way
  only, a second `can_open`.

PEAK:

- `InitializedOwned`: every channel the process has initialised is one slot's and
  can be given back through it, also when the list held a handle twice or one
  that is no channel any more.
- `FlagLeftByClose`: the opened flag comes to say open of a channel that is not
  initialised through `peak_close` only: of that channel, in `can_close` or
  `can_set_baudrate`; or of a slot with PCAN_NONEBUS, then also in `can_release` and
  `can_update`, which closes every channel and leaves all flags. That the flag is
  always right (`FlagTrue`) is finding 4.

Ixxat:

- `RefsHeld`: every pointer in a context is backed by a reference of its own, and
  a line that runs can be stopped through a context.
- `FlagMisledBySetBaudrate`: the three ways in which flag and line come apart:
  `can_set_baudrate`, which opens a closed interface without setting the flag and
  fails without clearing it; a second `can_open` that fails after `ResetLine`;
  the loss of the board.
- `RefLostByReopen`: references are lost through a second `can_open` only.
- `RecvReturns`: `can_recv` comes back, unless messages that are no data arrive
  again and again for ever.

Softing:

- `HandlesOwned`: a handle in a context is open, on the channel the slot is named
  after, in no other slot, and the slot is flagged open.
- `DamageByReopenOnly`: a handle is lost, or the flag left without a handle,
  through a `can_open` on an open interface only.

Windows:

- `WindowsTable`: the context of a slot is of the vendor's type, there are Ixxat
  slots only with vciapi.dll loaded, and `InitializedOwned`, `RefsHeld` and both
  `HandlesOwned` hold although slots change hands between the vendors.
- `Refinement`: the four together implement `CanLifecycle`. An index is open as the
  back-end of its vendor says (`HasOpen`), and a step of one back-end changes at
  most one index, which is its own or was free. Only `can_release_interfaces` frees
  indices of several vendors, and it frees them all.

Conversions:

- `RatesInterwork`: which pairs of back-ends, opened with the same enumerator on one
  bus, hear each other: those that both have the rate, or make the same of it. "Hear"
  is a difference of at most 1.5 %; the rates of one enumerator differ by less than
  1.4 % or by more than 4 %, so nothing depends on where the line is drawn. Kvaser lacks
  six rates and Ixxat three, and only 47K, 50K to both, is one bus between the two.
- `ClosestRate`: a back-end programs, for a rate it lacks, the closest of those it uses.
  Two entries break it: finding 5.
- `FramesKept`: for every pair of back-ends on one bus, exactly which frames
  arrive as they were sent: standard data frames everywhere; extended ones only
  between back-ends that keep the format both ways; remote requests only between
  two of SocketCAN.
- `ErrorTextExact`: the texts say what the status bits say, no more, although five
  codes share bits.
- `ErrorTextFits`: the texts of all conditions together fit `error_buf`.

### Bounds

Two slots are the fewest in which one slot can disturb another, in which there
is a lower and a higher free slot, and in which the table can be partly full.
One device (name) more than slots makes the table overflow. Two descriptors
let a failed open lose one while an interface goes on with the other, with three
Softing handles two interfaces go on. The third Kvaser channel is beyond the cap that
`kvaser_find_interfaces` sets to its count, and the PEAK list is cut at the table's
size in the same way. Two PEAK channels share the fallback name, so that a listed
channel may be known under it. The Ixxat boards share a description, so that two
sockets have one name, and one of them has more sockets than the table. `MaxRefs`
is the number of references of a kind VCI gives out: with 2, a lost reference and
two held ones do not fit, so that FIFOs are also refused. `MaxFifo` is the length of
the receive FIFO: with 2, data may stand behind a message that is none. Every index
from -1 to one past the table is passed. One baud rate inside the enumeration and
one value outside it suffice, since nothing in the calls tells two valid rates
apart; `Asked` leaves the second out for SocketCAN, Ixxat and `windows`, where a
stored rate only multiplies the states. In `windows` each vendor has one device, one handle
and one reference, and the Softing channel has the name of the PEAK channel: the
run asks what the back-ends do to each other, and what one does alone is asked in
its own run. In `conversions` identifiers are both sides of every boundary, lengths
are all, and status codes are all single ones, all pairs and all at once, with at
most one of the five that share bits. Nothing else is bounded: the runs explore
every reachable state of these instances. Symmetry is used over names and handles
in the runs `kvaser`, `peak` and `softing`, and not under liveness.

### Fairness

`SocketCAN!FairSpec` has weak fairness on two actions. `Scan`: the thread inside
`socketcan_find_interfaces` runs, and every `readdir` returns.
`socketcan_recv_fails`: the kernel's receive timeout expires on a socket that has
one, and `recvmsg` on descriptor -1 is refused at once. Frames are not assumed to
arrive, callers are not assumed to call, and devices may come and go for ever.

`Ixxat!FairSpec` has weak fairness on `ixxat_recv_entry`: the thread inside
`ixxat_recv` runs, and `GetDataEntry`, which does not wait, returns. That messages
other than data eventually stop is not fairness but the premise of `RecvReturns`:
the loop has no other end, as long as they fill the FIFO faster than it is read.

### Findings

1. **A receive after a failed open blocks** (`socketcan_recv_blocks`). The receive
   timeout is set after `bind`, a failure before it leaves the descriptor in the
   context, and `can_recv` does not look at `opened`. `recvmsg` then waits on an
   unbound socket without a timeout.
2. **A handle left open** (`kvaser_release`). A second `can_open` covers the first
   handle, and `can_release_interfaces` does not close it.
3. **A channel out of uninitialised memory** (`peak_ghost`). PEAK's channels are
   counted first and listed second, and the list is gone through up to the count.
   When a channel disappears in between, the end of the list is what malloc found
   there, and is registered. If that is 0, PCAN_NONEBUS, a close or release of the
   slot uninitialises every channel.
4. **A closed interface that is flagged open** (`peak_flag`). `peak_close` leaves
   `opened` set, where the other back-ends' close functions reset it.
5. **Rates that are not the closest** (`conversions_rates`). For 95K Kvaser programs
   83K where 100K is closer, for 33K 62K where 50K is, both under the comment
   "closest predefined" (`CANvenient_Kvaser.c:307` and `:315`).

## Proofs

The theorems hold for every value of the constants that satisfies the assumptions
of the module, so for every table size, set of devices, channels, boards, handles
and rates. TLC evaluates the assumptions in the runs of the same modules:

| Assumption | Says |
|---|---|
| `TableAssumption` | the table has a slot, zero is a valid rate, the null pointer is no name |
| `FdAssumption` | callers ask for rates `can_open` takes; -1 and the null pointer are not descriptors, the null pointer is no text |
| `KvaserAssumption` | there is a channel; the null pointer and -1 are no handles; a context is not the null pointer |
| `PeakAssumption` | there are finitely many channels; `NoneBus` and PCAN_NONEBUS are no channels; the null pointer is neither a handle nor a text |
| `IxxatAssumption` | the names are those of the sockets, VCI gives out a reference of a kind and a FIFO has room, a context is not the null pointer |
| `SoftingAssumption` | there are finitely many channels; the null pointer and -1 are no handles; a context is not the null pointer |
| `WindowsAssumption` | those of the four back-ends; a PEAK handle, which is a number, is no context of another back-end; the null pointer is no vendor |

| | SocketCAN | Kvaser | PEAK | Ixxat | Softing | Windows |
|---|---|---|---|---|---|---|
| types | `TypeCorrect` | `TypeCorrect` | `TypeCorrect` | `TypeCorrect` | `TypeCorrect` | |
| table and driver agree | `TableMatchesKernel` | `HandlesAreOwned` | `InitializedAreOwned` | `RefsAreHeld` | `HandlesAreOwned` | `WindowsTableHolds` |
| names | `NamesAreUnique` | | | | | `NamesAreUnique` |
| discovery | `ScanIsComplete` | `ScanIsComplete` | `ScanIsComplete` | | | |
| registration | `RegistrationIsStable` | `RegistrationIsStable` | | | | |
| what goes wrong, and only how | `CrashesAreExplained` | `LossNeedsReopen` | `FlagIsLeftByClose` | `LossNeedsReopen`, `FlagIsMisledBySetBaudrate` | `DamageNeedsReopen` | |
| `can_open` | `OpenTellsTheTruth` | `FailedOpenLeavesNothing` | | | | |
| `CanLifecycle` | `ImplementsLifecycle` | `ImplementsLifecycle` | `ImplementsLifecycle` | `ImplementsLifecycle` | `ImplementsLifecycle` | `ImplementsLifecycle` |

Each theorem states one property of the runs, but for `TableMatchesKernel`, which
states three (`DescriptorsOwned`, `OpenedIsReady`, `CompletedSocketsOwned`) and, with
them, `TableWellFormed`: free by name, free by vendor, closed and without context are
one thing. With them every safety property, every action property and
every refinement that the runs of the state machines check is proved.

### The inductive invariants

In every back-end `IInv` is the types, apart from the table and the driver's state,
and an `Agree` that says that table and driver agree. None of the properties is
inductive by itself:

- SocketCAN: to show that a close gives back the right socket one needs
  `OpenedIsReady`, to keep that when a descriptor is handed out again one needs
  `DescriptorsOwned`, and to keep that when a slot is filled one needs
  `TableWellFormed`. `Agree` is their conjunction.
- Kvaser and Softing: `HandlesOwned` speaks of registered slots, so `Agree` adds
  that name, vendor and context of a slot say the same (`Sound`): a slot whose
  vendor is gone would take its handle along.
- PEAK: `InitializedOwned` says that a channel has one owner. What keeps a close
  from uninitialising another slot's channel is that no two slots have one
  handle, and that follows from names being unique and being the handles' names.
  The one slot that may hold PCAN_NONEBUS is never open itself, and once it is closed
  nothing is initialised, so that the invariant holds with no owner.
- Ixxat: `RefsHeld` counts, for each kind of pointer, the slots that hold one.
  `Agree` adds that a slot's name is its socket's and that names are unique, since a
  line is stopped by the socket, and one interface's close must not stop
  another's line. The proofs about counts add and remove one slot from a set of
  holders with the facts of FiniteSetTheorems.

`Agree` takes the table and the driver's state as parameters. `can_open` over SocketCAN
closes and opens in one step, `can_set_baudrate` releases and starts again, so a call
goes through a state that no variable ever has; the lemmas about closing (`CloseAgrees`,
`DropAgrees`), opening (`OpenAgrees`, `StartAgrees`) and writing a slot (`PutSlot`)
speak of any table and are chained inside one step.

### From the calls to the steps

The public calls share their effects: five of them may close, three may release. So
`NextSteps` shows first, action by action, that every step is one of a few kinds
(`Step`: it opens a slot, closes some, releases some, registers one, stores a rate, or
leaves the table alone), and each later theorem goes through those kinds. What a kind
does is proved once: `StepAgrees` for the invariant (`CallAgrees` over SocketCAN),
`StepsImplement` for the
refinement, `StepMisleads`, `StepLoses` for the action properties.

- `ScanIsComplete` is an induction along the scan: `FindComplete` of Kvaser needs
  that a channel counted as steady has a device (`SteadyAttached`), that of PEAK
  that what was listed is still in the list or already has a slot (`ListedFound`).
- `NamesAreUnique`: a step keeps or frees names (`NamesKept`), or gives one slot a
  name no slot has (`NameGiven`). The types are all it needs.
- `CrashesAreExplained`: only a call through a null context enters the crashed state,
  and nothing but the restart leaves it.
- `ImplementsLifecycle`: `Init` maps to `Init`, and a step of each kind to one action
  of `CanLifecycle` or to none (`NextImplements`). For SocketCAN the map is the
  kernel's view, and `OpenedIsReady`, before and after the step, turns it into the
  flag; for the others it is what the context or the driver says. The close of a
  PCAN_NONEBUS slot is the abstract close of a device in `Whole`, since such a slot
  has the name `NoneBus` (`AllClosed`).

### Four back-ends over one table

`WindowsProofs` does not prove the back-ends again. For each vendor it takes the view
that the back-end has of the table: its own slots as they are, all others free
(`ViewOf`). An INSTANCE of the back-end's proofs over that view (`PV`, `KV`, `XV`,
`SV`) gives what was proved of the back-end alone. `IInv` is then

- `Table`: the types of the shared table; a slot without a vendor is free in every
  respect; a name is registered once, whichever vendor did it;
- `Views`: every back-end's `Agree` holds of its view;
- `PeakScan`, `KvaserScan`: what the scans still go through are channels, with names;
- `Loaded`: Ixxat is asked, and has slots, only with vciapi.dll.

`ContextsMatchVendors` or `OthersLeftAlone` alone would not do: a back-end's close goes
by the vendor field, so what it gives back is right only if vendor, name and context
of the slot say the same, and two vendors may name a device alike, so that names have
to be unique in the whole table. Two facts carry the step. A back-end's action on
the shared table is its action on the view
(`PeakOpens`, `KvaserOpens`, `IxxatStarts`, `SoftingOpens` and the like), so its own
`StepAgrees` applies; only a registration is not, since the first free slot of the
view may be taken by another vendor, and there the lemma about filling any free slot
(`FillAgrees`) applies instead. And a step of one back-end leaves the views of the
others alone but for recorded rates (`Writes`, `OthersSeeRates`), which `Agree` does not
depend on (`PeakRates`, ...). A call on a slot without a vendor stores a rate, and
clearing such a slot clears nothing, which is why rates may differ.
`can_release_interfaces` is in each view the release of all slots (`AllReleased`).

`ImplementsLifecycle` of Windows goes by slots: a call changes one slot, which keeps
name and vendor or is cleared (`Only`, `OnlyMaps`), and a scan writes one free slot
under a name no slot has (`Takes`, `TakesMaps`). What is open of the other slots
stays: Kvaser, Ixxat and Softing keep it in the slot, and PEAK's channels have one
slot each (`PeakContext`). The close of a PCAN_NONEBUS slot is a case of its own: it
takes indices along, all of them of PEAK (`TakesAlong`, `TakesAlongMaps`).

### Conversions

- `FramesCarried`: a frame sent by one back-end and received by another is the same
  frame exactly if both keep its format and its kind (`Carried`), for every identifier
  of 29 bits, every length and every payload. `FramesAreKept` is the part of it the run
  goes through.
- `RatesAgree` states `RatesInterwork`. `RateOf` says that a rate a back-end has is met
  within 1.4 % and never from below, and one it lacks is missed by more than 5 %; two
  back-ends of which one lacks the rate then differ too much, and two that both lack
  it are Kvaser and Ixxat (`LackedByTwo`).
- `RatesAreClosest`: by cases over back-end and enumerator, every entry is the closest
  but for the two of finding 5.
- `TextsReported`: for every set of conditions with at most one of those that share
  bits, not only for pairs and all; `TextsAreExact` is the part the run goes through.
- `TimestampsOrdered`: of two messages, the one PCAN-Basic stamps later gets the larger
  time stamp from `peak_recv`, also when the count of milliseconds has wrapped in
  between, whatever its width. The milliseconds and microseconds stay below one count
  of wraps, and `NextMultiple` gives the step from one count to the next. It assumes
  that microseconds are below 1000. The sum fits the 64 bits it has, since PCAN-Basic
  counts wraps in 16.

### What is only model-checked

- `ScanReturns`, `OpenedRecvReturns` and `RecvReturns`: liveness. The proof system
  has no fairness and no ENABLED.
- `ErrorTextFits`: it adds up the lengths of the texts with a fold over the set of
  conditions, whose definition is recursive over data; the run adds them all up.
- That the findings are reachable is TLC's to show: a theorem says that damage
  happens in one way only, a run that it does happen.

## What is not modelled

- The bit rate of a Linux device: it belongs to the device. The slot's `baudrate`
  is modelled; over SocketCAN it is only recorded. The bit timing registers that
  stand for a rate are taken as the rate.
- The time stamps of received frames, except for the arithmetic of PEAK's
  (`peak_timestamp`): each is a conversion of one number the driver gives.
- A signal that interrupts `recvmsg`, which `socketcan_recv` reports like any
  other failure.
- Status messages of PCAN-Basic that `peak_recv` hands on as data: `Frames` has
  messages of the bus only.
- Two status codes of PCAN-Basic that share bits at once: the three bits are one
  number, whose values name one code or none, and what two of them together should
  be reported as is not defined.
- The two paths at which vciapi.dll is looked for: it is found or not.
- CANlib is taken to describe a channel only when a device is on it.
- Boards, channels and devices that stay while a library misbehaves in ways the
  code does not look at (`CAN_Uninitialize` or `StopLine` that fail).
- Null checks of contexts that no reachable state makes fail, in Ixxat and Softing.
- Concurrent callers: the library has no locks and does not offer it.
- The functions of back-ends that are not compiled in, which return at once.
- The driver template and the build files have no behaviour to model; the example
  program is a caller like those the models let do anything.

## Plan

Every component with run-time behaviour is modelled, and the Windows back-ends are
composed. Every invariant, action property and refinement of a state machine is
proved, and of the conversions everything but the sum of text lengths. What could be
added:

1. The types of `Windows` as a whole; `IInv` has those the other properties rest on.
2. `RegistrationStable` and `FindComplete` for Ixxat and Softing. Their scans and
   updates drop failures on purpose, so both hold only with the exceptions named.
3. The back-ends' action properties (`HandleLostByReopen`, `FlagLeftByClose` and the
   like) over the shared table, by the views.
