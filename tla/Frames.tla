------------------------------- MODULE Frames -------------------------------
(***************************************************************************)
(* How every back-end turns a struct can_frame into a message of its       *)
(* library, and a message into a frame.  A can_id is its identifier with   *)
(* the flags of linux/can.h beside it (eff: extended format, rtr: remote   *)
(* request); the payload is a function on byte positions.                  *)
(***************************************************************************)
EXTENDS Integers

CAN_MAX_DLEN == 8
SFF == 2048   \* identifiers of the standard format

Bytes == 0 .. CAN_MAX_DLEN - 1

can_id(id, eff, rtr) == [id |-> id, eff |-> eff, rtr |-> rtr]

can_frame(cid, dlc, data) == [can_id |-> cid, can_dlc |-> dlc, data |-> data]

\* The call fails: no frame has this length.
NoFrame == can_frame(can_id(0, FALSE, FALSE), -1, [i \in Bytes |-> 0])

\* A message on the bus: a controller sends as many bits of the identifier as
\* the format has.
Message(id, ext, rtr, dlc, data) ==
  [id |-> IF ext THEN id ELSE id % SFF, ext |-> ext, rtr |-> rtr,
   dlc |-> dlc, data |-> data]

\* The bytes a loop up to dlc copies, over zeroed storage.
Copied(data, dlc) == [i \in Bytes |-> IF i < dlc THEN data[i] ELSE 0]

-----------------------------------------------------------------------------
(* Sending *)

\* Is the 32-bit number above 0x7FF?  Its flags are the highest bits.
Above7FF(cid) == cid.id >= SFF \/ cid.eff \/ cid.rtr

\* The kernel takes the frame as it is.
socketcan_send(f) ==
  Message(f.can_id.id, f.can_id.eff, f.can_id.rtr, f.can_dlc, f.data)

\* canWrite with canMSG_STD, CAN_Write with PCAN_MESSAGE_STANDARD.
kvaser_send(f) == Message(f.can_id.id, FALSE, FALSE, f.can_dlc, f.data)

peak_send(f) == Message(f.can_id.id, FALSE, FALSE, f.can_dlc, f.data)

\* The format follows from the number; a remote request is always above it.
ixxat_send(f) ==
  Message(f.can_id.id, Above7FF(f.can_id), FALSE, f.can_dlc,
          Copied(f.data, f.can_dlc))

softing_send(f) ==
  Message(f.can_id.id, f.can_id.eff, FALSE, f.can_dlc, f.data)

Sent(driver, f) ==
  CASE driver = "SocketCAN" -> socketcan_send(f)
    [] driver = "Kvaser"    -> kvaser_send(f)
    [] driver = "PEAK"      -> peak_send(f)
    [] driver = "Ixxat"     -> ixxat_send(f)
    [] driver = "Softing"   -> softing_send(f)

-----------------------------------------------------------------------------
(* Receiving *)

socketcan_recv(m) == can_frame(can_id(m.id, m.ext, m.rtr), m.dlc, m.data)

\* The flags of canRead, and the MSGTYPE of CAN_Read, are not looked at.
kvaser_recv(m) == can_frame(can_id(m.id, FALSE, FALSE), m.dlc, m.data)

peak_recv(m) == can_frame(can_id(m.id, FALSE, FALSE), m.dlc, m.data)

\* Of the flags only the length is looked at.
ixxat_recv(m) ==
  can_frame(can_id(m.id, FALSE, FALSE), m.dlc, Copied(m.data, m.dlc))

\* Mutant: CAN_EFF_FLAG is not put back.
softing_recv_NoFlag(m) ==
  IF m.rtr THEN NoFrame
  ELSE can_frame(can_id(m.id, FALSE, FALSE), m.dlc, Copied(m.data, m.dlc))

\* Only data frames are taken.
softing_recv(m) ==
  IF m.rtr THEN NoFrame
  ELSE can_frame(can_id(m.id, m.ext, FALSE), m.dlc, Copied(m.data, m.dlc))

Received(driver, m) ==
  CASE driver = "SocketCAN" -> socketcan_recv(m)
    [] driver = "Kvaser"    -> kvaser_recv(m)
    [] driver = "PEAK"      -> peak_recv(m)
    [] driver = "Ixxat"     -> ixxat_recv(m)
    [] driver = "Softing"   -> softing_recv(m)

\* The frames agree where a frame says anything: a payload ends at its length.
SameFrame(f, g) ==
  /\ g.can_id = f.can_id
  /\ g.can_dlc = f.can_dlc
  /\ \A i \in Bytes : i < f.can_dlc => g.data[i] = f.data[i]

-----------------------------------------------------------------------------
(* Time stamps *)

\* peak_recv: milliseconds are counted modulo MillisWidth (2^32), with a count
\* of how often they wrapped.
peak_timestamp(millis_overflow, millis, micros, MillisWidth) ==
  micros + 1000 * millis + MillisWidth * 1000 * millis_overflow
=============================================================================
