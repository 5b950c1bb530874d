------------------------- MODULE ConversionsProofs --------------------------
(***************************************************************************)
(* Proofs about the conversions: which frames two back-ends carry, for     *)
(* every identifier, length and payload; the closest rates; the texts of   *)
(* every status; and that the time stamps peak_recv computes are in the    *)
(* order of time.                                                          *)
(***************************************************************************)
EXTENDS Conversions, TLAPS

-----------------------------------------------------------------------------
(* A state is an input *)

LEMMA InputStays == Spec => []Init
<1>1. Init /\ [Next]_input => Init'
  BY DEF Init, Next
<1> QED BY <1>1, PTL DEF Spec

-----------------------------------------------------------------------------
(* Frames *)

\* Every frame a caller can mean, and more: an identifier has 11 bits in the standard
\* format, and as many as it likes in the extended one.
struct_can_frame ==
  {f \in [can_id  : [id : Nat, eff : BOOLEAN, rtr : BOOLEAN],
          can_dlc : 0 .. CAN_MAX_DLEN,
          data    : [Bytes -> Nat]] : f.can_id.eff \/ f.can_id.id < SFF}

LEMMA FrameIs ==
  ASSUME NEW f \in struct_can_frame
  PROVE  /\ f.can_id = can_id(f.can_id.id, f.can_id.eff, f.can_id.rtr)
         /\ f.can_id.eff \in BOOLEAN /\ f.can_id.rtr \in BOOLEAN
         /\ f.can_dlc # -1
         /\ f.can_id.eff \/ f.can_id.id < SFF
         /\ f.can_id.id < SFF => f.can_id.id % SFF = f.can_id.id
         /\ f.can_id.id < SFF => ~(f.can_id.id >= SFF)
  BY SMT DEF struct_can_frame, SFF, can_id, CAN_MAX_DLEN

\* What is on the bus when f is sent.
LEMMA SentIs ==
  ASSUME NEW from \in Driver, NEW f \in struct_can_frame
  PROVE  /\ Sent(from, f).dlc = f.can_dlc
         /\ \A i \in Bytes : i < f.can_dlc => Sent(from, f).data[i] = f.data[i]
         /\ Sent(from, f).ext \in BOOLEAN /\ Sent(from, f).rtr \in BOOLEAN
         /\ Sent(from, f).rtr <=> from = "SocketCAN" /\ f.can_id.rtr
         /\ ~f.can_id.rtr \/ from = "SocketCAN" =>
              (Sent(from, f).ext
                 <=> f.can_id.eff /\ from \in {"SocketCAN", "Softing", "Ixxat"})
         /\ Sent(from, f).ext \/ ~f.can_id.eff => Sent(from, f).id = f.can_id.id
<1>1. CASE from = "SocketCAN"
  <2>1. Sent(from, f) = Message(f.can_id.id, f.can_id.eff, f.can_id.rtr, f.can_dlc, f.data)
    BY <1>1 DEF Sent, socketcan_send
  <2>2. /\ Sent(from, f).ext = f.can_id.eff /\ Sent(from, f).rtr = f.can_id.rtr
        /\ Sent(from, f).dlc = f.can_dlc /\ Sent(from, f).data = f.data
        /\ Sent(from, f).id = IF f.can_id.eff THEN f.can_id.id ELSE f.can_id.id % SFF
    BY <2>1 DEF Message
  <2> QED BY <1>1, <2>2, FrameIs
<1>2. CASE from = "Softing"
  <2>1. Sent(from, f) = Message(f.can_id.id, f.can_id.eff, FALSE, f.can_dlc, f.data)
    BY <1>2 DEF Sent, softing_send
  <2>2. /\ Sent(from, f).ext = f.can_id.eff /\ Sent(from, f).rtr = FALSE
        /\ Sent(from, f).dlc = f.can_dlc /\ Sent(from, f).data = f.data
        /\ Sent(from, f).id = IF f.can_id.eff THEN f.can_id.id ELSE f.can_id.id % SFF
    BY <2>1 DEF Message
  <2> QED BY <1>2, <2>2, FrameIs
<1>3. CASE from \in {"Kvaser", "PEAK"}
  <2>1. Sent(from, f) = Message(f.can_id.id, FALSE, FALSE, f.can_dlc, f.data)
    BY <1>3 DEF Sent, kvaser_send, peak_send
  <2>2. /\ Sent(from, f).ext = FALSE /\ Sent(from, f).rtr = FALSE
        /\ Sent(from, f).dlc = f.can_dlc /\ Sent(from, f).data = f.data
        /\ Sent(from, f).id = IF FALSE THEN f.can_id.id ELSE f.can_id.id % SFF
    BY <2>1 DEF Message
  <2> QED BY <1>3, <2>2, FrameIs
<1>4. CASE from = "Ixxat"
  <2>1. PICK ext \in BOOLEAN : ext = Above7FF(f.can_id)
    BY DEF Above7FF
  <2>2. Sent(from, f) = Message(f.can_id.id, ext, FALSE, f.can_dlc, Copied(f.data, f.can_dlc))
    BY <1>4, <2>1 DEF Sent, ixxat_send
  <2>3. ext <=> f.can_id.eff \/ f.can_id.rtr
    BY <2>1, FrameIs DEF Above7FF
  <2>4. \A i \in Bytes : i < f.can_dlc => Copied(f.data, f.can_dlc)[i] = f.data[i]
    BY DEF Copied
  <2>5. /\ Sent(from, f).ext = ext /\ Sent(from, f).rtr = FALSE
        /\ Sent(from, f).dlc = f.can_dlc /\ Sent(from, f).data = Copied(f.data, f.can_dlc)
        /\ Sent(from, f).id = IF ext THEN f.can_id.id ELSE f.can_id.id % SFF
    BY <2>2 DEF Message
  <2> QED BY <1>4, <2>3, <2>4, <2>5, FrameIs
<1> QED BY <1>1, <1>2, <1>3, <1>4 DEF Driver

\* What a back-end makes of a message.
LEMMA ReceivedIs ==
  ASSUME NEW to \in Driver, NEW m, m.ext \in BOOLEAN, m.rtr \in BOOLEAN,
         to # "Softing" \/ ~m.rtr
  PROVE  /\ \E ext, rtr \in BOOLEAN :
              /\ Received(to, m).can_id = can_id(m.id, ext, rtr)
              /\ ext <=> to \in {"SocketCAN", "Softing"} /\ m.ext
              /\ rtr <=> to = "SocketCAN" /\ m.rtr
         /\ Received(to, m).can_dlc = m.dlc
         /\ \A i \in Bytes : i < m.dlc => Received(to, m).data[i] = m.data[i]
<1>1. \A i \in Bytes : i < m.dlc => Copied(m.data, m.dlc)[i] = m.data[i]
  BY DEF Copied
<1>2. CASE to = "SocketCAN"
  <2>1. Received(to, m) = can_frame(can_id(m.id, m.ext, m.rtr), m.dlc, m.data)
    BY <1>2 DEF Received, socketcan_recv
  <2>2. /\ Received(to, m).can_id = can_id(m.id, m.ext, m.rtr)
        /\ Received(to, m).can_dlc = m.dlc
        /\ Received(to, m).data = m.data
    BY <2>1 DEF can_frame
  <2> QED BY <1>2, <2>2
<1>3. CASE to \in {"Kvaser", "PEAK"}
  <2>1. Received(to, m) = can_frame(can_id(m.id, FALSE, FALSE), m.dlc, m.data)
    BY <1>3 DEF Received, kvaser_recv, peak_recv
  <2>2. /\ Received(to, m).can_id = can_id(m.id, FALSE, FALSE)
        /\ Received(to, m).can_dlc = m.dlc
        /\ Received(to, m).data = m.data
    BY <2>1 DEF can_frame
  <2> QED BY <1>3, <2>2
<1>4. CASE to = "Ixxat"
  <2>1. Received(to, m) = can_frame(can_id(m.id, FALSE, FALSE), m.dlc, Copied(m.data, m.dlc))
    BY <1>4 DEF Received, ixxat_recv
  <2>2. /\ Received(to, m).can_id = can_id(m.id, FALSE, FALSE)
        /\ Received(to, m).can_dlc = m.dlc
        /\ Received(to, m).data = Copied(m.data, m.dlc)
    BY <2>1 DEF can_frame
  <2> QED BY <1>1, <1>4, <2>2
<1>5. CASE to = "Softing"
  <2>1. Received(to, m) = can_frame(can_id(m.id, m.ext, FALSE), m.dlc, Copied(m.data, m.dlc))
    BY <1>5 DEF Received, softing_recv
  <2>2. /\ Received(to, m).can_id = can_id(m.id, m.ext, FALSE)
        /\ Received(to, m).can_dlc = m.dlc
        /\ Received(to, m).data = Copied(m.data, m.dlc)
    BY <2>1 DEF can_frame
  <2> QED BY <1>1, <1>5, <2>2
<1> QED BY <1>2, <1>3, <1>4, <1>5 DEF Driver

LEMMA SameId ==
  ASSUME NEW x, NEW y \in BOOLEAN, NEW z \in BOOLEAN,
         NEW u, NEW v \in BOOLEAN, NEW w \in BOOLEAN
  PROVE  can_id(x, y, z) = can_id(u, v, w) <=> x = u /\ y = v /\ z = w
  BY DEF can_id

\* Whatever the identifier, the length and the payload: a frame is the same frame
\* behind two back-ends on one bus exactly if the two carry it.
THEOREM FramesCarried ==
  ASSUME NEW from \in Driver, NEW to \in Driver, NEW f \in struct_can_frame
  PROVE  SameFrame(f, Received(to, Sent(from, f))) <=> Carried(from, to, f)
<1> DEFINE m == Sent(from, f)
           g == Received(to, m)
<1>1. m.ext \in BOOLEAN /\ m.rtr \in BOOLEAN
  BY SentIs
<1>2. CASE to = "Softing" /\ m.rtr
  <2>1. g = NoFrame
    BY <1>2 DEF Received, softing_recv
  <2>2. g.can_dlc # f.can_dlc
    <3>1. NoFrame.can_dlc = -1
      BY DEF NoFrame, can_frame
    <3> QED BY <2>1, <3>1, FrameIs
  <2>3. from = "SocketCAN" /\ f.can_id.rtr
    BY <1>2, SentIs
  <2> QED BY <1>2, <2>2, <2>3 DEF SameFrame, Carried
<1>3. CASE to # "Softing" \/ ~m.rtr
  <2>1. PICK ext, rtr \in BOOLEAN :
          /\ g.can_id = can_id(m.id, ext, rtr)
          /\ ext <=> to \in {"SocketCAN", "Softing"} /\ m.ext
          /\ rtr <=> to = "SocketCAN" /\ m.rtr
    BY <1>1, <1>3, ReceivedIs
  <2>2. g.can_dlc = m.dlc /\ \A i \in Bytes : i < m.dlc => g.data[i] = m.data[i]
    BY <1>1, <1>3, ReceivedIs
  <2>3. m.dlc = f.can_dlc /\ \A i \in Bytes : i < f.can_dlc => m.data[i] = f.data[i]
    BY SentIs
  <2>4. SameFrame(f, g) <=> g.can_id = f.can_id
    BY <2>2, <2>3 DEF SameFrame
  <2>5. g.can_id = f.can_id <=>
          m.id = f.can_id.id /\ ext = f.can_id.eff /\ rtr = f.can_id.rtr
    <3> HIDE DEF m, g
    <3> QED BY <2>1, FrameIs, SameId
  <2>6. m.id = f.can_id.id /\ ext = f.can_id.eff /\ rtr = f.can_id.rtr
          <=> Carried(from, to, f)
    <3>1. /\ m.rtr <=> from = "SocketCAN" /\ f.can_id.rtr
          /\ ~f.can_id.rtr \/ from = "SocketCAN" =>
               (m.ext <=> f.can_id.eff /\ from \in {"SocketCAN", "Softing", "Ixxat"})
          /\ m.ext \/ ~f.can_id.eff => m.id = f.can_id.id
      BY SentIs
    <3> HIDE DEF m, g
    <3> QED BY <1>1, <1>3, <2>1, <3>1, FrameIs DEF Carried
  <2> QED BY <2>4, <2>5, <2>6
<1> QED BY <1>1, <1>2, <1>3

\* The frames of a run are among them.
THEOREM FramesAreKept == Spec => []FramesKept
<1>1. \A t \in Transfers : /\ t.from \in Driver /\ t.to \in Driver
                           /\ t.frame \in struct_can_frame
  <2> SUFFICES ASSUME NEW t \in Transfers
               PROVE  t.frame \in struct_can_frame
    BY DEF Transfers
  <2>1. PICK c \in CanId, n \in 0 .. 8 : t.frame = can_frame(c, n, [i \in Bytes |-> i + 1])
    BY DEF Transfers
  <2>2. c \in [id : Nat, eff : BOOLEAN, rtr : BOOLEAN] /\ (c.eff \/ c.id < SFF)
    BY SMT DEF CanId, SFF
  <2>3. [i \in Bytes |-> i + 1] \in [Bytes -> Nat] /\ n \in 0 .. CAN_MAX_DLEN
    BY DEF Bytes, CAN_MAX_DLEN
  <2> DEFINE d == [i \in Bytes |-> i + 1]
  <2> HIDE DEF d
  <2> QED BY <2>1, <2>2, <2>3 DEF d, struct_can_frame, can_frame
<1>2. ASSUME Init
      PROVE  FramesKept
  <2>1. CASE input \in Transfers
    BY <1>1, <2>1, FramesCarried DEF FramesKept
  <2>2. CASE input \notin Transfers
    BY <1>2, <2>2 DEF Init, FramesKept, Rates, Statuses
  <2> QED BY <2>1, <2>2
<1> QED BY <1>2, InputStays, PTL

-----------------------------------------------------------------------------
(* Baud rates *)

\* Every back-end programs the closest rate it has for every enumerator, but for the
\* two entries of Kvaser's that break ClosestRate.
THEOREM RatesAreClosest ==
  ASSUME NEW driver \in Driver, NEW b \in can_baudrate,
         ~(driver = "Kvaser" /\ b \in {95000, 33000})
  PROVE  \A q \in Offered(driver) : Distance(Programmed(driver, b), b) <= Distance(q, b)
<1>1. CASE driver = "SocketCAN"
  BY <1>1, SMT DEF Distance, Offered, Programmed, socketcan_bitrate, can_baudrate, OutOfEnum
<1>2. CASE driver = "Kvaser"
  BY <1>2, SMT DEF Distance, Offered, Programmed, baudrate_to_canlib, can_baudrate, OutOfEnum
<1>3. CASE driver = "PEAK"
  BY <1>3, SMT DEF Distance, Offered, Programmed, lookup_pcan_baudrate, can_baudrate,
     OutOfEnum
<1>4. CASE driver = "Ixxat"
  BY <1>4, SMT DEF Distance, Offered, Programmed, ixxat_baudrate_to_btr, can_baudrate,
     OutOfEnum
<1>5. CASE driver = "Softing"
  BY <1>5, SMT DEF Distance, Offered, Programmed, softing_baudrate_to_kbps, can_baudrate,
     OutOfEnum
<1> QED BY <1>1, <1>2, <1>3, <1>4, <1>5 DEF Driver

\* A rate that is in a back-end's table is met within 1.4 %, never from below; one
\* that is not is missed by more than 5 %.
LEMMA RateOf ==
  ASSUME NEW driver \in Driver, NEW b \in can_baudrate
  PROVE  LET p == Programmed(driver, b) IN
         /\ p \in Int /\ b \in Nat \ {0} /\ p > 0
         /\ b \notin Lacking(driver) => b <= p /\ 1000 * p <= 1014 * b
         /\ b \in Lacking(driver) => 10 * p <= 9 * b \/ 100 * p >= 105 * b
<1>1. CASE driver = "SocketCAN"
  BY <1>1, SMT DEF Lacking, Programmed, socketcan_bitrate, can_baudrate, OutOfEnum
<1>2. CASE driver = "Kvaser"
  <2>1. Programmed(driver, b) = baudrate_to_canlib(b)
    BY <1>2 DEF Programmed
  <2>2. Lacking(driver) = {800000, 95000, 47000, 33000, 20000, 5000}
    BY <1>2 DEF Lacking
  <2> QED BY <2>1, <2>2, SMT DEF baudrate_to_canlib, can_baudrate, OutOfEnum
<1>3. CASE driver = "PEAK"
  BY <1>3, SMT DEF Lacking, Programmed, lookup_pcan_baudrate, can_baudrate, OutOfEnum
<1>4. CASE driver = "Ixxat"
  <2>1. Programmed(driver, b) = ixxat_baudrate_to_btr(b)
    BY <1>4 DEF Programmed
  <2>2. Lacking(driver) = {95000, 47000, 33000}
    BY <1>4 DEF Lacking
  <2> QED BY <2>1, <2>2, SMT DEF ixxat_baudrate_to_btr, can_baudrate, OutOfEnum
<1>5. CASE driver = "Softing"
  BY <1>5, SMT DEF Lacking, Programmed, softing_baudrate_to_kbps, can_baudrate, OutOfEnum
<1> QED BY <1>1, <1>2, <1>3, <1>4, <1>5 DEF Driver

LEMMA OutsideEnum ==
  ASSUME NEW driver \in Driver
  PROVE  Programmed(driver, OutOfEnum) = 1000000 /\ OutOfEnum \notin Lacking(driver)
<1>1. CASE driver = "SocketCAN"
  BY <1>1, SMT DEF Lacking, Programmed, socketcan_bitrate, OutOfEnum
<1>2. CASE driver = "Kvaser"
  BY <1>2, SMT DEF Lacking, Programmed, baudrate_to_canlib, OutOfEnum
<1>3. CASE driver = "PEAK"
  BY <1>3, SMT DEF Lacking, Programmed, lookup_pcan_baudrate, OutOfEnum
<1>4. CASE driver = "Ixxat"
  BY <1>4, SMT DEF Lacking, Programmed, ixxat_baudrate_to_btr, OutOfEnum
<1>5. CASE driver = "Softing"
  BY <1>5, SMT DEF Lacking, Programmed, softing_baudrate_to_kbps, OutOfEnum
<1> QED BY <1>1, <1>2, <1>3, <1>4, <1>5 DEF Driver

\* What Kvaser and Ixxat make of the rates that both lack.
LEMMA LackedByTwo ==
  ASSUME NEW d \in Driver, NEW e \in Driver, d # e,
         NEW b \in Lacking(d) \cap Lacking(e)
  PROVE  /\ {d, e} = {"Kvaser", "Ixxat"}
         /\ OneBus(Programmed(d, b), Programmed(e, b)) <=> b = 47000
<1>1. {d, e} = {"Kvaser", "Ixxat"} /\ b \in {95000, 47000, 33000}
  BY DEF Lacking, Driver
<1>2. /\ Programmed("Kvaser", b) = baudrate_to_canlib(b)
      /\ Programmed("Ixxat", b) = ixxat_baudrate_to_btr(b)
  BY DEF Programmed
<1>3. CASE d = "Kvaser" /\ e = "Ixxat"
  BY <1>1, <1>2, <1>3, SMT
     DEF OneBus, Distance, baudrate_to_canlib, ixxat_baudrate_to_btr, OutOfEnum
<1>4. CASE d = "Ixxat" /\ e = "Kvaser"
  BY <1>1, <1>2, <1>4, SMT
     DEF OneBus, Distance, baudrate_to_canlib, ixxat_baudrate_to_btr, OutOfEnum
<1> QED BY <1>1, <1>3, <1>4

\* Of any two back-ends and any enumerator: they are on one bus exactly if both have
\* the rate, or both make the same of it.
THEOREM RatesAgree == Spec => []RatesInterwork
<1>1. ASSUME NEW d \in Driver, NEW e \in Driver, NEW b \in can_baudrate, d # e
      PROVE  OneBus(Programmed(d, b), Programmed(e, b))
               <=> \/ b \notin Lacking(d) \cup Lacking(e)
                   \/ {e, d} = {"Kvaser", "Ixxat"} /\ b = 47000
  <2> DEFINE p == Programmed(d, b)
             q == Programmed(e, b)
  <2>1. /\ p \in Int /\ q \in Int /\ b \in Int /\ p > 0 /\ q > 0 /\ b > 0
        /\ b \notin Lacking(d) => b <= p /\ 1000 * p <= 1014 * b
        /\ b \notin Lacking(e) => b <= q /\ 1000 * q <= 1014 * b
        /\ b \in Lacking(d) => 10 * p <= 9 * b \/ 100 * p >= 105 * b
        /\ b \in Lacking(e) => 10 * q <= 9 * b \/ 100 * q >= 105 * b
    BY RateOf
  <2>2. 47000 \in Lacking("Kvaser") \cap Lacking("Ixxat")
    BY DEF Lacking
  <2>3. CASE b \in Lacking(d) \cap Lacking(e)
    BY <1>1, <2>3, LackedByTwo
  <2>4. CASE b \notin Lacking(d) \cup Lacking(e)
    <3> HIDE DEF p, q
    <3>1. OneBus(p, q)
      BY <2>1, <2>4, SMT DEF OneBus, Distance
    <3> QED BY <2>4, <3>1 DEF p, q
  <2>5. CASE b \in Lacking(d) \ Lacking(e) \/ b \in Lacking(e) \ Lacking(d)
    <3> HIDE DEF p, q
    <3>1. ~OneBus(p, q)
      BY <2>1, <2>5, SMT DEF OneBus, Distance
    <3>2. ~({e, d} = {"Kvaser", "Ixxat"} /\ b = 47000)
      BY <2>2, <2>5
    <3> QED BY <2>5, <3>1, <3>2 DEF p, q
  <2> QED BY <2>3, <2>4, <2>5
<1>2. ASSUME NEW d \in Driver, NEW b \in can_baudrate \cup {OutOfEnum}
      PROVE  Programmed(d, b) \in Int /\ Programmed(d, b) > 0
  BY RateOf, OutsideEnum, SMT
<1>3. ASSUME NEW n \in Int, n > 0
      PROVE  OneBus(n, n)
  BY <1>3, SMT DEF OneBus, Distance
<1>4. ASSUME NEW r \in Rates, input = r
      PROVE  RatesInterwork
  <2>1. r.driver \in Driver /\ r.baud \in can_baudrate \cup {OutOfEnum}
    BY DEF Rates
  <2> SUFFICES ASSUME NEW other \in Driver
               PROVE  OneBus(Programmed(r.driver, r.baud), Programmed(other, r.baud))
                        <=> \/ other = r.driver
                            \/ r.baud \notin Lacking(r.driver) \cup Lacking(other)
                            \/ {other, r.driver} = {"Kvaser", "Ixxat"} /\ r.baud = 47000
    BY <1>4 DEF RatesInterwork
  <2>2. CASE other = r.driver
    BY <1>2, <1>3, <2>1, <2>2
  <2>3. CASE r.baud = OutOfEnum
    BY <1>3, <2>1, <2>3, OutsideEnum
  <2>4. CASE other # r.driver /\ r.baud \in can_baudrate
    BY <1>1, <2>1, <2>4
  <2> QED BY <2>1, <2>2, <2>3, <2>4
<1>5. ASSUME Init
      PROVE  RatesInterwork
  <2>1. CASE input \notin Rates
    BY <1>5, <2>1, SMT DEF Init, RatesInterwork, Transfers, Statuses
  <2> QED BY <1>4, <2>1
<1> QED BY <1>5, InputStays, PTL

-----------------------------------------------------------------------------
(* Error texts *)

\* Each of the five shared codes is another set of the three bits, none of which
\* is the bit of another code.
LEMMA CodesAre ==
  /\ DOMAIN Shared = {"HWINUSE", "NETINUSE", "ILLHW", "ILLNET", "ILLCLIENT"}
  /\ DOMAIN Shared \subseteq Code
  /\ \A c \in Code : c \notin {"0x400", "0x800", "0x1000"}
  /\ \A c \in DOMAIN Shared :
       /\ Shared[c] \subseteq {"0x400", "0x800", "0x1000"}
       /\ Shared[c] # {}
       /\ \A d \in DOMAIN Shared \ {c} : Shared[d] # Shared[c]
  /\ Shared.ILLCLIENT = {"0x400", "0x800", "0x1000"}
<1>1. DOMAIN Shared = {"HWINUSE", "NETINUSE", "ILLHW", "ILLNET", "ILLCLIENT"}
  BY DEF Shared
<1>2. DOMAIN Shared \subseteq Code /\ \A c \in Code : c \notin {"0x400", "0x800", "0x1000"}
  BY <1>1 DEF Code, Length
<1>3. /\ Shared.HWINUSE = {"0x400"} /\ Shared.NETINUSE = {"0x800"}
      /\ Shared.ILLHW = {"0x400", "0x1000"} /\ Shared.ILLNET = {"0x800", "0x1000"}
      /\ Shared.ILLCLIENT = {"0x400", "0x800", "0x1000"}
  BY DEF Shared
<1> QED BY <1>1, <1>2, <1>3

\* For every set of conditions, with one at most of those that share bits: the
\* status that has their bits is reported as these conditions.
THEOREM TextsReported ==
  ASSUME NEW conditions \in SUBSET Code,
         \A c, d \in conditions \cap DOMAIN Shared : c = d
  PROVE  Reported(status(conditions)) = conditions
<1> DEFINE bits == {"0x400", "0x800", "0x1000"}
           st == status(conditions)
<1>1. ASSUME NEW c \in Code \ DOMAIN Shared
      PROVE  st \cap mask(c) = value(c) <=> c \in conditions
  <2>1. mask(c) = {c} /\ value(c) = {c}
    BY DEF mask, value
  <2>2. c \in st <=> c \in conditions
    <3>1. ASSUME NEW d \in conditions
          PROVE  c \in value(d) <=> c = d
      BY <1>1, CodesAre DEF value
    <3> QED BY <3>1 DEF status
  <2> QED BY <2>1, <2>2
<1>2. ASSUME NEW c \in DOMAIN Shared
      PROVE  st \cap mask(c) = value(c) <=> c \in conditions
  <2>1. mask(c) = bits /\ value(c) = Shared[c]
    BY CodesAre DEF mask, value
  <2>2. \A d \in conditions \ DOMAIN Shared : value(d) \cap bits = {}
    BY CodesAre DEF value
  <2>3. CASE \E d \in conditions : d \in DOMAIN Shared
    <3>1. PICK d \in conditions : d \in DOMAIN Shared
      BY <2>3
    <3>2. st \cap bits = Shared[d]
      BY <2>2, <3>1, CodesAre DEF status, value
    <3> QED BY <2>1, <3>1, <3>2, CodesAre
  <2>4. CASE \A d \in conditions : d \notin DOMAIN Shared
    <3>1. st \cap bits = {}
      BY <2>2, <2>4 DEF status
    <3> QED BY <2>1, <2>4, <3>1, CodesAre
  <2> QED BY <2>3, <2>4
<1> QED BY <1>1, <1>2, CodesAre DEF Reported

\* The conditions of a run are among them.
THEOREM TextsAreExact == Spec => []ErrorTextExact
<1>1. ASSUME NEW s \in Statuses
      PROVE  /\ s.conditions \in SUBSET Code
             /\ \A c, d \in s.conditions \cap DOMAIN Shared : c = d
  <2> DEFINE Sets == {{}, Own} \cup UNION {kSubset(n, Own) : n \in 1 .. 2}
             Odd == {{}} \cup {{c} : c \in DOMAIN Shared}
  <2>1. PICK o \in Sets, e \in Odd : s.conditions = o \cup e
    <3>1. Statuses = [kind : {"status"}, conditions : {o \cup e : o \in Sets, e \in Odd}]
      BY DEF Statuses
    <3> HIDE DEF Sets, Odd
    <3> QED BY <3>1
  <2>2. o \subseteq Own
    BY DEF kSubset
  <2> QED BY <2>1, <2>2, CodesAre DEF Own
<1>2. ASSUME Init
      PROVE  ErrorTextExact
  <2>1. CASE input \in Statuses
    BY <1>1, <2>1, TextsReported DEF ErrorTextExact
  <2>2. CASE input \notin Statuses
    BY <1>2, <2>2 DEF Init, ErrorTextExact, Rates, Transfers
  <2> QED BY <2>1, <2>2
<1> QED BY <1>2, InputStays, PTL

-----------------------------------------------------------------------------
(* Time stamps *)

\* What PCAN-Basic gives with a message: it counts the wraps of millis.
TPCANTimestamp(MillisWidth) ==
  [millis_overflow : Nat, millis : 0 .. MillisWidth - 1, micros : 0 .. 999]

Before(s, t) ==
  \/ s.millis_overflow < t.millis_overflow
  \/ s.millis_overflow = t.millis_overflow /\ s.millis < t.millis
  \/ s.millis_overflow = t.millis_overflow /\ s.millis = t.millis /\ s.micros < t.micros

Stamp(s, MillisWidth) ==
  peak_timestamp(s.millis_overflow, s.millis, s.micros, MillisWidth)

\* Multiplication keeps an order by at least one multiple.
LEMMA NextMultiple ==
  ASSUME NEW k \in Nat, NEW m \in Nat, NEW n \in Nat, m < n
  PROVE  k * m + k <= k * n
<1>1. PICK d \in Nat : n = m + 1 + d
  <2>1. n - m - 1 \in Nat /\ n = m + 1 + (n - m - 1)
    OBVIOUS
  <2> QED
    BY <2>1
<1>2. k * n = k * m + k + k * d
  BY <1>1
<1>3. k * d \in Nat
  OBVIOUS
<1>4. k * m \in Nat /\ k * n \in Nat
  OBVIOUS
<1> QED
  BY <1>2, <1>3, <1>4

\* A message that PCAN-Basic stamps later gets a larger time stamp from
\* peak_recv, also when the count of milliseconds has wrapped in between
\* (CANvenient_PEAK.c:271).
THEOREM TimestampsOrdered ==
  ASSUME NEW W \in Nat,
         NEW s \in TPCANTimestamp(W), NEW t \in TPCANTimestamp(W),
         Before(s, t)
  PROVE  Stamp(s, W) < Stamp(t, W)
<1> DEFINE low(r) == r.micros + 1000 * r.millis
           high(r) == W * 1000 * r.millis_overflow
<1>1. \A r \in TPCANTimestamp(W) :
        /\ low(r) \in Nat /\ low(r) < W * 1000
        /\ high(r) \in Nat
        /\ Stamp(r, W) = low(r) + high(r)
  <2> SUFFICES ASSUME NEW r \in TPCANTimestamp(W)
               PROVE  /\ low(r) \in Nat /\ low(r) < W * 1000
                      /\ high(r) \in Nat
                      /\ Stamp(r, W) = low(r) + high(r)
    OBVIOUS
  <2>1. /\ r.millis_overflow \in Nat
        /\ r.millis \in Nat /\ r.millis + 1 <= W
        /\ r.micros \in Nat /\ r.micros <= 999
    BY DEF TPCANTimestamp
  <2>2. low(r) \in Nat /\ low(r) < W * 1000
    BY <2>1
  <2>3. W * 1000 \in Nat /\ high(r) \in Nat
    BY <2>1
  <2>4. Stamp(r, W) = low(r) + high(r)
    BY <2>1 DEF Stamp, peak_timestamp
  <2> QED
    BY <2>2, <2>3, <2>4
<1>2. CASE s.millis_overflow < t.millis_overflow
  <2>1. s.millis_overflow \in Nat /\ t.millis_overflow \in Nat
    BY DEF TPCANTimestamp
  <2>2. W * 1000 \in Nat
    OBVIOUS
  <2>3. high(s) + W * 1000 <= high(t)
    BY <1>2, <2>1, <2>2, NextMultiple
  <2> HIDE DEF low, high
  <2> QED
    BY <1>1, <2>2, <2>3
<1>3. CASE s.millis_overflow = t.millis_overflow /\ low(s) < low(t)
  <2>1. high(s) = high(t)
    BY <1>3
  <2> HIDE DEF low, high
  <2> QED
    BY <1>1, <1>3, <2>1
<1>4. \/ s.millis_overflow < t.millis_overflow
      \/ s.millis_overflow = t.millis_overflow /\ low(s) < low(t)
  <2>1. /\ s.millis_overflow \in Nat
        /\ s.millis \in Nat /\ s.micros \in Nat /\ s.micros <= 999
    BY DEF TPCANTimestamp
  <2>2. /\ t.millis_overflow \in Nat
        /\ t.millis \in Nat /\ t.micros \in Nat /\ t.micros <= 999
    BY DEF TPCANTimestamp
  <2>3. CASE s.millis < t.millis
    BY <2>1, <2>2, <2>3 DEF Before
  <2> QED
    BY <2>1, <2>2, <2>3 DEF Before
<1> QED
  BY <1>2, <1>3, <1>4
=============================================================================
