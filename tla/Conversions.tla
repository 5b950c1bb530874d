---------------------------- MODULE Conversions -----------------------------
(***************************************************************************)
(* The pure conversions of the back-ends, each over every case its         *)
(* definition tells apart: a state is an input, and the properties relate  *)
(* it to the output.                                                       *)
(***************************************************************************)
EXTENDS BaudTables, Frames, PeakError

VARIABLE input

Driver == {"SocketCAN", "Kvaser", "PEAK", "Ixxat", "Softing"}

Rates == [kind : {"rate"}, driver : Driver, baud : can_baudrate \cup {OutOfEnum}]

\* Both sides of every boundary of the identifier, and every length; a standard
\* frame has a standard identifier.
CanId ==
  {c \in [id : {0, SFF - 1, SFF, 536870911}, eff : BOOLEAN, rtr : BOOLEAN] :
     c.eff \/ c.id < SFF}

Transfers ==
  [kind : {"transfer"}, from : Driver, to : Driver,
   frame : {can_frame(c, n, [i \in Bytes |-> i + 1]) : c \in CanId, n \in 0 .. 8}]

\* Up to two conditions of a bit of their own, or all of them, and at most one of
\* the codes that share bits.
Own == Code \ DOMAIN Shared
Statuses ==
  [kind : {"status"},
   conditions : {o \cup s : o \in {{}, Own} \cup UNION {kSubset(n, Own) : n \in 1 .. 2},
                            s \in {{}} \cup {{c} : c \in DOMAIN Shared}}]

Init == input \in Rates \cup Transfers \cup Statuses

Next == UNCHANGED input

Spec == Init /\ [][Next]_input

-----------------------------------------------------------------------------
Distance(a, b) == IF a < b THEN b - a ELSE a - b

\* A back-end whose hardware lacks a rate programs the closest of those it has, as
\* the comments of baudrate_to_canlib say ("closest predefined").
ClosestRate ==
  input.kind = "rate" /\ input.baud # OutOfEnum =>
    \A q \in Offered(input.driver) :
      Distance(Programmed(input.driver, input.baud), input.baud) <= Distance(q, input.baud)

\* The rates a back-end has no entry of its own for.
Lacking(driver) ==
  CASE driver = "Kvaser" -> {800000, 95000, 47000, 33000, 20000, 5000}
    [] driver = "Ixxat"  -> {95000, 47000, 33000}
    [] OTHER             -> {}

\* Controllers make up for a difference of 1.5 % on one bus.
OneBus(p, q) == 1000 * Distance(p, q) <= 15 * p

\* Two programs that open one bus with the same enumerator through two back-ends
\* hear each other exactly if both have the rate, or both make the same of it: of
\* 47K Kvaser and Ixxat make 50K.  A value outside the enumeration is 1 Mbit/s to all.
RatesInterwork ==
  input.kind = "rate" =>
    \A other \in Driver :
      OneBus(Programmed(input.driver, input.baud), Programmed(other, input.baud))
        <=> \/ other = input.driver
            \/ input.baud \notin Lacking(input.driver) \cup Lacking(other)
            \/ {other, input.driver} = {"Kvaser", "Ixxat"} /\ input.baud = 47000

\* Between which back-ends a frame is still itself: a standard data frame between
\* any two; an extended data frame, sent by a back-end that knows the format and
\* received by one that gives CAN_EFF_FLAG back; any frame between two of SocketCAN.
Carried(from, to, f) ==
  \/ ~f.can_id.eff /\ ~f.can_id.rtr
  \/ /\ f.can_id.eff /\ ~f.can_id.rtr
     /\ from \in {"SocketCAN", "Softing", "Ixxat"}
     /\ to \in {"SocketCAN", "Softing"}
  \/ from = "SocketCAN" /\ to = "SocketCAN"

\* A frame sent through one back-end and received through another, on one bus,
\* is the same frame exactly if the two carry it.
FramesKept ==
  input.kind = "transfer" =>
    (SameFrame(input.frame, Received(input.to, Sent(input.from, input.frame)))
       <=> Carried(input.from, input.to, input.frame))

status(conditions) == UNION {value(c) : c \in conditions}

\* The texts say what the status says, no code more although five share bits.
ErrorTextExact ==
  input.kind = "status" => Reported(status(input.conditions)) = input.conditions

\* The texts fit the buffer, however many conditions there are: the size that is
\* left for snprintf never wraps.
ErrorTextFits ==
  input.kind = "status" => offset(status(input.conditions)) < BufSize
=============================================================================
