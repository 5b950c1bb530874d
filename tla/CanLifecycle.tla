---------------------------- MODULE CanLifecycle ----------------------------
(***************************************************************************)
(* What the public interface of CANvenient promises about its indices,     *)
(* with no table, no driver and no operating system: an index stands for   *)
(* at most one device, and is free, or registered and closed, or           *)
(* registered and open.  The driver modules are shown to implement this.   *)
(***************************************************************************)
EXTENDS Integers

CONSTANTS
  MaxInterfaces, Device, NULL,
  Whole,   \* devices that stand for others as well; none in most back-ends
  Part     \* those they may stand for

VARIABLES
  device,   \* the device an index stands for, NULL when it is free
  open      \* the indices whose device is open

vars == <<device, open>>

Index == 0 .. MaxInterfaces - 1

Init ==
  /\ device = [i \in Index |-> NULL]
  /\ open = {}

\* Discovery gives a new device the lowest free index and leaves it closed.
Register(i, n) ==
  /\ device[i] = NULL
  /\ \A j \in Index : device[j] # n /\ (j < i => device[j] # NULL)
  /\ device' = [device EXCEPT ![i] = n]
  /\ UNCHANGED open

\* can_open succeeded.
Open(i) ==
  /\ device[i] # NULL
  /\ open' = open \cup {i}
  /\ UNCHANGED device

\* can_close, or an attempt to reopen that failed.
Close(i) ==
  /\ open' = open \ {i}
  /\ UNCHANGED device

\* can_release and can_update free one index, can_release_interfaces and the
\* end of the process free them all.
Release(S) ==
  /\ device' = [i \in Index |-> IF i \in S THEN NULL ELSE device[i]]
  /\ open' = open \ S

\* To close or to free the index of a device in Whole may close, and never frees,
\* those of devices in Part.
ClosedWith(i) ==
  /\ device[i] \in Whole
  /\ \E S \in SUBSET {j \in Index : device[j] \in Part} : open' = open \ ({i} \cup S)

CloseWhole(i) == ClosedWith(i) /\ UNCHANGED device

ReleaseWhole(i) == ClosedWith(i) /\ device' = [device EXCEPT ![i] = NULL]

Next ==
  \/ \E i \in Index : CloseWhole(i) \/ ReleaseWhole(i)
  \/ \E i \in Index : Open(i) \/ Close(i) \/ Release({i})
  \/ \E i \in Index, n \in Device : Register(i, n)
  \/ Release(Index)

Spec == Init /\ [][Next]_vars
=============================================================================
