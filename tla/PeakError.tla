----------------------------- MODULE PeakError ------------------------------
(***************************************************************************)
(* lookup_error_string of the PEAK back-end: which texts it joins for a    *)
(* TPCANStatus, a set of bits here, and how much of its buffer they take.  *)
(* Most codes are a bit of their own, called as the code is; five share    *)
(* the bits 0x400, 0x800 and 0x1000.                                       *)
(***************************************************************************)
EXTENDS Integers, FiniteSets, FiniteSetsExt

\* Mutant: half the buffer.
BufSize_Half == 512

BufSize == 1024   \* sizeof(error_buf)

Shared == [HWINUSE   |-> {"0x400"},
           NETINUSE  |-> {"0x800"},
           ILLHW     |-> {"0x400", "0x1000"},
           ILLNET    |-> {"0x800", "0x1000"},
           ILLCLIENT |-> {"0x400", "0x800", "0x1000"}]

\* The length of every text of error_table.
Length ==
  [XMTFULL |-> 42, OVERRUN |-> 33, BUSLIGHT |-> 54, BUSHEAVY |-> 54,
   BUSPASSIVE |-> 47, BUSOFF |-> 50, QRCVEMPTY |-> 23, QOVERRUN |-> 32,
   QXMTFULL |-> 23, REGTEST |-> 73, NODRIVER |-> 18, HWINUSE |-> 43,
   NETINUSE |-> 51, ILLHW |-> 32, ILLNET |-> 27, ILLCLIENT |-> 30,
   RESOURCE |-> 51, ILLPARAMTYPE |-> 18, ILLPARAMVAL |-> 24, UNKNOWN |-> 14,
   ILLDATA |-> 34, ILLMODE |-> 57, CAUTION |-> 44, INITIALIZE |-> 27,
   ILLOPERATION |-> 18]

Code == DOMAIN Length

value(c) == IF c \in DOMAIN Shared THEN Shared[c] ELSE {c}

\* Mutant: every code is matched against its own bits only.
mask_OwnBits(c) == value(c)

mask(c) == IF c \in DOMAIN Shared THEN Shared.ILLCLIENT ELSE {c}

Reported(status) == {c \in Code : status \cap mask(c) = value(c)}

\* What offset is after the loop: the texts, and "; " between any two of them.
offset(status) ==
  MapThenSumSet(LAMBDA c : Length[c], Reported(status))
    + 2 * (IF Reported(status) = {} THEN 0 ELSE Cardinality(Reported(status)) - 1)
=============================================================================
