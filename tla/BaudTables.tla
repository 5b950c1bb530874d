----------------------------- MODULE BaudTables -----------------------------
(***************************************************************************)
(* The bit rate, in bit/s, that every back-end programs for a value of     *)
(* enum can_baudrate.  The enumeration is known by the rates it names; a   *)
(* value outside it (can_open takes any) is OutOfEnum.                     *)
(***************************************************************************)
EXTENDS Integers

OutOfEnum == -1

can_baudrate == {1000000, 800000, 500000, 250000, 125000, 100000, 95000, 83000,
                 50000, 47000, 33000, 20000, 10000, 5000}

\* The switch of socketcan_set_baudrate.
socketcan_bitrate(b) == IF b = OutOfEnum THEN 1000000 ELSE b

\* baudrate_to_canlib: CANlib has no constant for seven of the rates.
baudrate_to_canlib(b) ==
  CASE b \in {OutOfEnum, 800000} -> 1000000
    [] b \in {95000, 83000}      -> 83333
    [] b = 47000                 -> 50000
    [] b = 33000                 -> 62500
    [] b \in {20000, 5000}       -> 10000
    [] OTHER                     -> b

\* lookup_pcan_baudrate; the odd rates are those an 8 MHz clock divides into.
lookup_pcan_baudrate(b) ==
  CASE b = OutOfEnum -> 1000000
    [] b = 95000     -> 95238
    [] b = 83000     -> 83333
    [] b = 47000     -> 47619
    [] b = 33000     -> 33333
    [] OTHER         -> b

\* Mutant: a missing break takes 83K on to the 50K below it.
ixxat_baudrate_to_btr_NoBreak(b) ==
  CASE b = OutOfEnum                     -> 1000000
    [] b = 95000                         -> 100000
    [] b \in {83000, 50000, 47000}       -> 50000
    [] b = 33000                         -> 20000
    [] OTHER                             -> b

\* ixxat_baudrate_to_btr: 0x0B, 0x14 are 12 clocks of 8 MHz times 8 quanta.
ixxat_baudrate_to_btr(b) ==
  CASE b = OutOfEnum -> 1000000
    [] b = 95000     -> 100000
    [] b = 83000     -> 83333
    [] b = 47000     -> 50000
    [] b = 33000     -> 20000
    [] OTHER         -> b

\* softing_baudrate_to_kbps, in bit/s.
softing_baudrate_to_kbps(b) ==
  CASE b = OutOfEnum -> 1000000
    [] b = 95000     -> 95238
    [] b = 83000     -> 83333
    [] b = 47000     -> 47619
    [] b = 33000     -> 33333
    [] OTHER         -> b

Programmed(driver, b) ==
  CASE driver = "SocketCAN" -> socketcan_bitrate(b)
    [] driver = "Kvaser"    -> baudrate_to_canlib(b)
    [] driver = "PEAK"      -> lookup_pcan_baudrate(b)
    [] driver = "Ixxat"     -> ixxat_baudrate_to_btr(b)
    [] driver = "Softing"   -> softing_baudrate_to_kbps(b)

\* The rates the driver's library has a constant or a table entry for that the
\* back-end uses at all.
Offered(driver) == {Programmed(driver, b) : b \in can_baudrate}
=============================================================================
