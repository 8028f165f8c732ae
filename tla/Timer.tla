------------------------------- MODULE Timer --------------------------------
(***************************************************************************)
(* MpoTimerUtil on unix: a clock in milliseconds in an unsigned number,    *)
(* made of the system's seconds, of which only the low bits are kept.      *)
(* Times are in milliseconds since some moment. The code has 1000          *)
(* milliseconds, 2^22 seconds and 2^32 values of an unsigned int.          *)
(***************************************************************************)
EXTENDS Integers

CONSTANTS
  PerSecond,    \* milliseconds in a second
  SecondsKept,  \* seconds until the ones that are kept begin again
  Unsigned      \* values of an unsigned int

ASSUME TimerAssumption ==
  /\ PerSecond \in Nat \ {0} /\ SecondsKept \in Nat \ {0} /\ Unsigned \in Nat
  /\ PerSecond * SecondsKept <= Unsigned

(* mutant: the milliseconds are masked instead of the seconds *)
MaskedTooLate(time) == time % SecondsKept

RefreshTimer(time) ==
  ((time \div PerSecond) % SecondsKept) * PerSecond + (time % PerSecond)

GetElapsedMs(old, time) == (RefreshTimer(time) - old) % Unsigned

(* The time after which the clock begins again, 48 days and a half. *)
Period == PerSecond * SecondsKept
=============================================================================
