---------------------------- MODULE MCTcpConnect ----------------------------
(* Small instances of TcpConnect. Descriptor 0 is open all the time, as it   *)
(* is in a program that keeps its standard input.                            *)
EXTENDS TcpConnect

ThreeFds == 1 .. 3
TwoFds == 1 .. 2
FromZero == 0 .. 3
=============================================================================
