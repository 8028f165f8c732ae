------------------------------ MODULE MCProcess ------------------------------
(* Small instances of Process. *)
EXTENDS Process

Both == {"out", "err"}
JustOut == {"out"}
=============================================================================
