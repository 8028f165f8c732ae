------------------------------ MODULE MCPipeEx ------------------------------
(* Small instances of PipeEx, around a pipe that holds three bytes. *)
EXTENDS PipeEx

PipeSize == 3
OneByte  == 1
Part     == 2
Large    == PipeSize + 1   \* does not fit: the write blocks half way

AnySize  == {OneByte, Part, Large}
Reads    == {OneByte, PipeSize}
OnlyLarge == {Large}
FitSizes  == {OneByte, Part}
=============================================================================
