----------------------------- MODULE BlobStore ------------------------------
(***************************************************************************)
(* What a container promises: a list of blobs, each with an id and data,   *)
(* is written once, from the first to the last, and can then be read as    *)
(* often as one likes. Reading an undamaged store returns exactly what was *)
(* written. If data was damaged, a blob that ends with success was still   *)
(* read as it was written.                                                 *)
(***************************************************************************)
EXTENDS Integers, Sequences, SequencesExt

VARIABLES
  phase,    \* "empty", "writing" or "closed"
  blobs,    \* the finished blobs, records of id and data
  open,     \* the blobs being written: none or one
  damaged,  \* data changed behind the container's back
  trusting, \* the reader does not want data checked
  reading,  \* number of the blob being read, 0 for none
  id,       \* the id that was returned for it
  got,      \* what was read of it
  verdict   \* how the last blob that was read ended: "none", "good", "bad"

vars == <<phase, blobs, open, damaged, trusting, reading, id, got, verdict>>
writer == <<phase, blobs, open, damaged>>
reader == <<trusting, reading, id, got, verdict>>

(* A reader that has just come knows nothing. *)
NewReader ==
  trusting' \in BOOLEAN /\ reading' = 0 /\ id' = 0 /\ got' = <<>> /\ verdict' = "none"

Init ==
  /\ phase = "empty" /\ blobs = <<>> /\ open = <<>>
  /\ damaged = FALSE /\ trusting \in BOOLEAN
  /\ reading = 0 /\ id = 0 /\ got = <<>> /\ verdict = "none"

Begin ==
  /\ phase' = "writing" /\ blobs' = <<>> /\ open' = <<>> /\ damaged' = FALSE
  /\ reading = 0
  /\ UNCHANGED reader

StartWrite ==
  /\ phase = "writing" /\ open = <<>>
  /\ Len(open') = 1 /\ open'[1].data = <<>>
  /\ UNCHANGED <<phase, blobs, damaged, reader>>

Write ==
  /\ Len(open) = 1 /\ Len(open') = 1
  /\ open'[1].id = open[1].id
  /\ IsPrefix(open[1].data, open'[1].data)
  /\ UNCHANGED <<phase, blobs, damaged, reader>>

EndWrite ==
  /\ Len(open) = 1
  /\ blobs' = blobs \o open /\ open' = <<>>
  /\ UNCHANGED <<phase, damaged, reader>>

(* Closing ends the blob that is open. *)
Close ==
  /\ phase = "writing" /\ phase' = "closed"
  /\ blobs' = blobs \o open /\ open' = <<>>
  /\ NewReader \/ UNCHANGED reader
  /\ UNCHANGED damaged

Reopen ==
  /\ phase # "writing"
  /\ NewReader
  /\ UNCHANGED writer

OpenBlob ==
  /\ phase = "closed" /\ reading = 0
  /\ reading' \in DOMAIN blobs
  /\ id' = blobs[reading'].id /\ got' = <<>> /\ verdict' = "none"
  /\ UNCHANGED <<writer, trusting>>

Read ==
  /\ reading > 0
  /\ IsPrefix(got, got')
  /\ Len(got') <= Len(blobs[reading].data)
  /\ ~damaged => IsPrefix(got', blobs[reading].data)
  /\ UNCHANGED <<writer, trusting, reading, id, verdict>>

(* The next blob is not opened by the end of this one. *)
EndsWell ==
  /\ reading > 0 /\ reading' = 0 /\ verdict' = "good"
  /\ (trusting /\ damaged) \/ got = blobs[reading].data
  /\ UNCHANGED <<writer, trusting, id, got>>

EndsBadly ==
  /\ reading > 0 /\ reading' = 0 /\ verdict' = "bad" /\ damaged
  /\ UNCHANGED <<writer, trusting, id, got>>

Damage ==
  /\ phase # "empty" /\ damaged' = TRUE
  /\ UNCHANGED <<phase, blobs, open, reader>>

Next ==
  \/ Begin \/ StartWrite \/ Write \/ EndWrite \/ Close \/ Reopen
  \/ OpenBlob \/ Read \/ EndsWell \/ EndsBadly \/ Damage

Spec == Init /\ [][Next]_vars
=============================================================================
