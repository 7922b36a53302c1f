----------------------------- MODULE StreamCopy -----------------------------
(***************************************************************************)
(* What a port that brings a file or an answer promises to the program     *)
(* that reads it, without chunks, polls, threads or connections: each      *)
(* transfer copies one source from its beginning; nothing is skipped,      *)
(* doubled or taken from another transfer; and the program is told that it *)
(* is done when it has everything, or when the source broke off.           *)
(*   HttpTransfer, FileTransfer and OpenAIStream implement it.             *)
(***************************************************************************)
EXTENDS Naturals, Sequences, SequencesExt

CONSTANT Filler  \* what a read brings where the source broke off

VARIABLES
  transfer,  \* how many transfers there were
  source,    \* what there is to read in this one
  closed,    \* how the source ended: "no" (not yet), "well", "badly"
  copy,      \* what the program has of it
  report,    \* what the program was told: "open", "done", "failed"
  spoiled    \* the source was changed under the reader: nothing is promised

vars == <<transfer, source, closed, copy, report, spoiled>>

Init == copy = <<>> /\ report = "open"

\* A transfer begins with nothing, whatever became of the one before it.
Begin == transfer' = transfer + 1 /\ copy' = <<>> /\ report' = "open"

Grow == /\ closed = "no" /\ IsPrefix(source, source')
        /\ UNCHANGED <<transfer, closed, copy, report, spoiled>>

Close == /\ closed = "no" /\ closed' \in {"well", "badly"}
         /\ UNCHANGED <<transfer, source, copy, report, spoiled>>

\* The program reads on; it may be told the end with the last of it, or on its own; and it
\* may stop, or be told to, at any time.
Read ==
  /\ report = "open" /\ ~spoiled
  /\ IsPrefix(copy, copy') /\ IsPrefix(copy', source)
  /\ \/ report' \in {"open", "failed"}
     \/ report' = "done" /\ closed = "well" /\ copy' = source
  /\ UNCHANGED <<transfer, source, closed, spoiled>>

\* Behind what there was of a source that broke off.
ReadBehind ==
  /\ report = "open" /\ ~spoiled /\ closed = "badly"
  /\ \/ copy' = Append(copy, Filler) /\ report' = "open"
     \/ copy' = copy /\ report' \in {"done", "failed"}
  /\ UNCHANGED <<transfer, source, closed, spoiled>>

Spoil == spoiled' = TRUE /\ UNCHANGED <<transfer, copy, report>>

Unpromised == spoiled /\ spoiled' /\ UNCHANGED transfer

Next == Begin \/ Grow \/ Close \/ Read \/ ReadBehind \/ Spoil \/ Unpromised

Spec == Init /\ [][Next]_vars
=============================================================================
