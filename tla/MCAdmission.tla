----------------------------- MODULE MCAdmission -----------------------------
(* Instances of Admission for TLC.                                         *)
EXTENDS Admission

\* 16 and 16 GB, and 16 and 32 GB.
MCTotal == [d \in Devices |-> IF d = 2 THEN 16 ELSE 8]
MCReserve == [d \in Devices |-> 1]
MCLevels == [d \in Devices |-> CASE d = Primary -> {3, 5} [] d = 1 -> {3, 5} [] d = 2 -> {8}]
MCChunks == <<2, 1>>

Request(shape, audio, long, sol, minimum, fixed, unit) ==
  [shape |-> shape, audio |-> audio, long |-> long, sol |-> sol, minimum |-> minimum,
   fixed0 |-> fixed, fixed1 |-> 1, unit |-> unit, prepare |-> 2, prepareUnit |-> 0,
   staged |-> 1, stagedUnit |-> 1]

\* A long exact call, one with rows of audio that need more for each head, and
\* a sparse one of the same tokens.
MCRequests ==
  {Request("long", 0, TRUE, FALSE, 1, 1, 1), Request("long", 1, TRUE, FALSE, 1, 1, 2),
   Request("long", 0, TRUE, TRUE, 1, 2, 1)}
=============================================================================
