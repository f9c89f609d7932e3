--------------------------- MODULE MCMlpChunking ---------------------------
(* Instances of MlpChunking for TLC.                                       *)
EXTENDS MlpChunking

Option(adaptive, experimental, controller, fixed) ==
  [adaptive |-> adaptive, experimental |-> experimental,
   controller |-> controller, rows |-> fixed]

\* Adaptive with and without Dynamic VBAR, the ordinary path, fixed rows.
MCOptions == {Option(TRUE, TRUE, TRUE, 8), Option(TRUE, TRUE, FALSE, 8),
              Option(TRUE, FALSE, TRUE, 8), Option(FALSE, TRUE, TRUE, 8)}
=============================================================================
