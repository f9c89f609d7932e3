--------------------------- MODULE MCSolAdmission ---------------------------
(* Values for the constants of SolAdmission.                               *)
EXTENDS SolAdmission

MCProtected == {0}
MCCalibration == {1, 3}
MCQualified == {"clip", "talk"}
MCAudioHeavy == {"talk"}

Setting(profile, first, last, readable, fingerprint) ==
  [profile |-> profile, start |-> first, end |-> last,
   readable |-> readable, fingerprint |-> fingerprint]

\* A wide window set by hand for a model without fingerprint, a late window
\* with a step before it, and a schedule that cannot be read.
MCSettings == {Setting("manual", 30, 100, TRUE, FALSE),
               Setting("speed", 60, 100, TRUE, TRUE),
               Setting("ultra", 30, 100, FALSE, TRUE)}

\* Fast, too slow, and not finite.
Measurement(ratio, finite) == [ratio |-> ratio, finite |-> finite]
MCMeasurements == {Measurement(80, TRUE), Measurement(104, TRUE),
                   Measurement(80, FALSE)}
=============================================================================
