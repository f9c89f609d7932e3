---------------------------- MODULE MCModelPhases ----------------------------
(* Instances of ModelPhases for TLC.                                       *)
EXTENDS ModelPhases

\* H3 as it was loaded, the patcher an Optimize node made of it and its
\* control model; a text encoder that shares the GPU.
MCUuid == [p \in {"h3", "optimized", "control", "text"} |->
             IF p = "optimized" THEN "h3" ELSE p]
MCNested == [p \in {"h3", "optimized", "control", "text"} |->
               IF p = "optimized" THEN {"control"} ELSE {}]
MCLoads == {{"optimized"}, {"text"}, {"h3"}}
=============================================================================
