--------------------------- MODULE MCConfigStore ---------------------------
(* ConfigStore for TLC: one value ("raw") has another normal form.         *)
EXTENDS ConfigStore, TLC

MCVals == {"default", "raw", "normal"}
MCNormalVal == [v \in MCVals |-> IF v = "raw" THEN "normal" ELSE v]
WorkerSymmetry == Permutations(Workers)
=============================================================================
