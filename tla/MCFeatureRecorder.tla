-------------------------- MODULE MCFeatureRecorder --------------------------
(* Small instances of FeatureRecorder for TLC. *)
EXTENDS FeatureRecorder, TLC

MCFeatures == {"short", "long", "alerted", "stopped"}
MCLength == "short" :> 1 @@ "long" :> 3 @@ "alerted" :> 1 @@ "stopped" :> 1
Symmetry == Permutations(Writers)
=============================================================================
