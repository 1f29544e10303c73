-------------------------- MODULE MCFeatureConfig --------------------------
(* FeatureConfig with an argument that gives every feature one value, or    *)
(* with none.                                                               *)
EXTENDS FeatureConfig

CONSTANT ArgValue

ArgFeatures == [n \in Names |-> ArgValue]
=============================================================================
