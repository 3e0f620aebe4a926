-------------------------- MODULE MCArtifactStore --------------------------
(* TLC instance of ArtifactStore: two configs per stage, that differ in    *)
(* nothing but their names.                                                *)
EXTENDS ArtifactStore, TLC

ConfigSymmetry == Permutations(Configs)
=============================================================================
