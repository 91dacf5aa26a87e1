-------------------------- MODULE MCStreamRouting --------------------------
(* Instances of StreamRouting for TLC.  Shards of one cluster are          *)
(* interchangeable: no definition and no property tells them apart.        *)
EXTENDS StreamRouting, TLC

SourceSymmetry == Permutations(Sources)
TargetSymmetry == Permutations(Targets)
=============================================================================
