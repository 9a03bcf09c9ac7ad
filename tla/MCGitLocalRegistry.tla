------------------------- MODULE MCGitLocalRegistry -------------------------
(* A repository root and a directory in it.                                *)
EXTENDS GitLocalRegistry, TLC

MCDirs == {<<>>, <<"infra">>}
MCSymmetry == Permutations(Procs)
=============================================================================
