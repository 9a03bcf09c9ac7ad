---------------------------- MODULE MCShellHook -----------------------------
(* Two scopes that share a variable; the second one also unsets z.         *)
EXTENDS ShellHook, TLC

CONSTANTS a, b, x, y, z

MCSetNames == (a :> <<x, y>>) @@ (b :> <<y>>)
MCUnsetNames == (a :> <<>>) @@ (b :> <<z>>)
=============================================================================
