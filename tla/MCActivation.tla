---------------------------- MODULE MCActivation ----------------------------
(* Two configurations that declare different names; the source is edited   *)
(* to follow.                                                              *)
EXTENDS Activation, TLC

CONSTANTS c1, c2, token, url

MCDeclares == (c1 :> {token}) @@ (c2 :> {token, url})
MCHolds == [v \in 0..MaxSource |-> IF v < MaxSource THEN {token} ELSE {token, url}]
=============================================================================
