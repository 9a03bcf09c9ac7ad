------------------------- MODULE MCEncryptedSource --------------------------
(* Two YubiKeys and an age identity of the user's, and a colleague.  One   *)
(* manifest excludes a YubiKey, one has no YubiKey, one has the colleague  *)
(* only.                                                                   *)
EXTENDS EncryptedSource

CONSTANTS y1, y2, a, o

MCManifests == {{y1, y2}, {y2, a}, {o}}
=============================================================================
