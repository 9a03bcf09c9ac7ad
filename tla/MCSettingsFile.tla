--------------------------- MODULE MCSettingsFile ---------------------------
(* Two terminals, one scope, one tool to bind.                             *)
EXTENDS SettingsFile
=============================================================================
