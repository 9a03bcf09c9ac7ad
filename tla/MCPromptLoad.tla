---------------------------- MODULE MCPromptLoad ----------------------------
(* Two terminals and two agents, with or without a dead agent's socket.    *)
EXTENDS PromptLoad
=============================================================================
