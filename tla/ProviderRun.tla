---------------------------- MODULE ProviderRun -----------------------------
(***************************************************************************)
(* Run (internal/provider/run.go): one provider process for each load that *)
(* the cache did not answer.  Run reads its standard output to the end or  *)
(* to one byte over the limit, then waits for it.  After the timeout the   *)
(* context kills that process and no other: one it has started and that    *)
(* shares its standard output keeps the read waiting.                      *)
(*                                                                         *)
(* What a provider does is its own business.  The SOPS provider and        *)
(* ServeOne write one response, or an error, and exit.                     *)
(***************************************************************************)
CONSTANT Terminals

VARIABLE run  \* of each terminal's load

NoRun == [pc |-> "none", child |-> "none", kept |-> FALSE]

RunInit == run = [t \in Terminals |-> NoRun]

StartRun(t) ==
    run' = [run EXCEPT ![t] = [NoRun EXCEPT !.pc = "reading", !.child = "running"]]

(* A descendant inherits standard output.                                  *)
ChildShares(t) ==
    /\ run[t].child = "running"
    /\ run' = [run EXCEPT ![t].kept = TRUE]

DescendantEnds(t) ==
    /\ run[t].kept
    /\ run' = [run EXCEPT ![t].kept = FALSE]

(* It exits after a whole response or without one; or it writes more than  *)
(* Run will read, and goes on writing into a pipe that is full.            *)
ChildEnds(t) ==
    \/ /\ run[t].child = "running"
       /\ \E how \in {"answered", "failed", "flooding"} :
            run' = [run EXCEPT ![t].child = how]
    \/ /\ run[t].child = "flooding"
       /\ run' = [run EXCEPT ![t].child = "failed"]

Alive(t) == run[t].child \in {"running", "flooding"}

(* The timeout kills it if it still runs; and the context's error is looked*)
(* at before the response, so one that is already there is not used.       *)
Timeout(t) ==
    /\ run[t].pc # "none" /\ run[t].child # "failed"
    /\ run' = [run EXCEPT ![t].child = "failed"]

ReadEnds(t) ==
    /\ run[t].pc = "reading"
    /\ run[t].child = "flooding" \/ (~Alive(t) /\ ~run[t].kept)
    /\ run' = [run EXCEPT ![t].pc = "waiting"]

(* Wait returns when the process has ended.                                *)
RunEnds(t) == run[t].pc = "waiting" /\ ~Alive(t)

FinishRun(t) == run' = [run EXCEPT ![t] = NoRun]

Succeeded(t) == run[t].child = "answered"

RunTypeOK ==
    run \in [Terminals ->
      [pc : {"none", "reading", "waiting"},
       child : {"none", "running", "answered", "failed", "flooding"},
       kept : BOOLEAN]]
=============================================================================
