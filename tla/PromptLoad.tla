----------------------------- MODULE PromptLoad -----------------------------
(***************************************************************************)
(* Load (internal/app/load.go) between the agent's socket and the          *)
(* provider's process: ask the agent, run the provider when it does not    *)
(* have the values, whether it says so, cannot be reached or is too slow,  *)
(* and hand it what was decrypted.  In another terminal `agent lock`.      *)
(*                                                                         *)
(* Terminals may be suspended (Ctrl-Z) in the middle of a command, with    *)
(* the provider they started, and may never be resumed.                    *)
(***************************************************************************)
EXTENDS AgentSocket, ProviderRun

CONSTANTS
    MaxEvents     \* bound on the commands typed, `agent serve` among them,
                  \* and on what goes wrong, together

ASSUME TerminalsAreClients == Terminals = Clients
ASSUME BoundIsNat == MaxEvents \in Nat

VARIABLES
    prompt,  \* what each terminal is at
    events

vars == <<socketVars, suspended, run, prompt, events>>

Init ==
    /\ SocketInit /\ RunInit
    /\ prompt = [t \in Terminals |-> "idle"]
    /\ events = 0

Goto(t, pc) == prompt' = [prompt EXCEPT ![t] = pc]

-----------------------------------------------------------------------------
Begin(t, op) ==
    /\ prompt[t] = "idle" /\ events < MaxEvents
    /\ events' = events + 1
    /\ Call(t, op)
    /\ Goto(t, op)
    /\ UNCHANGED <<path, agent, suspended, run>>

(* Found values end the load; otherwise the provider runs.                 *)
GetReturns(t) ==
    /\ prompt[t] = "get" /\ t \notin suspended /\ Returned(t)
    /\ call' = [call EXCEPT ![t] = "none"]
    /\ IF call[t] = "found"
       THEN Goto(t, "idle") /\ UNCHANGED run
       ELSE Goto(t, "run") /\ StartRun(t)
    /\ UNCHANGED <<path, agent, requests, suspended, events>>

RunReturns(t) ==
    /\ prompt[t] = "run" /\ t \notin suspended /\ RunEnds(t)
    /\ FinishRun(t)
    /\ IF Succeeded(t)
       THEN Call(t, "put") /\ Goto(t, "put")
       ELSE Goto(t, "idle") /\ UNCHANGED <<call, requests>>
    /\ UNCHANGED <<path, agent, suspended, events>>

(* The load does not look at what became of its put.                       *)
PutReturns(t) ==
    /\ prompt[t] = "put" /\ t \notin suspended /\ Returned(t)
    /\ call' = [call EXCEPT ![t] = "none"]
    /\ Goto(t, "idle")
    /\ UNCHANGED <<path, agent, requests, suspended, run, events>>

LockReturns(t) ==
    /\ prompt[t] = "lock" /\ t \notin suspended /\ Returned(t)
    /\ call' = [call EXCEPT ![t] = "none"]
    /\ Goto(t, "idle")
    /\ UNCHANGED <<path, agent, requests, suspended, run, events>>

-----------------------------------------------------------------------------
(* The steps of the two components.                                        *)

Agent(a) ==
    /\ Serves(a)
    /\ agent[a].pc = "off" => events < MaxEvents
    /\ events' = IF agent[a].pc = "off" THEN events + 1 ELSE events
    /\ UNCHANGED <<suspended, run, prompt>>

Started(a) == agent[a].pc # "off"

Handler(a) ==
    /\ \E r \in requests : r.to = a /\ (Handle(r) \/ ReplyWritten(r))
    /\ UNCHANGED <<suspended, run, prompt, events>>

LockHandler(a) ==
    /\ Handler(a)
    /\ \E r \in requests : r.to = a /\ r.op = "lock" /\ r \notin requests'

GivesUp(t) == Deadline(t) /\ UNCHANGED <<suspended, run, prompt, events>>

TimesOut(t) ==
    /\ t \notin suspended
    /\ Timeout(t)
    /\ UNCHANGED <<socketVars, suspended, prompt, events>>

Reads(t) ==
    /\ t \notin suspended
    /\ ReadEnds(t)
    /\ UNCHANGED <<socketVars, suspended, prompt, events>>

Child(t) ==
    /\ t \notin suspended
    /\ ChildEnds(t) \/ DescendantEnds(t)
    /\ UNCHANGED <<socketVars, suspended, prompt, events>>

-----------------------------------------------------------------------------
(* What goes wrong.                                                        *)

Suspend(t) ==
    /\ prompt[t] # "idle" /\ t \notin suspended
    /\ suspended' = suspended \cup {t}
    /\ UNCHANGED <<socketVars, run, prompt>>

Shares(t) ==
    /\ t \notin suspended
    /\ ChildShares(t)
    /\ UNCHANGED <<socketVars, suspended, prompt>>

(* Ctrl-C ends the command; what becomes of its provider is not followed.  *)
Interrupt(t) ==
    /\ prompt[t] # "idle"
    /\ Goto(t, "idle")
    /\ call' = [call EXCEPT ![t] = "none"]
    /\ requests' = Closed(t)
    /\ run' = [run EXCEPT ![t] = NoRun]
    /\ suspended' = suspended \ {t}
    /\ UNCHANGED <<path, agent>>

AgentEnds(a) ==
    /\ AcceptFails(a) \/ KillAgent(a)
    /\ UNCHANGED <<suspended, run, prompt>>

Fault ==
    /\ events < MaxEvents
    /\ events' = events + 1
    /\ \/ \E t \in Terminals : Suspend(t) \/ Shares(t) \/ Interrupt(t)
       \/ \E a \in Agents : AgentEnds(a)

Resume(t) ==
    /\ t \in suspended
    /\ suspended' = suspended \ {t}
    /\ UNCHANGED <<socketVars, run, prompt, events>>

Terminal(t) ==
    \/ GetReturns(t) \/ RunReturns(t) \/ PutReturns(t) \/ LockReturns(t)
    \/ GivesUp(t) \/ TimesOut(t) \/ Reads(t)

Next ==
    \/ \E t \in Terminals :
         Begin(t, "get") \/ Begin(t, "lock") \/ Terminal(t) \/ Child(t) \/ Resume(t)
    \/ \E a \in Agents : Agent(a) \/ Handler(a)
    \/ Fault

(* Processes run and timers fire.  sync.Mutex lets nobody starve, so the   *)
(* handler of a lock gets it when it becomes free again and again.         *)
(* Nothing makes a user start or resume a command, or a provider end.      *)
Fairness ==
    /\ \A t \in Terminals : WF_vars(Terminal(t))
    /\ \A a \in Agents : WF_vars(Started(a) /\ Agent(a))
    /\ \A a \in Agents : WF_vars(Handler(a)) /\ SF_vars(LockHandler(a))

Spec == Init /\ [][Next]_vars
FairSpec == Spec /\ Fairness

-----------------------------------------------------------------------------
(* Properties.                                                             *)

TypeOK ==
    /\ SocketTypeOK /\ RunTypeOK
    /\ prompt \in [Terminals -> {"idle", "get", "run", "put", "lock"}]
    /\ events \in 0..MaxEvents

(* Whatever deadlines passed, agents died and commands were interrupted,   *)
(* a call is answered only by the connection it made: a reply that an      *)
(* agent still owes to an earlier call reaches nobody, and a lookup is the *)
(* only call that is ever answered with values.                            *)
AnswersMatch ==
    /\ \A r \in requests :
         r.open => call[r.client] = "pending" /\ prompt[r.client] = r.op
    /\ \A r, q \in requests : r.open /\ q.open /\ r.client = q.client => r = q
    /\ \A t \in Terminals : call[t] = "found" => prompt[t] = "get"
    /\ \A t \in Terminals : prompt[t] \in {"idle", "run"} => call[t] = "none"

(* Every command comes back: an agent that another client has blocked, a   *)
(* provider that hangs or floods, delay it for the deadline and timeout    *)
(* at most.  Not when it is suspended, or when something else that the     *)
(* provider has started keeps its standard output.                         *)
PromptReturns ==
    \A t \in Terminals :
        prompt[t] # "idle" ~> (prompt[t] = "idle" \/ t \in suspended \/ run[t].kept)

(* A lock that reached an agent takes effect, even when the command was    *)
(* told it failed: whoever holds the mutex lets it go.  Not while a client *)
(* is suspended in the middle of that agent's reply.                       *)
LockTakesEffect ==
    \A a \in Agents :
        (\E r \in requests : r.to = a /\ r.op = "lock")
            ~> (\/ agent[a].locked \/ agent[a].pc = "gone"
                \/ \E r \in requests :
                     r.to = a /\ r.writing /\ r.open /\ r.client \in suspended)
=============================================================================
