-------------------------- MODULE PromptLoadProofs --------------------------
(***************************************************************************)
(* For every number of agents, terminals and events, and for every way in  *)
(* which agents take each other's socket: a call is answered only by the   *)
(* connection it made.                                                     *)
(***************************************************************************)
EXTENDS PromptLoad, TLAPS

AgentState ==
    [pc : {"off", "dial", "remove", "bind", "bound", "listening", "serving",
           "failed", "closing", "gone"},
     holds : BOOLEAN, locked : BOOLEAN]
RunState ==
    [pc : {"none", "reading", "waiting"},
     child : {"none", "running", "answered", "failed", "flooding"},
     kept : BOOLEAN]

LEMMA NotStartedTyped == NotStarted \in AgentState
  BY DEF NotStarted, AgentState

LEMMA NoRunTyped == NoRun \in RunState
  BY DEF NoRun, RunState

LEMMA TypeInit == Init => TypeOK
<1> SUFFICES ASSUME Init PROVE TypeOK
  OBVIOUS
<1>1. agent \in [Agents -> AgentState]
  BY NotStartedTyped, FirstIsAgent DEF Init, SocketInit, AgentState
<1>2. run \in [Terminals -> RunState]
  BY NoRunTyped DEF Init, RunInit
<1>3. path \in Agents \cup {Dead, None}
  BY FirstIsAgent DEF Init, SocketInit
<1>4. events \in 0..MaxEvents
  BY BoundIsNat DEF Init
<1> QED
  BY <1>1, <1>2, <1>3, <1>4
     DEF Init, SocketInit, TypeOK, SocketTypeOK, RunTypeOK, AgentState, RunState

(* A call adds a request to whoever serves, and says so to the client.     *)
LEMMA CallTyped ==
  ASSUME SocketTypeOK, NEW c \in Clients, NEW op \in Operations, Call(c, op)
  PROVE  /\ requests' \subseteq Request
         /\ call' \in [Clients -> {"none", "pending", "found", "missing", "ok", "failed"}]
<1>1. path \in Reading =>
        [client |-> c, op |-> op, to |-> path, open |-> TRUE, writing |-> FALSE] \in Request
  BY DEF Request, Reading
<1> QED
  BY <1>1 DEF SocketTypeOK, Call

LEMMA ClosedTyped ==
  ASSUME SocketTypeOK, NEW c \in Clients
  PROVE  Closed(c) \subseteq Request
  BY DEF SocketTypeOK, Closed, Request

LEMMA RunFieldTyped ==
  ASSUME RunTypeOK, NEW t \in Terminals
  PROVE  /\ \A x \in {"none", "reading", "waiting"} :
              [run EXCEPT ![t].pc = x] \in [Terminals -> RunState]
         /\ \A x \in {"none", "running", "answered", "failed", "flooding"} :
              [run EXCEPT ![t].child = x] \in [Terminals -> RunState]
         /\ \A x \in BOOLEAN : [run EXCEPT ![t].kept = x] \in [Terminals -> RunState]
         /\ [Terminals -> RunState] =
              [Terminals ->
                [pc : {"none", "reading", "waiting"},
                 child : {"none", "running", "answered", "failed", "flooding"},
                 kept : BOOLEAN]]
  BY DEF RunTypeOK, RunState

LEMMA AgentFieldTyped ==
  ASSUME SocketTypeOK, NEW a \in Agents
  PROVE  /\ agent[a] \in AgentState
         /\ \A x \in AgentState : [agent EXCEPT ![a] = x] \in [Agents -> AgentState]
         /\ \A h \in BOOLEAN, l \in BOOLEAN :
              [agent EXCEPT ![a].holds = h, ![a].locked = l] \in [Agents -> AgentState]
         /\ agent \in [Agents -> AgentState]
<1>1. agent \in [Agents -> AgentState]
  BY DEF SocketTypeOK, AgentState
<1>2. agent[a] \in AgentState
  BY <1>1
<1>3. ASSUME NEW x \in AgentState
      PROVE  [agent EXCEPT ![a] = x] \in [Agents -> AgentState]
  BY <1>1
<1>4. ASSUME NEW h \in BOOLEAN, NEW l \in BOOLEAN
      PROVE  [agent EXCEPT ![a].holds = h, ![a].locked = l] \in [Agents -> AgentState]
  BY <1>1, <1>2 DEF AgentState
<1> QED
  BY <1>1, <1>2, <1>3, <1>4

(* A step of an agent from one place in Serve to the next.                 *)
LEMMA GoesTyped ==
  ASSUME SocketTypeOK, NEW a \in Agents,
         NEW pc \in {"off", "dial", "remove", "bind", "bound", "listening", "serving",
                     "failed", "closing", "gone"},
         Goes(a, pc)
  PROVE  agent' \in [Agents -> AgentState]
  BY AgentFieldTyped DEF Goes, AgentState

LEMMA BreakTyped ==
  ASSUME SocketTypeOK, NEW a \in Agents, Break(a)
  PROVE  /\ requests' \subseteq Request
         /\ call' \in [Clients -> {"none", "pending", "found", "missing", "ok", "failed"}]
  BY DEF SocketTypeOK, Break

LEMMA EndTyped ==
  ASSUME SocketTypeOK, NEW a \in Agents, End(a)
  PROVE  agent' \in [Agents -> AgentState]
<1>1. [NotStarted EXCEPT !.pc = "gone"] \in AgentState
  BY DEF NotStarted, AgentState
<1> QED
  BY <1>1, AgentFieldTyped DEF End

(* Every step of Serve.                                                    *)
LEMMA ServesTyped ==
  ASSUME SocketTypeOK, UNCHANGED suspended, NEW a \in Agents,
         Serves(a) \/ AcceptFails(a) \/ KillAgent(a)
  PROVE  SocketTypeOK'
<1>1. /\ path' \in Agents \cup {Dead, None} /\ agent' \in [Agents -> AgentState]
      /\ requests' \subseteq Request
      /\ call' \in [Clients -> {"none", "pending", "found", "missing", "ok", "failed"}]
  <2> USE GoesTyped DEF SocketTypeOK
  <2>1. CASE Lstat(a)
    BY <2>1 DEF Lstat
  <2>2. CASE DialOther(a)
    BY <2>2 DEF DialOther
  <2>3. CASE RemoveSocket(a)
    BY <2>3 DEF RemoveSocket
  <2>4. CASE Bind(a)
    BY <2>4 DEF Bind
  <2>5. CASE Listen(a)
    BY <2>5 DEF Listen
  <2>6. CASE Chmod(a)
    BY <2>6, BreakTyped DEF Chmod
  <2>7. CASE RemoveOwn(a)
    BY <2>7 DEF RemoveOwn
  <2>8. CASE AcceptFails(a)
    BY <2>8 DEF AcceptFails
  <2>9. CASE CloseListener(a) \/ KillAgent(a)
    BY <2>9, EndTyped, BreakTyped DEF CloseListener, KillAgent, End
  <2> QED
    BY <2>1, <2>2, <2>3, <2>4, <2>5, <2>6, <2>7, <2>8, <2>9 DEF Serves
<1> QED
  BY <1>1 DEF SocketTypeOK, AgentState

LEMMA TypeNext == TypeOK /\ [Next]_vars => TypeOK'
<1> SUFFICES ASSUME TypeOK, [Next]_vars PROVE TypeOK'
  OBVIOUS
<1> USE TerminalsAreClients
<1> USE DEF TypeOK, SocketTypeOK, RunTypeOK
<1>1. ASSUME NEW t \in Terminals, NEW op \in {"get", "lock"}, Begin(t, op)
      PROVE TypeOK'
  BY <1>1, CallTyped, BoundIsNat DEF Begin, Goto, Operations
<1>2. ASSUME NEW t \in Terminals, GetReturns(t) PROVE TypeOK'
  <2>1. run' \in [Terminals -> RunState]
    <3>1. [NoRun EXCEPT !.pc = "reading", !.child = "running"] \in RunState
      BY DEF NoRun, RunState
    <3>2. run \in [Terminals -> RunState]
      BY DEF RunState
    <3> QED
      BY <1>2, <3>1, <3>2 DEF GetReturns, StartRun
  <2> QED
    BY <1>2, <2>1 DEF GetReturns, Goto, RunState
<1>3. ASSUME NEW t \in Terminals, RunReturns(t) PROVE TypeOK'
  <2>1. run' \in [Terminals -> RunState]
    BY <1>3 DEF RunReturns, FinishRun, NoRun, RunState
  <2>2. CASE Succeeded(t)
    BY <2>1, <2>2, <1>3, CallTyped DEF RunReturns, Goto, Operations, RunState
  <2>3. CASE ~Succeeded(t)
    BY <2>1, <2>3, <1>3 DEF RunReturns, Goto, RunState
  <2> QED
    BY <2>2, <2>3
<1>4. ASSUME NEW t \in Terminals, PutReturns(t) \/ LockReturns(t) PROVE TypeOK'
  <2>1. CASE PutReturns(t)
    BY <2>1 DEF PutReturns, Goto
  <2>2. CASE LockReturns(t)
    BY <2>2 DEF LockReturns, Goto
  <2> QED
    BY <1>4, <2>1, <2>2
<1>5. ASSUME NEW t \in Terminals, GivesUp(t) PROVE TypeOK'
  BY <1>5, ClosedTyped DEF GivesUp, Deadline
<1>6. ASSUME NEW t \in Terminals, TimesOut(t) \/ Reads(t) \/ Child(t) PROVE TypeOK'
  <2>1. CASE TimesOut(t)
    BY <2>1, RunFieldTyped DEF TimesOut, Timeout, socketVars
  <2>2. CASE Reads(t)
    BY <2>2, RunFieldTyped DEF Reads, ReadEnds, socketVars
  <2>3. CASE Child(t)
    <3>1. CASE DescendantEnds(t)
      BY <2>3, <3>1, RunFieldTyped DEF Child, DescendantEnds, socketVars
    <3>2. CASE ChildEnds(t)
      <4>1. PICK how \in {"answered", "failed", "flooding"} :
              run' = [run EXCEPT ![t].child = how]
        BY <3>2 DEF ChildEnds
      <4> QED
        BY <2>3, <4>1, RunFieldTyped DEF Child, socketVars
    <3> QED
      BY <2>3, <3>1, <3>2 DEF Child
  <2> QED
    BY <1>6, <2>1, <2>2, <2>3
<1>7. ASSUME NEW t \in Terminals, Resume(t) PROVE TypeOK'
  BY <1>7 DEF Resume, socketVars
<1>8. ASSUME NEW a \in Agents, Agent(a) PROVE TypeOK'
  <2>1. SocketTypeOK'
    BY <1>8, ServesTyped DEF Agent
  <2>2. events' \in 0..MaxEvents
    BY <1>8, BoundIsNat DEF Agent
  <2> QED
    BY <1>8, <2>1, <2>2 DEF Agent
<1>9. ASSUME NEW a \in Agents, Handler(a) PROVE TypeOK'
  <2>1. PICK r \in requests : Handle(r) \/ ReplyWritten(r)
    BY <1>9 DEF Handler
  <2>2. r \in Request
    BY <2>1
  <2>3. CASE Handle(r)
    <3>1. agent' \in [Agents -> AgentState]
      <4>1. r.to \in Agents /\ r.op \in Operations /\ agent[r.to].locked \in BOOLEAN
        BY <2>2, AgentFieldTyped DEF Request, AgentState
      <4>2. \A held \in BOOLEAN :
              (CASE r.op = "get" -> held
                 [] r.op = "put" -> held \/ AcceptsPuts(r.to)
                 [] r.op = "lock" -> FALSE) \in BOOLEAN
        BY <4>1 DEF Operations, AcceptsPuts
      <4>3. agent[r.to].holds \in BOOLEAN
        BY <4>1, AgentFieldTyped DEF AgentState
      <4>4. PICK held \in {FALSE, agent[r.to].holds} :
              agent' = [agent EXCEPT
                ![r.to].holds = CASE r.op = "get" -> held
                                  [] r.op = "put" -> held \/ AcceptsPuts(r.to)
                                  [] r.op = "lock" -> FALSE,
                ![r.to].locked = agent[r.to].locked \/ r.op = "lock"]
        BY <2>3 DEF Handle
      <4>5. held \in BOOLEAN /\ (agent[r.to].locked \/ r.op = "lock") \in BOOLEAN
        BY <4>3
      <4> QED
        BY <4>1, <4>2, <4>4, <4>5, AgentFieldTyped
    <3>2. requests' \subseteq Request
      <4>1. [r EXCEPT !.writing = TRUE] \in Request
        BY <2>2 DEF Request
      <4> QED
        BY <2>3, <4>1 DEF Handle
    <3>3. call' \in [Clients -> {"none", "pending", "found", "missing", "ok", "failed"}]
      BY <2>2, <2>3 DEF Handle, Answered, Request
    <3> QED
      BY <1>9, <2>3, <3>1, <3>2, <3>3 DEF Handler, Handle, AgentState
  <2>4. CASE ReplyWritten(r)
    BY <1>9, <2>2, <2>4 DEF Handler, ReplyWritten, Answered, Request
  <2> QED
    BY <2>1, <2>3, <2>4
<1>10. ASSUME Fault PROVE TypeOK'
  <2>1. events' \in 0..MaxEvents
    BY <1>10, BoundIsNat DEF Fault
  <2>2. ASSUME NEW t \in Terminals, Suspend(t) \/ Shares(t) PROVE TypeOK'
    <3>1. CASE Suspend(t)
      BY <2>1, <3>1 DEF Suspend, socketVars
    <3>2. CASE Shares(t)
      BY <2>1, <3>2, RunFieldTyped DEF Shares, ChildShares, socketVars
    <3> QED
      BY <2>2, <3>1, <3>2
  <2>3. ASSUME NEW t \in Terminals, Interrupt(t) PROVE TypeOK'
    BY <2>1, <2>3, ClosedTyped DEF Interrupt, Goto, NoRun
  <2>4. ASSUME NEW a \in Agents, AgentEnds(a) PROVE TypeOK'
    <3>1. SocketTypeOK'
      BY <2>4, ServesTyped DEF AgentEnds
    <3> QED
      BY <2>1, <2>4, <3>1 DEF AgentEnds
  <2> QED
    BY <1>10, <2>2, <2>3, <2>4 DEF Fault
<1>11. CASE UNCHANGED vars
  BY <1>11 DEF vars, socketVars
<1> QED
  BY <1>1, <1>2, <1>3, <1>4, <1>5, <1>6, <1>7, <1>8, <1>9, <1>10, <1>11
     DEF Next, Terminal

(* Every variable stays within its type.                                   *)
THEOREM TypeCorrect == Spec => []TypeOK
  BY TypeInit, TypeNext, PTL DEF Spec

-----------------------------------------------------------------------------
(* Only a lookup is answered with values, so that is what a reply that is  *)
(* being written answers.                                                  *)
WritersLookUp == \A r \in requests : r.writing => r.op = "get"

AnswersInv == AnswersMatch /\ WritersLookUp

LEMMA AnswersInit == Init => AnswersInv
  BY TerminalsAreClients DEF Init, SocketInit, AnswersInv, AnswersMatch, WritersLookUp

(* A terminal without a call has no connection open.                       *)
LEMMA NoneOpen ==
  ASSUME AnswersMatch, NEW t \in Terminals, call[t] # "pending",
         NEW r \in requests, r.client = t
  PROVE  ~r.open
  BY DEF AnswersMatch

(* A new call, by a terminal that has none.                                *)
LEMMA CallAnswers ==
  ASSUME TypeOK, AnswersInv, NEW t \in Terminals, NEW op \in Operations,
         call[t] = "none", Call(t, op), Goto(t, op)
  PROVE  AnswersInv'
<1> USE TerminalsAreClients
<1>1. prompt' = [prompt EXCEPT ![t] = op] /\ prompt'[t] = op /\ op \notin {"idle", "run"}
  BY DEF Goto, TypeOK, Operations
<1>2. \A r \in requests : r.client = t => ~r.open
  BY NoneOpen DEF AnswersInv
<1>3. \A r \in requests : r.client \in Terminals
  BY DEF TypeOK, SocketTypeOK, Request
<1>4. CASE UNCHANGED requests /\ call' = [call EXCEPT ![t] = "failed"]
  BY <1>1, <1>2, <1>3, <1>4
     DEF AnswersInv, AnswersMatch, WritersLookUp, TypeOK, SocketTypeOK
<1>5. CASE /\ call' = [call EXCEPT ![t] = "pending"]
           /\ requests' = requests \cup
                {[client |-> t, op |-> op, to |-> path, open |-> TRUE, writing |-> FALSE]}
  <2> DEFINE new == [client |-> t, op |-> op, to |-> path, open |-> TRUE,
                     writing |-> FALSE]
  <2>1. new.client = t /\ new.op = op /\ ~new.writing /\ call'[t] = "pending"
    BY <1>5 DEF TypeOK, SocketTypeOK
  <2>2. requests' = requests \cup {new}
    BY <1>5
  <2> HIDE DEF new
  <2>3. \A r \in requests' : r.open => call'[r.client] = "pending" /\ prompt'[r.client] = r.op
    BY <1>1, <1>2, <1>3, <1>5, <2>1, <2>2
       DEF AnswersInv, AnswersMatch, TypeOK, SocketTypeOK
  <2>4. \A r, q \in requests' : r.open /\ q.open /\ r.client = q.client => r = q
    BY <1>2, <2>1, <2>2 DEF AnswersInv, AnswersMatch
  <2>5. \A s \in Terminals : /\ call'[s] = "found" => prompt'[s] = "get"
                             /\ prompt'[s] \in {"idle", "run"} => call'[s] = "none"
    BY <1>1, <1>5, <2>1 DEF AnswersInv, AnswersMatch, TypeOK, SocketTypeOK
  <2>6. WritersLookUp'
    BY <2>1, <2>2 DEF AnswersInv, WritersLookUp
  <2> QED
    BY <2>3, <2>4, <2>5, <2>6 DEF AnswersInv, AnswersMatch
<1> QED
  BY <1>4, <1>5 DEF Call

(* A command takes the answer to its call and goes on without one.         *)
LEMMA TakenAnswers ==
  ASSUME TypeOK, AnswersInv, NEW t \in Terminals, Returned(t),
         call' = [call EXCEPT ![t] = "none"], UNCHANGED requests,
         NEW pc \in {"idle", "run"}, Goto(t, pc)
  PROVE  AnswersInv'
<1> USE TerminalsAreClients
<1>1. \A r \in requests : r.client = t => ~r.open
  BY NoneOpen DEF AnswersInv, Returned
<1>2. \A r \in requests : r.client \in Terminals
  BY DEF TypeOK, SocketTypeOK, Request
<1> QED
  BY <1>1, <1>2
     DEF AnswersInv, AnswersMatch, WritersLookUp, Goto, TypeOK, SocketTypeOK

(* A terminal closes its connections: those of the others stay.            *)
LEMMA OpenAfterClosed ==
  ASSUME TypeOK, NEW c \in Clients, NEW r \in Closed(c)
  PROVE  /\ r.open => r \in requests /\ r.client # c
         /\ r.writing => \E q \in requests : q.writing /\ q.op = r.op
  BY DEF Closed, TypeOK, SocketTypeOK, Request

LEMMA ClosedAnswers ==
  ASSUME TypeOK, AnswersInv, NEW t \in Terminals, requests' = Closed(t),
         \A s \in Terminals \ {t} : call'[s] = call[s] /\ prompt'[s] = prompt[s],
         call'[t] # "found", prompt'[t] \in {"idle", "run"} => call'[t] = "none"
  PROVE  AnswersInv'
<1> USE TerminalsAreClients
<1>1. \A r \in requests' : r.open => r \in requests /\ r.client \in Terminals \ {t}
  BY OpenAfterClosed DEF TypeOK, SocketTypeOK, Request
<1>2. WritersLookUp'
  BY OpenAfterClosed DEF AnswersInv, WritersLookUp
<1> QED
  BY <1>1, <1>2 DEF AnswersInv, AnswersMatch

(* The connections to an agent break.                                      *)
LEMMA BreakAnswers ==
  ASSUME TypeOK, AnswersInv, NEW a \in Agents, Break(a), UNCHANGED prompt
  PROVE  AnswersInv'
<1> USE TerminalsAreClients
<1>1. requests' \subseteq requests /\ \A r \in requests' : r.to # a
  BY DEF Break
<1>2. \A c \in Clients :
        \/ /\ call'[c] = call[c]
           /\ \A r \in requests : ~(r.to = a /\ r.client = c /\ r.open)
        \/ /\ call'[c] = "failed"
           /\ \E r \in requests : r.to = a /\ r.client = c /\ r.open
  BY DEF Break
<1>3. \A r \in requests : r.client \in Clients
  BY DEF TypeOK, SocketTypeOK, Request
<1>4. \A r \in requests' : r.open => call'[r.client] = call[r.client]
  <2> SUFFICES ASSUME NEW r \in requests', r.open,
                      NEW q \in requests, q.to = a, q.client = r.client, q.open
               PROVE  FALSE
    BY <1>1, <1>2, <1>3
  <2> QED
    BY <1>1 DEF AnswersInv, AnswersMatch
<1>5. \A t \in Terminals : prompt[t] \in {"idle", "run"} => call'[t] = "none"
  BY <1>2 DEF AnswersInv, AnswersMatch
<1> QED
  BY <1>1, <1>2, <1>4, <1>5 DEF AnswersInv, AnswersMatch, WritersLookUp

(* A handler answers, or begins to.                                        *)
LEMMA HandledAnswers ==
  ASSUME TypeOK, AnswersInv, NEW r \in requests, UNCHANGED prompt,
         Handle(r) \/ ReplyWritten(r)
  PROVE  AnswersInv'
<1> USE TerminalsAreClients
<1>1. r \in Request /\ \A q \in requests : q \in Request
  BY DEF TypeOK, SocketTypeOK
<1>2. ASSUME NEW answer \in {"found", "missing", "ok"},
             answer = "found" => r.op = "get",
             requests' = requests \ {r}, Answered(r, answer)
      PROVE  AnswersInv'
  <2>1. CASE ~r.open
    BY <1>2, <2>1 DEF Answered, AnswersInv, AnswersMatch, WritersLookUp
  <2>2. CASE r.open
    <3>1. call' = [call EXCEPT ![r.client] = answer] /\ r.client \in Terminals
      BY <1>1, <1>2, <2>2 DEF Answered, Request
    <3>2. \A q \in requests' : q.open => q.client # r.client /\ q.client \in Terminals
      BY <1>1, <1>2, <2>2 DEF AnswersInv, AnswersMatch, Request
    <3>3. prompt[r.client] = r.op /\ r.op \notin {"idle", "run"}
      BY <1>1, <2>2 DEF AnswersInv, AnswersMatch, Request, Operations
    <3> QED
      BY <1>2, <3>1, <3>2, <3>3
         DEF AnswersInv, AnswersMatch, WritersLookUp, TypeOK, SocketTypeOK
  <2> QED
    BY <2>1, <2>2
<1>3. CASE /\ requests' = (requests \ {r}) \cup {[r EXCEPT !.writing = TRUE]}
           /\ UNCHANGED call
           /\ r.op = "get"
  <2> DEFINE new == [r EXCEPT !.writing = TRUE]
  <2>1. new.client = r.client /\ new.op = r.op /\ new.open = r.open
    BY <1>1 DEF Request
  <2>2. requests' = (requests \ {r}) \cup {new}
    BY <1>3
  <2> HIDE DEF new
  <2>3. \A q \in requests' : q.open => call[q.client] = "pending" /\ prompt[q.client] = q.op
    BY <2>1, <2>2 DEF AnswersInv, AnswersMatch
  <2>4. \A q, p \in requests' : q.open /\ p.open /\ q.client = p.client => q = p
    BY <2>1, <2>2 DEF AnswersInv, AnswersMatch
  <2>5. WritersLookUp'
    BY <1>3, <2>1, <2>2 DEF AnswersInv, WritersLookUp
  <2> QED
    BY <1>3, <2>3, <2>4, <2>5 DEF AnswersInv, AnswersMatch
<1>4. CASE Handle(r)
  <2>1. PICK held \in {FALSE, agent[r.to].holds} :
          LET found == r.op = "get" /\ held /\ ~agent[r.to].locked IN
          /\ requests' = (requests \ {r})
               \cup (IF found THEN {[r EXCEPT !.writing = TRUE]} ELSE {})
          /\ IF found THEN UNCHANGED call
             ELSE Answered(r, IF r.op = "get" THEN "missing" ELSE "ok")
    BY <1>4 DEF Handle
  <2>2. CASE r.op = "get" /\ held /\ ~agent[r.to].locked
    BY <1>3, <2>1, <2>2
  <2>3. CASE ~(r.op = "get" /\ held /\ ~agent[r.to].locked)
    BY <1>2, <2>1, <2>3
  <2> QED
    BY <2>2, <2>3
<1>5. CASE ReplyWritten(r)
  BY <1>2, <1>5 DEF ReplyWritten, AnswersInv, WritersLookUp
<1> QED
  BY <1>4, <1>5

LEMMA AnswersNext == TypeOK /\ AnswersInv /\ [Next]_vars => AnswersInv'
<1> SUFFICES ASSUME TypeOK, AnswersInv, [Next]_vars PROVE AnswersInv'
  OBVIOUS
<1> USE TerminalsAreClients
<1>1. CASE UNCHANGED <<requests, call, prompt>>
  BY <1>1 DEF AnswersInv, AnswersMatch, WritersLookUp
<1>2. ASSUME NEW t \in Terminals, NEW op \in {"get", "lock"}, Begin(t, op)
      PROVE  AnswersInv'
  <2>1. call[t] = "none"
    BY <1>2 DEF Begin, AnswersInv, AnswersMatch
  <2> QED
    BY <1>2, <2>1, CallAnswers DEF Begin, Operations
<1>3. ASSUME NEW t \in Terminals, RunReturns(t)
      PROVE  AnswersInv'
  <2>1. call[t] = "none" /\ prompt[t] = "run"
    BY <1>3 DEF RunReturns, AnswersInv, AnswersMatch
  <2>2. CASE Succeeded(t)
    BY <1>3, <2>1, <2>2, CallAnswers DEF RunReturns, Operations
  <2>3. CASE ~Succeeded(t)
    <3>1. \A r \in requests : r.open => r.client # t
      BY <2>1, NoneOpen DEF AnswersInv
    <3>2. UNCHANGED <<call, requests>> /\ prompt' = [prompt EXCEPT ![t] = "idle"]
      BY <1>3, <2>3 DEF RunReturns, Goto
    <3>3. \A r \in requests : r.open => prompt'[r.client] = prompt[r.client]
      BY <3>1, <3>2 DEF TypeOK
    <3> QED
      BY <2>1, <3>2, <3>3 DEF AnswersInv, AnswersMatch, WritersLookUp, TypeOK
  <2> QED
    BY <2>2, <2>3
<1>4. ASSUME NEW t \in Terminals, GetReturns(t) \/ PutReturns(t) \/ LockReturns(t)
      PROVE  AnswersInv'
  BY <1>4, TakenAnswers DEF GetReturns, PutReturns, LockReturns
<1>5. ASSUME NEW t \in Terminals, GivesUp(t) \/ Interrupt(t)
      PROVE  AnswersInv'
  <2>1. CASE GivesUp(t)
    <3>1. prompt[t] \notin {"idle", "run"}
      BY <2>1 DEF GivesUp, Deadline, DeadlinePasses, AnswersInv, AnswersMatch
    <3> QED
      BY <2>1, <3>1, ClosedAnswers DEF GivesUp, Deadline, TypeOK, SocketTypeOK
  <2>2. CASE Interrupt(t)
    BY <2>2, ClosedAnswers DEF Interrupt, Goto, TypeOK, SocketTypeOK
  <2> QED
    BY <1>5, <2>1, <2>2
<1>6. ASSUME NEW a \in Agents, Agent(a) \/ AgentEnds(a)
      PROVE  AnswersInv'
  <2>1. Break(a) \/ UNCHANGED <<requests, call>>
    BY <1>6 DEF Agent, AgentEnds, Serves, Lstat, DialOther, RemoveSocket, Bind, Listen,
       Chmod, RemoveOwn, CloseListener, AcceptFails, KillAgent, End
  <2> QED
    BY <1>1, <1>6, <2>1, BreakAnswers DEF Agent, AgentEnds
<1>7. ASSUME NEW a \in Agents, Handler(a)
      PROVE  AnswersInv'
  BY <1>7, HandledAnswers DEF Handler
<1> QED
  BY <1>1, <1>2, <1>3, <1>4, <1>5, <1>6, <1>7
     DEF Next, Terminal, TimesOut, Reads, Child, Resume, Fault, Suspend, Shares,
         vars, socketVars

(* Whatever deadlines pass, agents end or take each other's socket, and    *)
(* commands are interrupted: a call takes no answer but that of its own    *)
(* connection, and only a lookup is answered with values.                  *)
THEOREM AnswersBelong == Spec => []AnswersMatch
<1>1. AnswersInv => AnswersMatch
  BY DEF AnswersInv
<1> QED
  BY <1>1, TypeInit, TypeNext, AnswersInit, AnswersNext, PTL DEF Spec
=============================================================================
