---------------------------- MODULE AgentSocket -----------------------------
(***************************************************************************)
(* The socket of the cache agent (internal/agent/agent.go): agents that    *)
(* start, find out whether another one serves and bind the path, and the   *)
(* clients' connections to whoever listens there.                          *)
(* No step of starting or ending holds the path still for the next one.    *)
(*                                                                         *)
(* AgentCache says what is in the cache; here an agent holds the scope's   *)
(* values or does not.  Its handlers take the mutex, carry the request out *)
(* and write the reply before they release it.  A reply with values is     *)
(* larger than the socket's buffer: it is not written before the client    *)
(* reads it or its connection is closed.                                   *)
(***************************************************************************)
EXTENDS Naturals

CONSTANTS
    Agents,   \* processes `dotenvsec agent serve`, each started at most once
    First,    \* the one that may be serving from the beginning
    Clients,  \* terminals
    Dead,     \* the socket of an agent of the past
    None

ASSUME FirstIsAgent == First \in Agents
ASSUME NamesDiffer == None # Dead /\ {None, Dead} \cap Agents = {}

VARIABLES
    path,       \* the agent whose socket the path names
    agent,      \* state of each agent process
    requests,   \* requests the agents' handlers have read and not replied to
    call,       \* what each client knows of its call
    suspended   \* clients stopped by Ctrl-Z

socketVars == <<path, agent, requests, call>>

Operations == {"get", "put", "lock"}
Request == [client : Clients, op : Operations, to : Agents, open : BOOLEAN,
            writing : BOOLEAN]

NotStarted == [pc |-> "off", holds |-> FALSE, locked |-> FALSE]

(* An agent was killed and left its socket, or one serves and has cached.  *)
SocketInit ==
    /\ \/ /\ path = Dead
          /\ agent = [a \in Agents |-> NotStarted]
       \/ /\ path = First
          /\ agent = [[a \in Agents |-> NotStarted] EXCEPT
               ![First].pc = "serving", ![First].holds = TRUE]
    /\ requests = {}
    /\ call = [c \in Clients |-> "none"]
    /\ suspended = {}

(* Listening agents accept a dial; only a serving one reads requests, and  *)
(* one whose Accept failed will read no more of them.                      *)
Listening == {a \in Agents : agent[a].pc \in {"listening", "serving", "failed"}}
Reading == {a \in Agents : agent[a].pc \in {"listening", "serving"}}

-----------------------------------------------------------------------------
(* Serve.                                                                  *)

Goes(a, pc) == agent' = [agent EXCEPT ![a].pc = pc]

Lstat(a) ==
    /\ agent[a].pc = "off"
    /\ Goes(a, IF path = None THEN "bind" ELSE "dial")
    /\ UNCHANGED <<path, requests, call>>

(* Any error of the dial, the 100 ms without an answer of a stalled agent, *)
(* a full backlog and a lack of descriptors included, is taken for a dead  *)
(* agent's socket.                                                         *)
DialOther(a) ==
    /\ agent[a].pc = "dial"
    /\ \/ path \in Listening /\ Goes(a, "gone")
       \/ Goes(a, "remove")
    /\ UNCHANGED <<path, requests, call>>

RemoveSocket(a) ==
    /\ agent[a].pc = "remove"
    /\ path' = None
    /\ Goes(a, IF path = None THEN "gone" ELSE "bind")
    /\ UNCHANGED <<requests, call>>

(* net.Listen binds the socket and then listens on it.                     *)
Bind(a) ==
    /\ agent[a].pc = "bind"
    /\ path' = IF path = None THEN a ELSE path
    /\ Goes(a, IF path = None THEN "bound" ELSE "gone")
    /\ UNCHANGED <<requests, call>>

Listen(a) ==
    /\ agent[a].pc = "bound"
    /\ Goes(a, "listening")
    /\ UNCHANGED <<path, requests, call>>

(* The connections to an agent break, and with them the calls.             *)
Break(a) ==
    /\ requests' = {r \in requests : r.to # a}
    /\ call' = [c \in Clients |->
         IF \E r \in requests : r.to = a /\ r.client = c /\ r.open
         THEN "failed" ELSE call[c]]

(* It finds whatever socket is at the path.  Where there is none the agent *)
(* ends before it has accepted anybody.                                    *)
Chmod(a) ==
    /\ agent[a].pc = "listening"
    /\ IF path = None
       THEN Goes(a, "failed") /\ Break(a)
       ELSE Goes(a, "serving") /\ UNCHANGED <<requests, call>>
    /\ UNCHANGED path

AcceptFails(a) ==
    /\ agent[a].pc = "serving"
    /\ Goes(a, "failed")
    /\ UNCHANGED <<path, requests, call>>

(* The deferred Remove takes whatever is at the path.                      *)
RemoveOwn(a) ==
    /\ agent[a].pc = "failed"
    /\ path' = None
    /\ Goes(a, "closing")
    /\ UNCHANGED <<requests, call>>

(* The process ends, and its memory is gone.                               *)
End(a) ==
    /\ agent' = [agent EXCEPT ![a] = [NotStarted EXCEPT !.pc = "gone"]]
    /\ Break(a)

(* So does the deferred Close, which unlinks the path a second time.       *)
CloseListener(a) == agent[a].pc = "closing" /\ path' = None /\ End(a)

(* A signal: the socket stays behind.                                      *)
KillAgent(a) == agent[a].pc \notin {"off", "gone"} /\ path' = path /\ End(a)

Serves(a) ==
    \/ Lstat(a) \/ DialOther(a) \/ RemoveSocket(a) \/ Bind(a) \/ Listen(a) \/ Chmod(a)
    \/ RemoveOwn(a) \/ CloseListener(a)

-----------------------------------------------------------------------------
(* Client.                                                                 *)

(* Lstat, dial and send.  Any of them may fail, and must where nothing     *)
(* answers; what a failing agent is sent it never reads.                   *)
Call(c, op) ==
    \/ /\ path \in Reading
       /\ call' = [call EXCEPT ![c] = "pending"]
       /\ requests' = requests \cup
            {[client |-> c, op |-> op, to |-> path, open |-> TRUE, writing |-> FALSE]}
    \/ /\ call' = [call EXCEPT ![c] = "failed"]
       /\ UNCHANGED requests

ClosedLater(c) == requests
Closed(c) == {[r EXCEPT !.open = FALSE] : r \in {x \in requests : x.client = c}}
             \cup {r \in requests : r.client # c}

(* A second after the dial the client gives up and closes; what it sent is *)
(* still with the agent.                                                   *)
WriteDeadlineOnly(c) == FALSE
DeadlinePasses(c) == call[c] = "pending"

Deadline(c) ==
    /\ c \notin suspended
    /\ DeadlinePasses(c)
    /\ call' = [call EXCEPT ![c] = "failed"]
    /\ requests' = Closed(c)
    /\ UNCHANGED <<path, agent>>

Returned(c) == call[c] \in {"found", "missing", "ok", "failed"}

-----------------------------------------------------------------------------
(* handle, under the mutex.                                                *)

Blocked(a) == \E r \in requests : r.to = a /\ r.writing

Answered(r, answer) ==
    call' = IF r.open THEN [call EXCEPT ![r.client] = answer] ELSE call

AcceptsPuts(a) == ~agent[a].locked

(* The entry may have expired (expire comes first, whatever the request).  *)
Handle(r) ==
    \E held \in {FALSE, agent[r.to].holds} :
      LET found == r.op = "get" /\ held /\ ~agent[r.to].locked
      IN
      /\ r \in requests /\ ~r.writing
      /\ agent[r.to].pc # "listening"
      /\ ~Blocked(r.to)
      /\ agent' = [agent EXCEPT
           ![r.to].holds = CASE r.op = "get" -> held
                             [] r.op = "put" -> held \/ AcceptsPuts(r.to)
                             [] r.op = "lock" -> FALSE,
           ![r.to].locked = agent[r.to].locked \/ r.op = "lock"]
      /\ requests' = (requests \ {r})
           \cup (IF found THEN {[r EXCEPT !.writing = TRUE]} ELSE {})
      /\ IF found THEN UNCHANGED call
         ELSE Answered(r, IF r.op = "get" THEN "missing" ELSE "ok")
      /\ UNCHANGED path

(* encode returns: the client has read it all or its end is closed.        *)
WriteReturnsWhenRead(r) == r.open /\ r.client \notin suspended
WriteReturns(r) == r.open => r.client \notin suspended

ReplyWritten(r) ==
    /\ r \in requests /\ r.writing
    /\ WriteReturns(r)
    /\ requests' = requests \ {r}
    /\ Answered(r, "found")
    /\ UNCHANGED <<path, agent>>

-----------------------------------------------------------------------------
SocketTypeOK ==
    /\ path \in Agents \cup {Dead, None}
    /\ agent \in [Agents ->
         [pc : {"off", "dial", "remove", "bind", "bound", "listening", "serving",
                "failed", "closing", "gone"},
          holds : BOOLEAN, locked : BOOLEAN]]
    /\ requests \subseteq Request
    /\ call \in [Clients -> {"none", "pending", "found", "missing", "ok", "failed"}]
    /\ suspended \subseteq Clients
=============================================================================
