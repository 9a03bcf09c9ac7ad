----------------------------- MODULE LossyCache -----------------------------
(***************************************************************************)
(* What the cache agent promises its clients, without saying how it keeps  *)
(* its bounds: a store that may forget anything at any time, that answers  *)
(* a get with nothing or with exactly the value of the latest put under    *)
(* that key, that never serves a value whose absolute expiry had passed    *)
(* when it was asked, and that once locked holds and accepts nothing until *)
(* the process is replaced.  AgentCache is shown to implement it.          *)
(***************************************************************************)
EXTENDS Naturals

CONSTANTS
    Clients,    \* processes that may ask the agent
    Keys,       \* cache keys
    Vals,       \* loaded environments
    TTLs,       \* lifetimes, in whole ticks of the clock
    None        \* stands for "no key", "no value"

VARIABLES
    store,      \* what may still be served: key -> [val, expires]
    locked,     \* the agent was told to reject caching
    clock,      \* time
    client      \* what each client is doing, and the answer it received

vars == <<store, locked, clock, client>>

Idle == [st |-> "idle", key |-> None, since |-> 0, val |-> None]

Narrower(f, S) == [k \in S |-> f[k]]

Init ==
    /\ store = Narrower(<<>>, {})
    /\ locked = FALSE
    /\ clock = 0
    /\ client = [p \in Clients |-> Idle]

(* A client asks for a key; the answer may not predate the question.       *)
Ask(p, k) ==
    /\ client[p].st = "idle"
    /\ client' = [client EXCEPT
         ![p] = [st |-> "getting", key |-> k, since |-> clock, val |-> None]]
    /\ UNCHANGED <<store, locked, clock>>

AnswerFound(p) ==
    LET k == client[p].key IN
    /\ client[p].st = "getting"
    /\ ~locked
    /\ k \in DOMAIN store
    /\ store[k].expires > client[p].since
    /\ client' = [client EXCEPT ![p] = [@ EXCEPT !.st = "hit", !.val = store[k].val]]
    /\ UNCHANGED <<store, locked, clock>>

(* Every other thing a client may go through leaves the store alone.       *)
ClientMoves ==
    /\ \E p \in Clients :
         \E st \in {"missed", "putting", "control", "idle"} :
           /\ st = "missed" => client[p].st = "getting"
           /\ client' = [client EXCEPT ![p] =
                IF st = "idle" THEN Idle
                ELSE [st |-> st, key |-> client[p].key, since |-> 0,
                      val |-> None]]
    /\ UNCHANGED <<store, locked, clock>>

(* A put replaces what its key held and may push anything else out.        *)
Put(k, v, ttl) ==
    /\ ~locked
    /\ ttl > 0
    /\ \E kept \in SUBSET (DOMAIN store \ {k}) :
         store' = [j \in kept \cup {k} |->
                     IF j = k THEN [val |-> v, expires |-> clock + ttl]
                     ELSE store[j]]
    /\ UNCHANGED <<locked, clock>>

Forget ==
    /\ \E kept \in SUBSET (DOMAIN store) : store' = Narrower(store, kept)
    /\ UNCHANGED <<locked, clock>>

Lock ==
    /\ store' = Narrower(store, {})
    /\ locked' = TRUE
    /\ UNCHANGED clock

(* Only a new process accepts again after a lock.                          *)
Restart ==
    /\ store' = Narrower(store, {})
    /\ locked' = FALSE
    /\ UNCHANGED clock

Tick ==
    /\ clock' = clock + 1
    /\ UNCHANGED <<store, locked, client>>

(* The store moves while at most one client, or after a restart any        *)
(* number of them, is told that its call is over.                          *)
CallsEnd ==
    \A p \in Clients :
      \/ client'[p] = client[p]
      \/ client'[p] = Idle
      \/ /\ client[p].st = "getting"
         /\ client'[p] = [st |-> "missed", key |-> client[p].key,
                          since |-> 0, val |-> None]

StoreMoves ==
    /\ \/ \E k \in Keys, v \in Vals, ttl \in TTLs : Put(k, v, ttl)
       \/ Forget
       \/ Lock
       \/ Restart
    /\ CallsEnd
    /\ DOMAIN client' = Clients

Next ==
    \/ \E p \in Clients, k \in Keys : Ask(p, k)
    \/ \E p \in Clients : AnswerFound(p)
    \/ ClientMoves
    \/ StoreMoves
    \/ Tick

Spec == Init /\ [][Next]_vars
=============================================================================
