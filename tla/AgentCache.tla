----------------------------- MODULE AgentCache -----------------------------
(***************************************************************************)
(* The optional cache agent (internal/agent/agent.go) with the processes   *)
(* that call it.  One goroutine per connection handles one request under   *)
(* a single mutex: first every expired entry is removed, one at a time,    *)
(* then the request is carried out; a put evicts the entry that expires    *)
(* first until the new one fits.  A client follows the protocol of         *)
(* app.Load: it asks for its key and puts a value only after a miss.  A    *)
(* client that gives up (its deadline, or its death) leaves its request    *)
(* with the agent, which still carries it out.                             *)
(*                                                                         *)
(* Time is a counter of seconds.  It passes while a handler holds the      *)
(* mutex too: "now" is read once, at the start of expire().                *)
(***************************************************************************)
EXTENDS Integers, FiniteSets, Functions

CONSTANTS
    Clients,      \* dotenvsec processes
    Conns,        \* connections the agent may have open at once (a bound)
    Keys,         \* cache keys
    Vals,         \* environments
    Size,         \* envBytes of each environment
    MaxEntries,   \* maxEntries
    MaxBytes,     \* maxBytes
    TTLs,         \* the whole seconds a client may send with a put
    MaxTime,      \* bound on the clock
    MaxDrift,     \* bound on how far below zero the counter may be pushed
    None          \* no client, no connection, no key, no value

ASSUME SizesAreNat == Size \in [Vals -> Nat]
ASSUME LimitsAreNat == MaxEntries \in Nat \ {0} /\ MaxBytes \in Nat
ASSUME TimesAreNat == TTLs \subseteq Nat /\ MaxTime \in Nat /\ MaxDrift \in Nat
ASSUME NoneIsFresh ==
    None \notin Clients /\ None \notin Conns /\ None \notin Keys /\ None \notin Vals

VARIABLES
    entries,   \* cache.entries: key -> [val, expires, bytes]
    bytes,     \* cache.bytes, the running total the code keeps
    locked,    \* cache.locked
    mutex,     \* the connection whose handler holds the mutex
    phase,     \* where that handler is: in expire() or in put's eviction loop
    now,       \* the time expire() read
    clock,
    conn,      \* the request waiting or in progress on each connection
    client,    \* each client's state
    doubled    \* history: an eviction took the entry a put had subtracted

cache == <<entries, bytes, locked>>
handler == <<mutex, phase, now>>
vars == <<entries, bytes, locked, mutex, phase, now, clock, conn, client, doubled>>

Entry == [val : Vals, expires : Nat, bytes : Nat]
Request == [op : {"none", "get", "put", "flush", "lock"},
            key : Keys \cup {None}, val : Vals \cup {None}, ttl : Nat,
            owner : Clients \cup {None}]
Client == [st : {"idle", "getting", "hit", "missed", "putting", "control"},
           key : Keys \cup {None}, since : Nat, val : Vals \cup {None}]

NoRequest == [op |-> "none", key |-> None, val |-> None, ttl |-> 0, owner |-> None]
Idle == [st |-> "idle", key |-> None, since |-> 0, val |-> None]
MissedForgetsKey(k) == [st |-> "missed", key |-> None, since |-> 0, val |-> None]
Missed(k) == [st |-> "missed", key |-> k, since |-> 0, val |-> None]

Waiting == {"getting", "putting", "control"}

Without(k) == Restrict(entries, DOMAIN entries \ {k})

Init ==
    /\ entries = Restrict(<<>>, {})
    /\ bytes = 0
    /\ locked = FALSE
    /\ mutex = None
    /\ phase = "expire"
    /\ now = 0
    /\ clock = 0
    /\ conn = [c \in Conns |-> NoRequest]
    /\ client = [p \in Clients |-> Idle]
    /\ doubled = FALSE

-----------------------------------------------------------------------------
(* The clients.                                                            *)

(* app.Load asks for its key when caching is on.                           *)
StartGet(p, k, c) ==
    /\ client[p].st = "idle"
    /\ conn[c].op = "none"
    /\ client' = [client EXCEPT
         ![p] = [st |-> "getting", key |-> k, since |-> clock, val |-> None]]
    /\ conn' = [conn EXCEPT
         ![c] = [NoRequest EXCEPT !.op = "get", !.key = k, !.owner = p]]
    /\ UNCHANGED <<cache, handler, clock, doubled>>

(* After a miss it runs the provider and puts what it received.  (Without  *)
(* the bound the doubled subtractions could lower the counter for ever.)   *)
StartPut(p, v, ttl, c) ==
    /\ client[p].st = "missed"
    /\ conn[c].op = "none"
    /\ bytes >= -MaxDrift
    /\ client' = [client EXCEPT ![p].st = "putting"]
    /\ conn' = [conn EXCEPT
         ![c] = [op |-> "put", key |-> client[p].key, val |-> v, ttl |-> ttl,
                 owner |-> p]]
    /\ UNCHANGED <<cache, handler, clock, doubled>>

(* dotenvsec agent flush, dotenvsec agent lock.                            *)
StartControl(p, op, c) ==
    /\ client[p].st = "idle"
    /\ conn[c].op = "none"
    /\ client' = [client EXCEPT ![p].st = "control"]
    /\ conn' = [conn EXCEPT ![c] = [NoRequest EXCEPT !.op = op, !.owner = p]]
    /\ UNCHANGED <<cache, handler, clock, doubled>>

(* The client's one-second deadline passes or the client dies; a failed    *)
(* get counts as a miss.  The request stays with the agent.                *)
GiveUp(p) ==
    /\ client[p].st \in Waiting
    /\ client' = [client EXCEPT ![p] =
         IF client[p].st = "getting" THEN Missed(client[p].key) ELSE Idle]
    /\ conn' = [c \in Conns |->
         IF conn[c].owner = p THEN [conn[c] EXCEPT !.owner = None] ELSE conn[c]]
    /\ UNCHANGED <<cache, handler, clock, doubled>>

(* The value is used, or the provider failed and nothing is put.           *)
Finish(p) ==
    /\ client[p].st \in {"hit", "missed"}
    /\ client' = [client EXCEPT ![p] = Idle]
    /\ UNCHANGED <<cache, handler, clock, conn, doubled>>

-----------------------------------------------------------------------------
(* The agent.                                                              *)

Acquire(c) ==
    /\ mutex = None
    /\ conn[c].op # "none"
    /\ mutex' = c
    /\ phase' = "expire"
    /\ now' = clock
    /\ UNCHANGED <<cache, clock, conn, client, doubled>>

ExpiredLate == {k \in DOMAIN entries : entries[k].expires < now}
Expired == {k \in DOMAIN entries : entries[k].expires <= now}

ExpireOne(k) ==
    /\ mutex # None
    /\ phase = "expire"
    /\ k \in Expired
    /\ entries' = Without(k)
    /\ bytes' = bytes - entries[k].bytes
    /\ UNCHANGED <<locked, handler, clock, conn, client, doubled>>

(* The handler of c has removed what expired and looks at the request.     *)
Dispatch(c, op) ==
    /\ mutex = c
    /\ phase = "expire"
    /\ Expired = {}
    /\ conn[c].op = op

(* The deferred Unlock.                                                    *)
Release == mutex' = None /\ phase' = "expire" /\ now' = 0

(* Reply and return: the mutex is released, the connection is closed.      *)
Reply(c, answer) ==
    /\ client' = IF conn[c].owner = None THEN client
                 ELSE [client EXCEPT ![conn[c].owner] = answer]
    /\ conn' = [conn EXCEPT ![c] = NoRequest]
    /\ Release
    /\ UNCHANGED clock

HandleGet(c) ==
    LET k == conn[c].key IN
    /\ Dispatch(c, "get")
    /\ \/ /\ locked \/ k \notin DOMAIN entries
          /\ Reply(c, Missed(k))
       \/ /\ ~locked /\ k \in DOMAIN entries
          /\ Reply(c, [st |-> "hit", key |-> k, since |-> client[conn[c].owner].since,
                       val |-> entries[k].val])
    /\ UNCHANGED <<cache, doubled>>

(* Caching is on for this put and the environment alone is not too large.  *)
AcceptsLocked(req) == req.ttl > 0 /\ Size[req.val] <= MaxBytes
Accepts(req) == ~locked /\ req.ttl > 0 /\ Size[req.val] <= MaxBytes

RefusePut(c) ==
    /\ Dispatch(c, "put")
    /\ ~Accepts(conn[c])
    /\ Reply(c, Idle)
    /\ UNCHANGED <<cache, doubled>>

(* What the key held is subtracted and wiped, but stays in the map.        *)
NothingReplaced(k) == 0
Replaced(k) == IF k \in DOMAIN entries THEN entries[k].bytes ELSE 0

BeginPut(c) ==
    /\ Dispatch(c, "put")
    /\ Accepts(conn[c])
    /\ bytes' = bytes - Replaced(conn[c].key)
    /\ phase' = "evict"
    /\ UNCHANGED <<entries, locked, mutex, now, clock, conn, client, doubled>>

MustEvictLate ==
    /\ \/ Cardinality(DOMAIN entries) > MaxEntries
       \/ bytes + Size[conn[mutex].val] > MaxBytes
    /\ DOMAIN entries # {}
MustEvictOldSize ==
    /\ Cardinality(DOMAIN entries) >= MaxEntries \/ bytes > MaxBytes
    /\ DOMAIN entries # {}
MustEvict ==
    /\ \/ Cardinality(DOMAIN entries) >= MaxEntries
       \/ bytes + Size[conn[mutex].val] > MaxBytes
    /\ DOMAIN entries # {}

EvictOldest(k) ==
    /\ mutex # None
    /\ phase = "evict"
    /\ MustEvict
    /\ k \in DOMAIN entries
    /\ \A other \in DOMAIN entries : entries[k].expires <= entries[other].expires
    /\ entries' = Without(k)
    /\ bytes' = bytes - entries[k].bytes
    /\ doubled' = (doubled \/ k = conn[mutex].key)
    /\ UNCHANGED <<locked, handler, clock, conn, client>>

InsertPut(c) ==
    LET new == [val |-> conn[c].val, expires |-> clock + conn[c].ttl,
                bytes |-> Size[conn[c].val]]
    IN
    /\ mutex = c
    /\ phase = "evict"
    /\ ~MustEvict
    /\ entries' = [k \in DOMAIN entries \cup {conn[c].key} |->
                     IF k = conn[c].key THEN new ELSE entries[k]]
    /\ bytes' = bytes + new.bytes
    /\ Reply(c, Idle)
    /\ UNCHANGED <<locked, doubled>>

Flushed ==
    /\ entries' = Restrict(entries, {})
    /\ bytes' = 0
    /\ doubled' = FALSE

HandleFlush(c) ==
    /\ Dispatch(c, "flush")
    /\ Flushed
    /\ Reply(c, Idle)
    /\ UNCHANGED locked

HandleLock(c) ==
    /\ Dispatch(c, "lock")
    /\ Flushed
    /\ locked' = TRUE
    /\ Reply(c, Idle)

(* The agent is killed and served again: memory is gone, connections break.*)
Restart ==
    /\ Flushed
    /\ locked' = FALSE
    /\ conn' = [c \in Conns |-> NoRequest]
    /\ client' = [p \in Clients |->
         IF client[p].st \notin Waiting THEN client[p]
         ELSE IF client[p].st = "getting" THEN Missed(client[p].key) ELSE Idle]
    /\ Release
    /\ UNCHANGED clock

Tick ==
    /\ clock < MaxTime
    /\ clock' = clock + 1
    /\ UNCHANGED <<cache, handler, conn, client, doubled>>

Handle(c) ==
    \/ HandleGet(c) \/ RefusePut(c) \/ BeginPut(c) \/ InsertPut(c)
    \/ HandleFlush(c) \/ HandleLock(c)

Next ==
    \/ \E p \in Clients, k \in Keys, c \in Conns : StartGet(p, k, c)
    \/ \E p \in Clients, v \in Vals, ttl \in TTLs, c \in Conns : StartPut(p, v, ttl, c)
    \/ \E p \in Clients, op \in {"flush", "lock"}, c \in Conns : StartControl(p, op, c)
    \/ \E p \in Clients : GiveUp(p) \/ Finish(p)
    \/ \E c \in Conns : Acquire(c) \/ Handle(c)
    \/ \E k \in Keys : ExpireOne(k) \/ EvictOldest(k)
    \/ Restart
    \/ Tick

Spec == Init /\ [][Next]_vars

-----------------------------------------------------------------------------
(* Properties.                                                             *)

TypeOK ==
    /\ DOMAIN entries \subseteq Keys
    /\ entries \in [DOMAIN entries -> Entry]
    /\ bytes \in Int
    /\ locked \in BOOLEAN
    /\ mutex \in Conns \cup {None}
    /\ phase \in {"expire", "evict"}
    /\ now \in Nat
    /\ clock \in Nat
    /\ conn \in [Conns -> Request]
    /\ \A c \in Conns : conn[c].op \in {"get", "put"} => conn[c].key \in Keys
    /\ client \in [Clients -> Client]
    /\ doubled \in BOOLEAN

(* After "lock" nothing is held until a restart, whatever puts were        *)
(* already queued behind it or in the hands of a client that gave up.      *)
LockedHoldsNothing == locked => DOMAIN entries = {}

(* At no moment, not even inside a put, more than maxEntries are held.     *)
EntryCap == Cardinality(DOMAIN entries) <= MaxEntries

(* What is held, unit by unit: a pair for each byte of each entry.         *)
BytesOf(k, n) == {k} \X (1..n)
BytesHeld == UNION {BytesOf(k, entries[k].bytes) : k \in DOMAIN entries}
ActualBytes == Cardinality(BytesHeld)

(* The counter never claims more than is held, so a put never evicts       *)
(* because of bytes that are no longer there.                              *)
CounterNeverOverstates == bytes <= ActualBytes

(* The memory bound, as far as the code keeps it: as long as no eviction   *)
(* took the very entry the put had already subtracted, the counter is      *)
(* exact between requests and what is held stays within maxBytes.          *)
ByteCapUnlessDoubled ==
    ~doubled => /\ ActualBytes <= MaxBytes
                /\ phase = "expire" => bytes = ActualBytes

(* The bound the constant maxBytes and the eviction loop's condition       *)
(* state: what is held never exceeds maxBytes.                             *)
ByteCap == ActualBytes <= MaxBytes

-----------------------------------------------------------------------------
(* The refinement: hide sizes, the mutex and the connections.              *)

Held == [k \in DOMAIN entries |->
           [val |-> entries[k].val, expires |-> entries[k].expires]]

Promise == INSTANCE LossyCache WITH store <- Held

(* The agent keeps its promise: a get is answered with nothing or with     *)
(* what the latest put under its key stored, never past the absolute       *)
(* expiry of that put, never after a lock.                                 *)
ImplementsPromise == Promise!Spec
=============================================================================
