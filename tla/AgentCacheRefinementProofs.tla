--------------------- MODULE AgentCacheRefinementProofs ---------------------
(***************************************************************************)
(* The agent implements LossyCache, for every number of clients, entries   *)
(* and sizes.  The invariant the step simulation needs says how a request  *)
(* and the client that waits for it belong together: the answer of a       *)
(* handler reaches the one client that asked for this key, and asked no    *)
(* later than the handler read its clock.                                  *)
(***************************************************************************)
EXTENDS AgentCacheProofs

(* Between two calls a client has nothing left of the last one.            *)
Fresh(cl) ==
    /\ cl.st = "idle" => cl = Idle
    /\ cl.st \in {"missed", "putting"} => cl.since = 0 /\ cl.val = None

(* A request, and the client it is answered to, at time t.                 *)
Serves(req, cl, t) ==
    /\ req.op # "none"
    /\ req.op = "get" => cl.st = "getting" /\ cl.key = req.key /\ cl.since <= t
    /\ req.op = "put" => cl.st = "putting"
    /\ req.op \in {"flush", "lock"} => cl.st = "control"

ServeInv ==
    /\ \A p \in Clients : Fresh(client[p])
    /\ \A c \in Conns : conn[c].owner # None =>
         Serves(conn[c], client[conn[c].owner], clock)
    /\ \A c, d \in Conns : conn[c].owner # None /\ conn[d].owner = conn[c].owner => c = d
    /\ \A c \in Conns : conn[c].op = "put" => conn[c].ttl \in TTLs
    /\ mutex # None =>
         /\ conn[mutex].op # "none"
         /\ conn[mutex].owner # None => Serves(conn[mutex], client[conn[mutex].owner], now)
    /\ phase = "evict" => conn[mutex].ttl > 0

-----------------------------------------------------------------------------
LEMMA ServeInit == Init => ServeInv
  BY DEF Init, ServeInv, Fresh, Idle, NoRequest

(* A client with no call under way is owed no answer.                      *)
LEMMA OwedNothing ==
  ASSUME TypeInv, ServeInv, NEW p \in Clients, client[p].st \notin Waiting,
         NEW c \in Conns
  PROVE  conn[c].owner # p
  BY NoneIsFresh DEF TypeInv, TypeOK, Request, ServeInv, Serves, Waiting

LEMMA CallStarts ==
  ASSUME TypeInv, ServeInv, NEW p \in Clients, NEW c \in Conns, NEW cl, NEW req,
         client[p].st \notin Waiting, conn[c].op = "none",
         client' = [client EXCEPT ![p] = cl], conn' = [conn EXCEPT ![c] = req],
         Fresh(cl), req.owner = p, Serves(req, cl, clock),
         req.op = "put" => req.ttl \in TTLs, UNCHANGED <<handler, clock>>
  PROVE  ServeInv'
<1> USE DEF TypeInv, TypeOK
<1>1. client'[p] = cl /\ \A q \in Clients \ {p} : client'[q] = client[q]
  OBVIOUS
<1>2. conn'[c] = req /\ \A d \in Conns \ {c} : conn'[d] = conn[d]
  OBVIOUS
<1>3. \A d \in Conns : conn[d].owner # p
  BY OwedNothing
<1>4. mutex # c /\ (phase = "evict" => mutex \in Conns)
  BY NoneIsFresh DEF ServeInv, EvictsForAPut
<1>5. UNCHANGED <<mutex, phase, now, clock>>
  BY DEF handler
<1>6. \A d \in Conns : conn[d].owner \in Clients \cup {None}
  BY DEF Request
<1>7. p # None
  BY NoneIsFresh
<1>8. \A q \in Clients : Fresh(client'[q])
  BY <1>1 DEF ServeInv
<1>9. \A d \in Conns : conn'[d].owner # None =>
        Serves(conn'[d], client'[conn'[d].owner], clock)
  BY <1>1, <1>2, <1>3, <1>6 DEF ServeInv
<1>10. \A d, e \in Conns :
         conn'[d].owner # None /\ conn'[e].owner = conn'[d].owner => d = e
  BY <1>2, <1>3 DEF ServeInv
<1>11. \A d \in Conns : conn'[d].op = "put" => conn'[d].ttl \in TTLs
  BY <1>2 DEF ServeInv
<1>12. mutex # None =>
         /\ conn'[mutex].op # "none"
         /\ conn'[mutex].owner # None =>
              Serves(conn'[mutex], client'[conn'[mutex].owner], now)
  BY <1>1, <1>2, <1>3, <1>4, <1>6 DEF ServeInv
<1>13. phase = "evict" => conn'[mutex].ttl > 0
  BY <1>2, <1>4 DEF ServeInv
<1> QED
  BY <1>5, <1>8, <1>9, <1>10, <1>11, <1>12, <1>13 DEF ServeInv

(* The one client that waited is told, and the mutex is let go.            *)
LEMMA CallEnds ==
  ASSUME TypeInv, ServeInv, NEW c \in Conns, NEW answer, Fresh(answer), Reply(c, answer)
  PROVE  ServeInv'
<1> USE DEF TypeInv, TypeOK
<1>1. conn'[c] = NoRequest /\ \A d \in Conns \ {c} : conn'[d] = conn[d]
  BY DEF Reply
<1>2. \A d \in Conns : conn[d].owner \in Clients \cup {None}
  BY DEF Request
<1>3. \A q \in Clients : client'[q] = client[q] \/ (q = conn[c].owner /\ client'[q] = answer)
  BY <1>2 DEF Reply
<1>4. mutex' = None /\ phase' = "expire" /\ clock' = clock
  BY DEF Reply, Release
<1>5. \A q \in Clients : Fresh(client'[q])
  BY <1>3 DEF ServeInv
<1>6. NoRequest.owner = None /\ NoRequest.op = "none"
  BY DEF NoRequest
<1>7. \A d \in Conns : conn'[d].owner # None =>
        Serves(conn'[d], client'[conn'[d].owner], clock)
  BY <1>1, <1>2, <1>3, <1>6 DEF ServeInv
<1>8. \A d, e \in Conns :
        conn'[d].owner # None /\ conn'[e].owner = conn'[d].owner => d = e
  BY <1>1, <1>6 DEF ServeInv
<1>9. \A d \in Conns : conn'[d].op = "put" => conn'[d].ttl \in TTLs
  BY <1>1, <1>6 DEF ServeInv
<1> QED
  BY <1>4, <1>5, <1>7, <1>8, <1>9 DEF ServeInv

LEMMA AnswersFresh ==
  /\ Fresh(Idle)
  /\ \A k : Fresh(Missed(k))
  /\ \A k, since, val :
       Fresh([st |-> "hit", key |-> k, since |-> since, val |-> val])
  BY DEF Fresh, Idle, Missed

LEMMA GiveUpServes ==
  ASSUME TypeInv, ServeInv, NEW p \in Clients, GiveUp(p)
  PROVE  ServeInv'
<1> USE DEF TypeInv, TypeOK
<1>1. Fresh(client'[p]) /\ \A q \in Clients \ {p} : client'[q] = client[q]
  BY AnswersFresh DEF GiveUp
<1>2. \A d \in Conns : conn[d].owner \in Clients \cup {None}
  BY DEF Request
<1>3. \A d \in Conns : /\ conn'[d].owner = IF conn[d].owner = p THEN None ELSE conn[d].owner
                       /\ conn'[d].op = conn[d].op /\ conn'[d].key = conn[d].key
                       /\ conn'[d].ttl = conn[d].ttl
  BY DEF GiveUp, Request
<1>4. UNCHANGED <<mutex, phase, now, clock>>
  BY DEF GiveUp, handler
<1>5. \A d \in Conns : \A t : conn'[d].owner # None =>
        (Serves(conn'[d], client'[conn'[d].owner], t) <=>
         Serves(conn[d], client[conn[d].owner], t))
  BY <1>1, <1>2, <1>3 DEF Serves
<1>6. \A q \in Clients : Fresh(client'[q])
  BY <1>1 DEF ServeInv
<1>7. \A d \in Conns : conn'[d].owner # None =>
        Serves(conn'[d], client'[conn'[d].owner], clock)
  BY <1>3, <1>5 DEF ServeInv
<1>8. /\ \A d, e \in Conns :
           conn'[d].owner # None /\ conn'[e].owner = conn'[d].owner => d = e
      /\ \A d \in Conns : conn'[d].op = "put" => conn'[d].ttl \in TTLs
  BY <1>3 DEF ServeInv
<1>9. mutex # None =>
        /\ conn'[mutex].op # "none"
        /\ conn'[mutex].owner # None =>
             Serves(conn'[mutex], client'[conn'[mutex].owner], now)
  BY <1>3, <1>5 DEF ServeInv
<1>10. phase = "evict" => conn'[mutex].ttl > 0
  BY <1>3 DEF ServeInv, EvictsForAPut
<1> QED
  BY <1>4, <1>6, <1>7, <1>8, <1>9, <1>10 DEF ServeInv

LEMMA FinishServes ==
  ASSUME TypeInv, ServeInv, NEW p \in Clients, Finish(p)
  PROVE  ServeInv'
<1> USE DEF TypeInv, TypeOK
<1>1. \A d \in Conns : conn[d].owner # p
  BY OwedNothing DEF Finish, Waiting
<1>2. client'[p] = Idle /\ \A q \in Clients \ {p} : client'[q] = client[q]
  BY DEF Finish
<1>3. \A d \in Conns : conn[d].owner \in Clients \cup {None}
  BY DEF Request
<1>4. \A d \in Conns : conn[d].owner # None => client'[conn[d].owner] = client[conn[d].owner]
  BY <1>1, <1>2, <1>3
<1>5. UNCHANGED <<conn, mutex, phase, now, clock>>
  BY DEF Finish, handler
<1>6. \A q \in Clients : Fresh(client'[q])
  BY <1>2, AnswersFresh DEF ServeInv
<1> QED
  BY <1>4, <1>5, <1>6 DEF ServeInv

LEMMA TickServes ==
  ASSUME TypeInv, ServeInv, Tick
  PROVE  ServeInv'
<1>1. \A c \in Conns : conn[c].owner # None =>
        Serves(conn[c], client[conn[c].owner], clock + 1)
  <2> SUFFICES ASSUME NEW c \in Conns, conn[c].owner # None
               PROVE  Serves(conn[c], client[conn[c].owner], clock + 1)
    OBVIOUS
  <2>1. conn[c].owner \in Clients
    BY DEF TypeInv, TypeOK, Request
  <2>2. client[conn[c].owner].since \in Nat /\ clock \in Nat
    BY <2>1 DEF TypeInv, TypeOK, Client
  <2> QED
    BY <2>2 DEF ServeInv, Serves
<1> QED
  BY <1>1 DEF Tick, handler, ServeInv

LEMMA ServeNext == TypeInv /\ ServeInv /\ [Next]_vars => ServeInv'
<1> SUFFICES ASSUME TypeInv, ServeInv, [Next]_vars PROVE ServeInv'
  OBVIOUS
<1>1. ASSUME NEW p \in Clients, NEW k \in Keys, NEW c \in Conns, StartGet(p, k, c)
      PROVE  ServeInv'
  <2> DEFINE cl == [st |-> "getting", key |-> k, since |-> clock, val |-> None]
             req == [NoRequest EXCEPT !.op = "get", !.key = k, !.owner = p]
  <2>1. Fresh(cl) /\ req.owner = p /\ req.op = "get" /\ Serves(req, cl, clock)
    BY DEF Fresh, Serves, NoRequest, TypeInv, TypeOK
  <2>2. /\ client[p].st \notin Waiting /\ conn[c].op = "none"
        /\ client' = [client EXCEPT ![p] = cl] /\ conn' = [conn EXCEPT ![c] = req]
        /\ UNCHANGED <<handler, clock>>
    BY <1>1 DEF StartGet, Waiting
  <2> HIDE DEF cl, req
  <2> QED
    BY <2>1, <2>2, CallStarts
<1>2. ASSUME NEW p \in Clients, NEW v \in Vals, NEW ttl \in TTLs, NEW c \in Conns,
             StartPut(p, v, ttl, c)
      PROVE  ServeInv'
  <2> DEFINE cl == [client[p] EXCEPT !.st = "putting"]
             req == [op |-> "put", key |-> client[p].key, val |-> v, ttl |-> ttl,
                     owner |-> p]
  <2>1. Fresh(cl) /\ cl.st = "putting"
    BY <1>2 DEF Fresh, StartPut, TypeInv, TypeOK, Client, ServeInv
  <2>2. Serves(req, cl, clock) /\ req.owner = p /\ req.ttl \in TTLs
    BY <2>1 DEF Serves
  <2>3. /\ client[p].st \notin Waiting /\ conn[c].op = "none"
        /\ client' = [client EXCEPT ![p] = cl] /\ conn' = [conn EXCEPT ![c] = req]
        /\ UNCHANGED <<handler, clock>>
    BY <1>2 DEF StartPut, Waiting
  <2> HIDE DEF cl, req
  <2> QED
    BY <2>1, <2>2, <2>3, CallStarts
<1>3. ASSUME NEW p \in Clients, NEW op \in {"flush", "lock"}, NEW c \in Conns,
             StartControl(p, op, c)
      PROVE  ServeInv'
  <2> DEFINE cl == [client[p] EXCEPT !.st = "control"]
             req == [NoRequest EXCEPT !.op = op, !.owner = p]
  <2>1. Fresh(cl) /\ cl.st = "control"
    BY <1>3 DEF Fresh, StartControl, TypeInv, TypeOK, Client
  <2>2. Serves(req, cl, clock) /\ req.owner = p /\ req.op # "put"
    BY <2>1 DEF Serves, NoRequest
  <2>3. /\ client[p].st \notin Waiting /\ conn[c].op = "none"
        /\ client' = [client EXCEPT ![p] = cl] /\ conn' = [conn EXCEPT ![c] = req]
        /\ UNCHANGED <<handler, clock>>
    BY <1>3 DEF StartControl, Waiting
  <2> HIDE DEF cl, req
  <2> QED
    BY <2>1, <2>2, <2>3, CallStarts
<1>4. ASSUME NEW c \in Conns, Acquire(c)
      PROVE  ServeInv'
  BY <1>4 DEF Acquire, ServeInv
<1>5. ASSUME NEW c \in Conns,
             \/ HandleGet(c) \/ RefusePut(c) \/ InsertPut(c)
             \/ HandleFlush(c) \/ HandleLock(c)
      PROVE  ServeInv'
  BY <1>5, CallEnds, AnswersFresh DEF HandleGet, RefusePut, InsertPut, HandleFlush, HandleLock
<1>6. ASSUME NEW c \in Conns, BeginPut(c)
      PROVE  ServeInv'
  BY <1>6 DEF BeginPut, Dispatch, Accepts, ServeInv
<1>7. ASSUME NEW k \in Keys, ExpireOne(k) \/ EvictOldest(k)
      PROVE  ServeInv'
  BY <1>7 DEF ExpireOne, EvictOldest, handler, ServeInv
<1>8. ASSUME Restart
      PROVE  ServeInv'
  <2>1. \A p \in Clients : Fresh(client'[p])
    BY <1>8, AnswersFresh DEF Restart, ServeInv
  <2>2. \A c \in Conns : conn'[c].owner = None /\ conn'[c].op = "none"
    BY <1>8 DEF Restart, NoRequest
  <2> QED
    BY <1>8, <2>1, <2>2 DEF Restart, Release, ServeInv
<1>9. CASE UNCHANGED vars
  BY <1>9 DEF vars, ServeInv
<1> QED
  BY <1>1, <1>2, <1>3, <1>4, <1>5, <1>6, <1>7, <1>8, <1>9, GiveUpServes, FinishServes,
     TickServes DEF Next, Handle

-----------------------------------------------------------------------------
(* The simulation, one lemma for each action that moves what the promise   *)
(* is about.                                                               *)

(* A client, rebuilt field by field.                                       *)
LEMMA ClientIs ==
  ASSUME NEW cl \in Client
  PROVE  /\ [cl EXCEPT !.st = "putting"] =
              [st |-> "putting", key |-> cl.key, since |-> cl.since, val |-> cl.val]
         /\ [cl EXCEPT !.st = "control"] =
              [st |-> "control", key |-> cl.key, since |-> cl.since, val |-> cl.val]
         /\ \A v : [cl EXCEPT !.st = "hit", !.val = v] =
              [st |-> "hit", key |-> cl.key, since |-> cl.since, val |-> v]
<1>1. cl = [st |-> cl.st, key |-> cl.key, since |-> cl.since, val |-> cl.val]
  BY DEF Client
<1>2. [cl EXCEPT !.st = "putting"] =
        [st |-> "putting", key |-> cl.key, since |-> cl.since, val |-> cl.val]
  BY <1>1
<1>3. [cl EXCEPT !.st = "control"] =
        [st |-> "control", key |-> cl.key, since |-> cl.since, val |-> cl.val]
  BY <1>1
<1>4. ASSUME NEW v
      PROVE  [cl EXCEPT !.st = "hit", !.val = v] =
               [st |-> "hit", key |-> cl.key, since |-> cl.since, val |-> v]
  <2> DEFINE l == [cl EXCEPT !.st = "hit", !.val = v]
             r == [st |-> "hit", key |-> cl.key, since |-> cl.since, val |-> v]
  <2>1. DOMAIN cl = {"st", "key", "since", "val"}
    BY <1>1
  <2>2. l = [f \in {"st", "key", "since", "val"} |->
               IF f = "val" THEN v ELSE IF f = "st" THEN "hit" ELSE cl[f]]
    BY <2>1
  <2>3. r = [f \in {"st", "key", "since", "val"} |->
               IF f = "val" THEN v ELSE IF f = "st" THEN "hit" ELSE cl[f]]
    OBVIOUS
  <2> QED
    BY <2>2, <2>3
<1> QED
  BY <1>2, <1>3, <1>4

LEMMA HeldStays ==
  ASSUME UNCHANGED entries
  PROVE  Held' = Held
  BY DEF Held

(* Only one client moves, in one of the ways the promise leaves it free.   *)
LEMMA OneMoves ==
  ASSUME NEW p \in Clients, NEW st \in {"missed", "putting", "control", "idle"},
         st = "missed" => client[p].st = "getting",
         client' = [client EXCEPT ![p] =
           IF st = "idle" THEN Idle
           ELSE [st |-> st, key |-> client[p].key, since |-> 0, val |-> None]],
         UNCHANGED <<entries, locked, clock>>
  PROVE  Promise!ClientMoves
  BY HeldStays DEF Promise!ClientMoves, Promise!Idle, Idle

LEMMA AsksSimulated ==
  ASSUME TypeInv, NEW p \in Clients, NEW k \in Keys, NEW c \in Conns, StartGet(p, k, c)
  PROVE  Promise!Next
<1>1. Promise!Ask(p, k)
  BY HeldStays DEF StartGet, Promise!Ask, cache
<1> QED
  BY <1>1 DEF Promise!Next

LEMMA StartsSimulated ==
  ASSUME TypeInv, ServeInv, NEW p \in Clients, NEW c \in Conns,
         \/ \E v \in Vals, ttl \in TTLs : StartPut(p, v, ttl, c)
         \/ \E op \in {"flush", "lock"} : StartControl(p, op, c)
  PROVE  Promise!Next
<1>1. client[p] \in Client /\ Fresh(client[p])
  BY DEF TypeInv, TypeOK, ServeInv
<1>2. CASE \E v \in Vals, ttl \in TTLs : StartPut(p, v, ttl, c)
  <2>1. client[p].since = 0 /\ client[p].val = None
    BY <1>1, <1>2 DEF StartPut, Fresh
  <2>2. client' = [client EXCEPT ![p] =
          [st |-> "putting", key |-> client[p].key, since |-> 0, val |-> None]]
    BY <1>1, <1>2, <2>1, ClientIs DEF StartPut
  <2>3. Promise!ClientMoves
    BY <1>2, <2>2, OneMoves DEF StartPut, cache
  <2> QED
    BY <2>3 DEF Promise!Next
<1>3. CASE \E op \in {"flush", "lock"} : StartControl(p, op, c)
  <2>1. client[p].since = 0 /\ client[p].val = None
    BY <1>1, <1>3 DEF StartControl, Fresh, Idle
  <2>2. client' = [client EXCEPT ![p] =
          [st |-> "control", key |-> client[p].key, since |-> 0, val |-> None]]
    BY <1>1, <1>3, <2>1, ClientIs DEF StartControl
  <2>3. Promise!ClientMoves
    BY <1>3, <2>2, OneMoves DEF StartControl, cache
  <2> QED
    BY <2>3 DEF Promise!Next
<1> QED
  BY <1>2, <1>3

LEMMA EndsSimulated ==
  ASSUME TypeInv, NEW p \in Clients, GiveUp(p) \/ Finish(p)
  PROVE  Promise!Next
<1>1. UNCHANGED <<entries, locked, clock>>
  BY DEF GiveUp, Finish, cache
<1>2. CASE client[p].st = "getting" /\ client' = [client EXCEPT ![p] = Missed(client[p].key)]
  <2>1. Promise!ClientMoves
    BY <1>1, <1>2, OneMoves DEF Missed
  <2> QED
    BY <2>1 DEF Promise!Next
<1>3. CASE client' = [client EXCEPT ![p] = Idle]
  <2>1. Promise!ClientMoves
    BY <1>1, <1>3, OneMoves
  <2> QED
    BY <2>1 DEF Promise!Next
<1> QED
  BY <1>2, <1>3 DEF GiveUp, Finish

(* A found value had not expired at the time the handler read, which is    *)
(* not before its client asked.                                            *)
LEMMA GetSimulated ==
  ASSUME TypeInv, ServeInv, NEW c \in Conns, HandleGet(c)
  PROVE  [Promise!Next]_Promise!vars
<1> DEFINE k == conn[c].key
           p == conn[c].owner
<1>1. /\ UNCHANGED <<entries, locked, clock>> /\ mutex = c /\ conn[c].op = "get"
      /\ Expired = {}
  BY DEF HandleGet, Dispatch, Reply, cache
<1>2. p \in Clients \cup {None} /\ mutex # None
  BY <1>1, NoneIsFresh DEF TypeInv, TypeOK, Request
<1>3. CASE p = None
  <2>1. UNCHANGED client
    BY <1>3 DEF HandleGet, Reply
  <2> QED
    BY <1>1, <2>1, HeldStays DEF Promise!vars
<1>4. CASE p # None
  <2>1. /\ p \in Clients /\ client[p] \in Client
        /\ client[p].st = "getting" /\ client[p].key = k /\ client[p].since <= now
    BY <1>1, <1>2, <1>4 DEF ServeInv, Serves, TypeInv, TypeOK
  <2>2. CASE client' = [client EXCEPT ![p] = Missed(k)]
    <3>1. Promise!ClientMoves
      BY <1>1, <2>1, <2>2, OneMoves DEF Missed
    <3> QED
      BY <3>1 DEF Promise!Next
  <2>3. CASE /\ ~locked /\ k \in DOMAIN entries
             /\ client' = [client EXCEPT ![p] =
                  [st |-> "hit", key |-> k, since |-> client[p].since,
                   val |-> entries[k].val]]
    <3>1. client' = [client EXCEPT
                       ![p] = [client[p] EXCEPT !.st = "hit", !.val = entries[k].val]]
      BY <2>1, <2>3, ClientIs
    <3>2. /\ k \in DOMAIN Held /\ Held[k].val = entries[k].val
          /\ Held[k].expires = entries[k].expires
      BY <2>3 DEF Held
    <3>3. entries[k].expires > client[p].since
      <4>1. /\ entries[k].expires \in Nat /\ now \in Nat /\ client[p].since \in Nat
            /\ ~(entries[k].expires <= now)
        BY <1>1, <2>1, <2>3 DEF TypeInv, TypeOK, Entry, Client, Expired
      <4> QED
        BY <2>1, <4>1
    <3>4. Promise!AnswerFound(p)
      BY <1>1, <2>1, <2>3, <3>1, <3>2, <3>3, HeldStays DEF Promise!AnswerFound
    <3> QED
      BY <2>1, <3>4 DEF Promise!Next
  <2> QED
    BY <1>4, <2>2, <2>3 DEF HandleGet, Reply
<1> QED
  BY <1>3, <1>4

LEMMA RefusalSimulated ==
  ASSUME TypeInv, NEW c \in Conns, RefusePut(c)
  PROVE  [Promise!Next]_Promise!vars
<1>1. UNCHANGED <<entries, locked, clock>> /\ conn[c].owner \in Clients \cup {None}
  BY DEF RefusePut, Reply, cache, TypeInv, TypeOK, Request
<1>2. CASE conn[c].owner = None
  BY <1>1, <1>2, HeldStays DEF RefusePut, Reply, Promise!vars
<1>3. CASE conn[c].owner \in Clients
  <2>1. client' = [client EXCEPT ![conn[c].owner] = Idle]
    BY <1>3, NoneIsFresh DEF RefusePut, Reply
  <2>2. Promise!ClientMoves
    BY <1>1, <1>3, <2>1, OneMoves
  <2> QED
    BY <2>2 DEF Promise!Next
<1> QED
  BY <1>1, <1>2, <1>3

LEMMA RepliesEndCalls ==
  ASSUME TypeInv, NEW c \in Conns, Reply(c, Idle)
  PROVE  Promise!CallsEnd /\ DOMAIN client' = Clients
  BY DEF TypeInv, TypeOK, Request, Reply, Promise!CallsEnd, Promise!Idle, Idle

LEMMA NothingHeld ==
  ASSUME DOMAIN entries' = {}
  PROVE  Held' = Promise!Narrower(Held, {})
  BY DEF Held, Promise!Narrower

(* The put stores its value until clock + ttl and keeps the other keys the *)
(* eviction loop left.                                                     *)
LEMMA InsertSimulated ==
  ASSUME TypeInv, ServeInv, NEW c \in Conns, InsertPut(c)
  PROVE  Promise!Next
<1> DEFINE k == conn[c].key
           v == conn[c].val
           ttl == conn[c].ttl
           kept == DOMAIN entries \ {k}
<1>1. /\ mutex = c /\ phase = "evict" /\ conn[c].op = "put" /\ ~locked
      /\ UNCHANGED <<locked, clock>>
  BY DEF InsertPut, TypeInv, EvictsForAPut, Reply
<1>2. k \in Keys /\ v \in Vals /\ ttl \in TTLs /\ ttl > 0
  BY <1>1 DEF TypeInv, TypeOK, PutsCarryAValue, ServeInv
<1>3. entries' = [j \in DOMAIN entries \cup {k} |->
                    IF j = k THEN [val |-> v, expires |-> clock + ttl, bytes |-> Size[v]]
                    ELSE entries[j]]
  BY DEF InsertPut
<1>4. Held' = [j \in kept \cup {k} |->
                 IF j = k THEN [val |-> v, expires |-> clock + ttl] ELSE Held[j]]
  <2>1. DOMAIN entries' = kept \cup {k}
    BY <1>3
  <2>2. Held' = [j \in kept \cup {k} |->
                   [val |-> entries'[j].val, expires |-> entries'[j].expires]]
    BY <2>1 DEF Held
  <2>3. \A j \in kept \cup {k} :
          [val |-> entries'[j].val, expires |-> entries'[j].expires] =
            IF j = k THEN [val |-> v, expires |-> clock + ttl] ELSE Held[j]
    BY <1>3 DEF Held
  <2> QED
    BY <2>2, <2>3
<1>5. kept \in SUBSET (DOMAIN Held \ {k})
  BY DEF Held
<1>6. Promise!Put(k, v, ttl)
  BY <1>1, <1>2, <1>4, <1>5 DEF Promise!Put
<1>7. Promise!CallsEnd /\ DOMAIN client' = Clients
  BY RepliesEndCalls DEF InsertPut
<1>8. Promise!StoreMoves
  BY <1>2, <1>6, <1>7 DEF Promise!StoreMoves
<1> QED
  BY <1>8 DEF Promise!Next

LEMMA EmptyingSimulated ==
  ASSUME TypeInv, NEW c \in Conns, HandleFlush(c) \/ HandleLock(c)
  PROVE  Promise!Next
<1>1. Held' = Promise!Narrower(Held, {}) /\ UNCHANGED clock
  BY NothingLeft, NothingHeld DEF HandleFlush, HandleLock, Flushed, Reply
<1>2. Promise!Forget \/ Promise!Lock
  BY <1>1 DEF HandleFlush, HandleLock, Promise!Forget, Promise!Lock
<1>3. Promise!CallsEnd /\ DOMAIN client' = Clients
  BY RepliesEndCalls DEF HandleFlush, HandleLock
<1>4. Promise!StoreMoves
  BY <1>2, <1>3 DEF Promise!StoreMoves
<1> QED
  BY <1>4 DEF Promise!Next

LEMMA RemovalSimulated ==
  ASSUME TypeInv, NEW k \in Keys, ExpireOne(k) \/ EvictOldest(k)
  PROVE  Promise!Next
<1>1. entries' = Without(k) /\ UNCHANGED <<locked, clock, client>>
  BY DEF ExpireOne, EvictOldest
<1>2. Held' = Promise!Narrower(Held, DOMAIN entries \ {k})
  BY <1>1 DEF Held, Promise!Narrower, Without, Restrict
<1>3. DOMAIN entries \ {k} \in SUBSET (DOMAIN Held)
  BY DEF Held
<1>4. Promise!Forget
  BY <1>1, <1>2, <1>3 DEF Promise!Forget
<1>5. Promise!CallsEnd /\ DOMAIN client' = Clients
  BY <1>1 DEF Promise!CallsEnd, TypeInv, TypeOK
<1>6. Promise!StoreMoves
  BY <1>4, <1>5 DEF Promise!StoreMoves
<1> QED
  BY <1>6 DEF Promise!Next

LEMMA RestartSimulated ==
  ASSUME TypeInv, Restart
  PROVE  Promise!Next
<1>1. Held' = Promise!Narrower(Held, {}) /\ locked' = FALSE /\ UNCHANGED clock
  BY NothingLeft, NothingHeld DEF Restart, Flushed
<1>2. Promise!Restart
  BY <1>1 DEF Promise!Restart
<1>3. Promise!CallsEnd /\ DOMAIN client' = Clients
  BY DEF Restart, Missed, Idle, Promise!CallsEnd, Promise!Idle
<1>4. Promise!StoreMoves
  BY <1>2, <1>3 DEF Promise!StoreMoves
<1> QED
  BY <1>4 DEF Promise!Next

LEMMA StepSimulated ==
  ASSUME TypeInv, ServeInv, [Next]_vars
  PROVE  [Promise!Next]_Promise!vars
<1>1. ASSUME NEW c \in Conns, Acquire(c) \/ BeginPut(c)
      PROVE  UNCHANGED Promise!vars
  BY <1>1, HeldStays DEF Acquire, BeginPut, cache, Promise!vars
<1>2. CASE UNCHANGED vars
  BY <1>2, HeldStays DEF vars, Promise!vars
<1>3. CASE Tick
  <2>1. Promise!Tick
    BY <1>3, HeldStays DEF Tick, cache, Promise!Tick
  <2> QED
    BY <2>1 DEF Promise!Next
<1> QED
  BY <1>1, <1>2, <1>3, AsksSimulated, StartsSimulated, EndsSimulated, GetSimulated,
     RefusalSimulated, InsertSimulated, EmptyingSimulated, RemovalSimulated,
     RestartSimulated DEF Next, Handle

(* Whatever is evicted, expires or is flushed, however late the requests   *)
(* of clients that gave up are handled: a get is answered with nothing, or *)
(* with what the latest put under its key stored and whose expiry had not  *)
(* passed when the client asked; after a lock, with nothing until the      *)
(* agent is served again.                                                  *)
THEOREM AgentKeepsItsPromise == Spec => ImplementsPromise
<1>1. Init => Promise!Init
  <2> SUFFICES ASSUME Init PROVE Promise!Init
    OBVIOUS
  <2>1. Held = Promise!Narrower(<<>>, {})
    BY NothingLeft DEF Init, Held, Promise!Narrower
  <2> QED
    BY <2>1 DEF Init, Promise!Init, Promise!Idle, Idle
<1>2. TypeInv /\ ServeInv /\ [Next]_vars => [Promise!Next]_Promise!vars
  BY StepSimulated
<1>3. Spec => [](TypeInv /\ ServeInv)
  BY TypeInit, TypeNext, ServeInit, ServeNext, PTL DEF Spec
<1> QED
  BY <1>1, <1>2, <1>3, PTL DEF Spec, ImplementsPromise, Promise!Spec
=============================================================================
