-------------------------- MODULE AgentCacheProofs --------------------------
(***************************************************************************)
(* What the agent keeps for every number of clients, connections, keys and *)
(* sizes.  The inductive invariant adds to the type invariant what a       *)
(* handler inside a put's eviction loop relies on: it still serves that    *)
(* put, and the cache is not locked.                                       *)
(***************************************************************************)
EXTENDS AgentCache, FiniteSetTheorems, TLAPS

(* A client that asked, or was told there is nothing, knows for which key. *)
KnowsItsKey ==
    \A p \in Clients : client[p].st \in {"getting", "missed"} => client[p].key \in Keys

PutsCarryAValue == \A c \in Conns : conn[c].op = "put" => conn[c].val \in Vals

EvictsForAPut ==
    phase = "evict" => mutex \in Conns /\ conn[mutex].op = "put" /\ ~locked

TypeInv == TypeOK /\ KnowsItsKey /\ PutsCarryAValue /\ EvictsForAPut

(* An emptied cache is a function, with nothing in it.                     *)
LEMMA NothingLeft ==
  ASSUME NEW f
  PROVE  /\ DOMAIN Restrict(f, {}) = {}
         /\ Restrict(f, {}) \in [DOMAIN Restrict(f, {}) -> Entry]
  BY DEF Restrict

LEMMA TypeInit == Init => TypeInv
<1> SUFFICES ASSUME Init PROVE TypeInv
  OBVIOUS
<1>1. DOMAIN entries \subseteq Keys /\ entries \in [DOMAIN entries -> Entry]
  BY NothingLeft DEF Init
<1>2. conn \in [Conns -> Request] /\ \A c \in Conns : conn[c].op = "none"
  BY DEF Init, NoRequest, Request
<1>3. client \in [Clients -> Client] /\ \A p \in Clients : client[p].st = "idle"
  BY DEF Init, Idle, Client
<1>4. locked \in BOOLEAN /\ doubled \in BOOLEAN
  BY DEF Init
<1>5. /\ bytes = 0 /\ mutex = None /\ phase = "expire" /\ now = 0 /\ clock = 0
  BY DEF Init
<1> QED
  BY <1>1, <1>2, <1>3, <1>4, <1>5
     DEF TypeInv, TypeOK, KnowsItsKey, PutsCarryAValue, EvictsForAPut

(* The pieces of a step that empties the cache and lets go of the mutex.    *)
LEMMA Assembled ==
  ASSUME TypeInv,
         DOMAIN entries' \subseteq Keys, entries' \in [DOMAIN entries' -> Entry],
         locked' \in BOOLEAN, doubled' \in BOOLEAN,
         client' \in [Clients -> Client], KnowsItsKey', conn' \in [Conns -> Request],
         \A d \in Conns : conn'[d] = conn[d] \/ conn'[d].op = "none",
         bytes' = 0, mutex' = None, phase' = "expire", now' = 0, clock' = clock
  PROVE  TypeInv'
<1>1. \A c \in Conns : conn'[c].op \in {"get", "put"} => conn'[c].key \in Keys
  BY DEF TypeInv, TypeOK
<1>2. PutsCarryAValue'
  BY DEF TypeInv, PutsCarryAValue
<1>3. EvictsForAPut'
  BY DEF EvictsForAPut
<1>4. clock' \in Nat /\ bytes' \in Int /\ now' \in Nat /\ mutex' \in Conns \cup {None}
  BY DEF TypeInv, TypeOK
<1> QED
  BY <1>1, <1>2, <1>3, <1>4 DEF TypeInv, TypeOK

LEMMA TypeNext == TypeInv /\ [Next]_vars => TypeInv'
<1> SUFFICES ASSUME TypeInv, [Next]_vars PROVE TypeInv'
  OBVIOUS
<1> USE NoneIsFresh, SizesAreNat, LimitsAreNat, TimesAreNat
<1> USE DEF TypeInv, TypeOK, KnowsItsKey, PutsCarryAValue, EvictsForAPut, Request, Client, Entry
<1>1. ASSUME NEW p \in Clients, NEW k \in Keys, NEW c \in Conns, StartGet(p, k, c)
      PROVE TypeInv'
  <2>1. client' \in [Clients -> Client] /\ KnowsItsKey'
    BY <1>1 DEF StartGet
  <2>2. /\ conn' \in [Conns -> Request]
        /\ \A d \in Conns : conn'[d].op \in {"get", "put"} => conn'[d].key \in Keys
        /\ PutsCarryAValue'
    BY <1>1 DEF StartGet, NoRequest
  <2>3. \A d \in Conns : conn[d].op = "put" => conn'[d] = conn[d]
    BY <1>1 DEF StartGet
  <2> QED
    BY <1>1, <2>1, <2>2, <2>3 DEF StartGet, cache, handler
<1>2. ASSUME NEW p \in Clients, NEW v \in Vals, NEW ttl \in TTLs, NEW c \in Conns,
             StartPut(p, v, ttl, c)
      PROVE TypeInv'
  <2>1. client' \in [Clients -> Client] /\ KnowsItsKey'
    BY <1>2 DEF StartPut
  <2>2. /\ conn' \in [Conns -> Request]
        /\ \A d \in Conns : conn'[d].op \in {"get", "put"} => conn'[d].key \in Keys
        /\ PutsCarryAValue'
    BY <1>2 DEF StartPut
  <2>3. \A d \in Conns : conn[d].op = "put" => conn'[d] = conn[d]
    BY <1>2 DEF StartPut
  <2> QED
    BY <1>2, <2>1, <2>2, <2>3 DEF StartPut, cache, handler
<1>3. ASSUME NEW p \in Clients, NEW op \in {"flush", "lock"}, NEW c \in Conns,
             StartControl(p, op, c)
      PROVE TypeInv'
  <2>1. client' \in [Clients -> Client] /\ KnowsItsKey'
    BY <1>3 DEF StartControl
  <2>2. /\ conn' \in [Conns -> Request]
        /\ \A d \in Conns : conn'[d].op \in {"get", "put"} => conn'[d].key \in Keys
        /\ PutsCarryAValue'
    BY <1>3 DEF StartControl, NoRequest
  <2>3. \A d \in Conns : conn[d].op = "put" => conn'[d] = conn[d]
    BY <1>3 DEF StartControl
  <2> QED
    BY <1>3, <2>1, <2>2, <2>3 DEF StartControl, cache, handler
<1>4. ASSUME NEW p \in Clients, GiveUp(p)
      PROVE TypeInv'
  <2>1. client' \in [Clients -> Client] /\ KnowsItsKey'
    BY <1>4 DEF GiveUp, Waiting, Missed, Idle
  <2>2. conn' \in [Conns -> Request]
    BY <1>4 DEF GiveUp
  <2>3. \A c \in Conns : /\ conn'[c].op = conn[c].op
                         /\ conn'[c].key = conn[c].key
                         /\ conn'[c].val = conn[c].val
    BY <1>4 DEF GiveUp
  <2> QED
    BY <1>4, <2>1, <2>2, <2>3 DEF GiveUp, cache, handler
<1>5. ASSUME NEW p \in Clients, Finish(p)
      PROVE TypeInv'
  BY <1>5 DEF Finish, Idle, cache, handler
<1>6. ASSUME NEW c \in Conns, Acquire(c)
      PROVE TypeInv'
  BY <1>6 DEF Acquire, cache
<1>7. ASSUME NEW c \in Conns, HandleGet(c)
      PROVE TypeInv'
  <2> DEFINE k == conn[c].key
  <2>1. k \in Keys
    BY <1>7 DEF HandleGet, Dispatch
  <2>2. CASE (locked \/ k \notin DOMAIN entries) /\ Reply(c, Missed(k))
    BY <1>7, <2>1, <2>2 DEF HandleGet, Reply, Release, Missed, NoRequest, cache
  <2>3. CASE /\ ~locked /\ k \in DOMAIN entries
             /\ Reply(c, [st |-> "hit", key |-> k,
                          since |-> client[conn[c].owner].since, val |-> entries[k].val])
    <3>1. entries[k].val \in Vals
      BY <2>3
    <3>2. client' \in [Clients -> Client] /\ KnowsItsKey'
      BY <2>1, <2>3, <3>1 DEF Reply
    <3>3. /\ conn' \in [Conns -> Request]
          /\ \A d \in Conns : conn'[d] = conn[d] \/ conn'[d].op = "none"
      BY <2>3 DEF Reply, NoRequest
    <3> QED
      BY <1>7, <2>3, <3>2, <3>3 DEF HandleGet, Reply, Release, cache
  <2> QED
    BY <1>7, <2>2, <2>3 DEF HandleGet
<1>8. ASSUME NEW c \in Conns, RefusePut(c)
      PROVE TypeInv'
  BY <1>8 DEF RefusePut, Dispatch, Reply, Release, Idle, NoRequest, cache
<1>9. ASSUME NEW c \in Conns, BeginPut(c)
      PROVE TypeInv'
  BY <1>9 DEF BeginPut, Dispatch, Accepts, Replaced
<1>10. ASSUME NEW c \in Conns, InsertPut(c)
       PROVE TypeInv'
  BY <1>10 DEF InsertPut, Reply, Release, Idle, NoRequest
<1>11. ASSUME NEW c \in Conns, HandleFlush(c)
       PROVE TypeInv'
  <2>1. DOMAIN entries' \subseteq Keys /\ entries' \in [DOMAIN entries' -> Entry]
    BY <1>11, NothingLeft DEF HandleFlush, Flushed
  <2>2. locked' \in BOOLEAN /\ doubled' \in BOOLEAN
    BY <1>11 DEF HandleFlush, Flushed
  <2>3. /\ client' \in [Clients -> Client] /\ KnowsItsKey'
        /\ conn' \in [Conns -> Request]
        /\ \A d \in Conns : conn'[d] = conn[d] \/ conn'[d].op = "none"
    BY <1>11 DEF HandleFlush, Reply, Idle, NoRequest
  <2>4. bytes' = 0 /\ mutex' = None /\ phase' = "expire" /\ now' = 0 /\ clock' = clock
    BY <1>11 DEF HandleFlush, Flushed, Reply, Release
  <2> QED
    BY <2>1, <2>2, <2>3, <2>4, Assembled
<1>12. ASSUME NEW c \in Conns, HandleLock(c)
       PROVE TypeInv'
  <2>1. DOMAIN entries' \subseteq Keys /\ entries' \in [DOMAIN entries' -> Entry]
    BY <1>12, NothingLeft DEF HandleLock, Flushed
  <2>2. locked' \in BOOLEAN /\ doubled' \in BOOLEAN
    BY <1>12 DEF HandleLock, Flushed
  <2>3. /\ client' \in [Clients -> Client] /\ KnowsItsKey'
        /\ conn' \in [Conns -> Request]
        /\ \A d \in Conns : conn'[d] = conn[d] \/ conn'[d].op = "none"
    BY <1>12 DEF HandleLock, Reply, Idle, NoRequest
  <2>4. bytes' = 0 /\ mutex' = None /\ phase' = "expire" /\ now' = 0 /\ clock' = clock
    BY <1>12 DEF HandleLock, Flushed, Reply, Release
  <2> QED
    BY <2>1, <2>2, <2>3, <2>4, Assembled
<1>13. ASSUME NEW k \in Keys, ExpireOne(k)
       PROVE TypeInv'
  BY <1>13 DEF ExpireOne, Expired, Without, Restrict, handler
<1>14. ASSUME NEW k \in Keys, EvictOldest(k)
       PROVE TypeInv'
  BY <1>14 DEF EvictOldest, Without, Restrict, handler
<1>15. ASSUME Restart
       PROVE TypeInv'
  <2>1. DOMAIN entries' \subseteq Keys /\ entries' \in [DOMAIN entries' -> Entry]
    BY <1>15, NothingLeft DEF Restart, Flushed
  <2>2. client' \in [Clients -> Client] /\ KnowsItsKey'
    BY <1>15 DEF Restart, Missed, Idle, Waiting
  <2>3. conn' \in [Conns -> Request] /\ \A c \in Conns : conn'[c].op = "none"
    BY <1>15 DEF Restart, NoRequest
  <2>4. locked' \in BOOLEAN /\ doubled' \in BOOLEAN
    BY <1>15 DEF Restart, Flushed
  <2>5. bytes' = 0 /\ mutex' = None /\ phase' = "expire" /\ now' = 0 /\ clock' = clock
    BY <1>15 DEF Restart, Flushed, Release
  <2> QED
    BY <2>1, <2>2, <2>3, <2>4, <2>5, Assembled
<1>16. ASSUME Tick
       PROVE TypeInv'
  BY <1>16 DEF Tick, cache, handler
<1>17. CASE UNCHANGED vars
  BY <1>17 DEF vars
<1> QED
  BY <1>1, <1>2, <1>3, <1>4, <1>5, <1>6, <1>7, <1>8, <1>9, <1>10, <1>11, <1>12, <1>13,
     <1>14, <1>15, <1>16, <1>17
     DEF Next, Handle

(* At every moment each variable has its type: in particular the counter   *)
(* stays an integer and a request under way always names a real key.       *)
THEOREM TypeCorrect == Spec => []TypeOK
<1>1. Init => TypeInv
  BY TypeInit
<1>2. TypeInv /\ [Next]_vars => TypeInv'
  BY TypeNext
<1>3. TypeInv => TypeOK
  BY DEF TypeInv
<1> QED
  BY <1>1, <1>2, <1>3, PTL DEF Spec

-----------------------------------------------------------------------------
(* The cache is empty when it is locked: the only step that adds an entry  *)
(* is taken by a handler that saw it unlocked and has held the mutex since.*)
LEMMA LockedNext ==
  TypeInv /\ LockedHoldsNothing /\ [Next]_vars => LockedHoldsNothing'
<1> SUFFICES ASSUME TypeInv, LockedHoldsNothing, [Next]_vars PROVE LockedHoldsNothing'
  OBVIOUS
<1> USE NoneIsFresh DEF LockedHoldsNothing
<1>1. ASSUME NEW c \in Conns, InsertPut(c)
      PROVE ~locked'
  BY <1>1 DEF InsertPut, TypeInv, EvictsForAPut
<1>2. ASSUME Flushed
      PROVE DOMAIN entries' = {}
  BY <1>2, NothingLeft DEF Flushed
<1>3. ASSUME NEW k \in Keys, ExpireOne(k) \/ EvictOldest(k)
      PROVE locked' = locked /\ DOMAIN entries' \subseteq DOMAIN entries
  BY <1>3 DEF ExpireOne, EvictOldest, Without, Restrict
<1>4. ASSUME NEW c \in Conns, HandleGet(c) \/ RefusePut(c) \/ BeginPut(c)
      PROVE UNCHANGED <<locked, entries>>
  BY <1>4 DEF HandleGet, RefusePut, BeginPut, cache
<1>5. ASSUME NEW c \in Conns, HandleFlush(c) \/ HandleLock(c)
      PROVE Flushed
  BY <1>5 DEF HandleFlush, HandleLock
<1>6. ASSUME Restart
      PROVE Flushed
  BY <1>6 DEF Restart
<1>7. ASSUME \/ \E p \in Clients, k \in Keys, c \in Conns : StartGet(p, k, c)
             \/ \E p \in Clients, v \in Vals, ttl \in TTLs, c \in Conns :
                  StartPut(p, v, ttl, c)
             \/ \E p \in Clients, op \in {"flush", "lock"}, c \in Conns :
                  StartControl(p, op, c)
             \/ \E p \in Clients : GiveUp(p) \/ Finish(p)
             \/ \E c \in Conns : Acquire(c)
             \/ Tick
             \/ UNCHANGED vars
      PROVE UNCHANGED <<locked, entries>>
  BY <1>7 DEF StartGet, StartPut, StartControl, GiveUp, Finish, Acquire, Tick, cache, vars
<1> QED
  BY <1>1, <1>2, <1>3, <1>4, <1>5, <1>6, <1>7 DEF Next, Handle

(* Once locked the agent holds nothing until it is served again, whatever  *)
(* puts were queued on its mutex when the lock was handled.                *)
THEOREM LockHolds == Spec => []LockedHoldsNothing
<1>1. Init => TypeInv /\ LockedHoldsNothing
  BY TypeInit DEF Init, LockedHoldsNothing
<1>2. TypeInv /\ LockedHoldsNothing /\ [Next]_vars => (TypeInv /\ LockedHoldsNothing)'
  BY TypeNext, LockedNext
<1> QED
  BY <1>1, <1>2, PTL DEF Spec

-----------------------------------------------------------------------------
(* The number of entries stays within its bound: an insertion follows an   *)
(* eviction loop that made room, and no other step adds a key.             *)
CapInv == IsFiniteSet(DOMAIN entries) /\ EntryCap

LEMMA CapInit == Init => CapInv
  BY NothingLeft, FS_EmptySet, LimitsAreNat DEF Init, CapInv, EntryCap

(* Fewer keys of a finite cache are finitely many, and no more.            *)
LEMMA FewerKeys ==
  ASSUME CapInv, DOMAIN entries' \subseteq DOMAIN entries
  PROVE  CapInv'
<1>1. /\ IsFiniteSet(DOMAIN entries')
      /\ Cardinality(DOMAIN entries') <= Cardinality(DOMAIN entries)
  BY FS_Subset DEF CapInv
<1>2. Cardinality(DOMAIN entries') \in Nat /\ Cardinality(DOMAIN entries) \in Nat
  BY <1>1, FS_CardinalityType DEF CapInv
<1> QED
  BY <1>1, <1>2, LimitsAreNat DEF CapInv, EntryCap

LEMMA InsertKeepsCap ==
  ASSUME CapInv, NEW c \in Conns, InsertPut(c)
  PROVE  CapInv'
<1> DEFINE held == DOMAIN entries
           new == conn[c].key
<1>1. DOMAIN entries' = held \cup {new}
  BY DEF InsertPut
<1>2. /\ IsFiniteSet(held)
      /\ Cardinality(held) \in Nat
      /\ held = {} => Cardinality(held) = 0
  BY FS_CardinalityType, FS_EmptySet DEF CapInv
<1>3. /\ IsFiniteSet(held \cup {new})
      /\ Cardinality(held \cup {new}) =
           IF new \in held THEN Cardinality(held) ELSE Cardinality(held) + 1
  BY <1>2, FS_AddElement
<1>4. held = {} \/ ~(Cardinality(held) >= MaxEntries)
  BY DEF InsertPut, MustEvict
<1> QED
  BY <1>1, <1>2, <1>3, <1>4, LimitsAreNat DEF CapInv, EntryCap

LEMMA CapNext == CapInv /\ [Next]_vars => CapInv'
<1> SUFFICES ASSUME CapInv, [Next]_vars PROVE CapInv'
  OBVIOUS
<1>1. ASSUME NEW c \in Conns, InsertPut(c)
      PROVE CapInv'
  BY <1>1, InsertKeepsCap
<1>2. ASSUME NEW k \in Keys, ExpireOne(k) \/ EvictOldest(k)
      PROVE DOMAIN entries' \subseteq DOMAIN entries
  BY <1>2 DEF ExpireOne, EvictOldest, Without, Restrict
<1>3. ASSUME \/ \E c \in Conns : HandleFlush(c) \/ HandleLock(c)
             \/ Restart
      PROVE DOMAIN entries' \subseteq DOMAIN entries
  BY <1>3, NothingLeft DEF HandleFlush, HandleLock, Restart, Flushed
<1>4. ASSUME \/ \E c \in Conns : HandleGet(c) \/ RefusePut(c) \/ BeginPut(c) \/ Acquire(c)
             \/ \E p \in Clients, k \in Keys, c \in Conns : StartGet(p, k, c)
             \/ \E p \in Clients, v \in Vals, ttl \in TTLs, c \in Conns :
                  StartPut(p, v, ttl, c)
             \/ \E p \in Clients, op \in {"flush", "lock"}, c \in Conns :
                  StartControl(p, op, c)
             \/ \E p \in Clients : GiveUp(p) \/ Finish(p)
             \/ Tick
             \/ UNCHANGED vars
      PROVE DOMAIN entries' \subseteq DOMAIN entries
  BY <1>4 DEF HandleGet, RefusePut, BeginPut, Acquire, StartGet, StartPut, StartControl,
              GiveUp, Finish, Tick, cache, vars
<1> QED
  BY <1>1, <1>2, <1>3, <1>4, FewerKeys DEF Next, Handle

(* The agent never holds more than maxEntries environments, not even while *)
(* a put is being handled, whatever the sizes, lifetimes and clients.      *)
THEOREM CapHolds == Spec => []EntryCap
<1>1. CapInv => EntryCap
  BY DEF CapInv
<1> QED
  BY CapInit, CapNext, <1>1, PTL DEF Spec

-----------------------------------------------------------------------------
(* The counter.  What it lacks, while a put evicts, is the entry the put   *)
(* replaces: subtracted already, and still in the map.                     *)
InHand == IF phase = "evict" THEN Replaced(conn[mutex].key) ELSE 0

CountInv ==
    /\ IsFiniteSet(BytesHeld)
    /\ bytes <= ActualBytes - InHand
    /\ ~doubled => bytes = ActualBytes - InHand /\ ActualBytes <= MaxBytes
    /\ phase = "evict" => Size[conn[mutex].val] <= MaxBytes

LEMMA BytesCounted ==
  ASSUME NEW k, NEW n \in Nat
  PROVE  IsFiniteSet(BytesOf(k, n)) /\ Cardinality(BytesOf(k, n)) = n
<1>1. IsFiniteSet({k}) /\ Cardinality({k}) = 1
  BY FS_Singleton
<1>2. /\ IsFiniteSet(1..n)
      /\ Cardinality(1..n) = IF 1 > n THEN 0 ELSE n - 1 + 1
  BY FS_Interval
<1>3. Cardinality(1..n) = n
  BY <1>2
<1>4. /\ IsFiniteSet({k} \X (1..n))
      /\ Cardinality({k} \X (1..n)) = Cardinality({k}) * Cardinality(1..n)
  BY <1>1, <1>2, FS_Product, Zenon
<1>5. Cardinality({k} \X (1..n)) = 1 * n
  BY <1>1, <1>3, <1>4, Zenon
<1> QED
  BY <1>4, <1>5 DEF BytesOf

BytesBut(k) == UNION {BytesOf(j, entries[j].bytes) : j \in DOMAIN entries \ {k}}

(* Without the entry under k, exactly its bytes are gone.                  *)
LEMMA HeldBut ==
  ASSUME TypeInv, IsFiniteSet(BytesHeld), NEW k
  PROVE  /\ IsFiniteSet(BytesBut(k))
         /\ ActualBytes \in Nat /\ Replaced(k) \in Nat
         /\ Cardinality(BytesBut(k)) \in Nat
         /\ Cardinality(BytesBut(k)) = ActualBytes - Replaced(k)
<1>1. ActualBytes \in Nat
  BY FS_CardinalityType DEF ActualBytes
<1>2. BytesBut(k) \subseteq BytesHeld
  BY DEF BytesBut, BytesHeld
<1>3. IsFiniteSet(BytesBut(k)) /\ Cardinality(BytesBut(k)) \in Nat
  BY <1>2, FS_Subset, FS_CardinalityType
<1>4. CASE k \in DOMAIN entries
  <2> DEFINE own == BytesOf(k, entries[k].bytes)
  <2>1. entries[k].bytes \in Nat
    BY <1>4 DEF TypeInv, TypeOK, Entry
  <2>2. own \subseteq BytesHeld
    BY <1>4 DEF BytesHeld
  <2>3. BytesBut(k) = BytesHeld \ own
    BY <1>4 DEF BytesBut, BytesHeld, BytesOf
  <2>4. Cardinality(own) = entries[k].bytes
    BY <2>1, BytesCounted
  <2> HIDE DEF own
  <2>5. BytesHeld \cap own = own
    BY <2>2
  <2>6. Cardinality(BytesHeld \ own) = Cardinality(BytesHeld) - Cardinality(own)
    BY <2>5, FS_Difference
  <2> QED
    BY <1>1, <1>3, <1>4, <2>1, <2>3, <2>4, <2>6 DEF ActualBytes, Replaced
<1>5. CASE k \notin DOMAIN entries
  <2>1. BytesBut(k) = BytesHeld
    BY <1>5 DEF BytesBut, BytesHeld
  <2> QED
    BY <1>1, <1>3, <1>5, <2>1 DEF ActualBytes, Replaced
<1> QED
  BY <1>4, <1>5

LEMMA InHandIsNat ==
  ASSUME TypeInv, IsFiniteSet(BytesHeld)
  PROVE  InHand \in Nat /\ ActualBytes \in Nat /\ bytes \in Int
  BY HeldBut DEF InHand, TypeInv, TypeOK

(* An expired entry, or the oldest one, goes.                              *)
LEMMA RemovalCounted ==
  ASSUME TypeInv, CountInv, NEW k \in DOMAIN entries, entries' = Without(k)
  PROVE  /\ IsFiniteSet(BytesHeld')
         /\ ActualBytes' \in Nat
         /\ ActualBytes' = ActualBytes - entries[k].bytes
<1>1. BytesHeld' = BytesBut(k)
  BY DEF BytesHeld, BytesBut, Without, Restrict
<1> QED
  BY <1>1, HeldBut DEF CountInv, ActualBytes, Replaced

LEMMA EmptiedCounted ==
  ASSUME DOMAIN entries' = {}
  PROVE  IsFiniteSet(BytesHeld') /\ ActualBytes' = 0
<1>1. BytesHeld' = {}
  BY DEF BytesHeld
<1> QED
  BY <1>1, FS_EmptySet DEF ActualBytes

LEMMA FlushCounted ==
  ASSUME Flushed, phase' = "expire"
  PROVE  CountInv'
<1>1. DOMAIN entries' = {} /\ bytes' = 0
  BY NothingLeft DEF Flushed
<1>2. InHand' = 0
  BY DEF InHand
<1> QED
  BY <1>1, <1>2, EmptiedCounted, LimitsAreNat DEF CountInv

(* Steps that leave the cache alone and a put in progress as it was.       *)
LEMMA CountStays ==
  ASSUME CountInv, UNCHANGED <<entries, bytes, doubled>>,
         \/ phase = "expire" /\ phase' = "expire"
         \/ /\ UNCHANGED <<phase, mutex>>
            /\ phase = "evict" =>
                 conn'[mutex].key = conn[mutex].key /\ conn'[mutex].val = conn[mutex].val
  PROVE  CountInv'
<1>1. BytesHeld' = BytesHeld /\ ActualBytes' = ActualBytes
  BY DEF BytesHeld, ActualBytes
<1>2. InHand' = InHand
  BY DEF InHand, Replaced
<1> QED
  BY <1>1, <1>2 DEF CountInv

LEMMA BeginPutCounted ==
  ASSUME TypeInv, CountInv, NEW c \in Conns, BeginPut(c)
  PROVE  CountInv'
<1> DEFINE k == conn[c].key
<1>1. /\ phase = "expire" /\ phase' = "evict" /\ mutex' = c
      /\ bytes' = bytes - Replaced(k) /\ UNCHANGED <<entries, conn, doubled>>
      /\ Size[conn[c].val] <= MaxBytes
  BY DEF BeginPut, Dispatch, Accepts
<1>2. BytesHeld' = BytesHeld /\ ActualBytes' = ActualBytes
  BY <1>1 DEF BytesHeld, ActualBytes
<1>3. InHand = 0 /\ InHand' = Replaced(k)
  BY <1>1 DEF InHand, Replaced
<1>4. ActualBytes \in Nat /\ Replaced(k) \in Nat /\ bytes \in Int
  BY HeldBut DEF CountInv, TypeInv, TypeOK
<1> QED
  BY <1>1, <1>2, <1>3, <1>4 DEF CountInv

LEMMA ExpireCounted ==
  ASSUME TypeInv, CountInv, NEW k \in Keys, ExpireOne(k)
  PROVE  CountInv'
<1>1. /\ k \in DOMAIN entries /\ entries' = Without(k)
      /\ phase = "expire" /\ phase' = "expire"
      /\ bytes' = bytes - entries[k].bytes /\ doubled' = doubled
  BY DEF ExpireOne, Expired, handler
<1>2. entries[k].bytes \in Nat
  BY <1>1 DEF TypeInv, TypeOK, Entry
<1>3. InHand = 0 /\ InHand' = 0
  BY <1>1 DEF InHand
<1>4. ActualBytes \in Nat /\ bytes \in Int
  BY InHandIsNat DEF CountInv
<1> QED
  BY <1>1, <1>2, <1>3, <1>4, RemovalCounted, LimitsAreNat DEF CountInv

(* Evicting the replaced entry subtracts it a second time: the counter is  *)
(* lower than what is held from then on, and doubled says so.              *)
LEMMA EvictCounted ==
  ASSUME TypeInv, CountInv, NEW k \in Keys, EvictOldest(k)
  PROVE  CountInv'
<1> DEFINE key == conn[mutex].key
<1>1. /\ k \in DOMAIN entries /\ entries' = Without(k)
      /\ phase = "evict" /\ phase' = "evict" /\ UNCHANGED <<mutex, conn>>
      /\ bytes' = bytes - entries[k].bytes /\ doubled' = (doubled \/ k = key)
  BY DEF EvictOldest, handler
<1>2. entries[k].bytes \in Nat /\ Replaced(key) \in Nat /\ ActualBytes \in Nat /\ bytes \in Int
  BY <1>1, HeldBut DEF CountInv, TypeInv, TypeOK, Entry
<1>3. InHand = Replaced(key)
  BY <1>1 DEF InHand
<1>4. /\ k = key => InHand' = 0
      /\ k # key => InHand' = Replaced(key)
  BY <1>1 DEF InHand, Replaced, Without, Restrict
<1>5. /\ IsFiniteSet(BytesHeld') /\ ActualBytes' \in Nat
      /\ ActualBytes' = ActualBytes - entries[k].bytes
  BY <1>1, RemovalCounted
<1>6. bytes' <= ActualBytes' - InHand'
  <2>1. CASE k = key
    <3>1. bytes <= ActualBytes - entries[k].bytes
      BY <1>1, <1>3, <2>1 DEF CountInv, Replaced
    <3> QED
      BY <1>1, <1>2, <1>4, <1>5, <2>1, <3>1
  <2>2. CASE k # key
    BY <1>1, <1>2, <1>3, <1>4, <1>5, <2>2 DEF CountInv
  <2> QED
    BY <2>1, <2>2
<1>7. ~doubled' => bytes' = ActualBytes' - InHand' /\ ActualBytes' <= MaxBytes
  <2>1. CASE doubled \/ k = key
    BY <1>1, <2>1, Zenon
  <2>2. CASE ~doubled /\ k # key
    <3>1. bytes = ActualBytes - Replaced(key) /\ ActualBytes <= MaxBytes
      BY <1>3, <2>2 DEF CountInv
    <3> QED
      BY <1>1, <1>2, <1>4, <1>5, <2>2, <3>1, LimitsAreNat
  <2> QED
    BY <2>1, <2>2
<1> QED
  BY <1>1, <1>5, <1>6, <1>7 DEF CountInv

LEMMA InsertCounted ==
  ASSUME TypeInv, CountInv, NEW c \in Conns, InsertPut(c)
  PROVE  CountInv'
<1> DEFINE key == conn[c].key
           size == Size[conn[c].val]
<1>1. /\ mutex = c /\ phase = "evict" /\ phase' = "expire"
      /\ bytes' = bytes + size /\ doubled' = doubled
      /\ ~MustEvict
  BY DEF InsertPut, Reply, Release
<1>2. size \in Nat /\ size <= MaxBytes
  BY <1>1, SizesAreNat DEF CountInv, TypeInv, PutsCarryAValue, EvictsForAPut
<1>3. /\ IsFiniteSet(BytesBut(key)) /\ Cardinality(BytesBut(key)) \in Nat
      /\ Replaced(key) \in Nat /\ ActualBytes \in Nat /\ bytes \in Int
      /\ Cardinality(BytesBut(key)) = ActualBytes - Replaced(key)
  BY HeldBut DEF CountInv, TypeInv, TypeOK
<1>4. BytesHeld' = BytesBut(key) \cup BytesOf(key, size)
  BY DEF InsertPut, BytesHeld, BytesBut
<1>5. BytesBut(key) \cap BytesOf(key, size) = {}
  BY DEF BytesBut, BytesOf
<1>6. IsFiniteSet(BytesOf(key, size)) /\ Cardinality(BytesOf(key, size)) = size
  BY <1>2, BytesCounted
<1>7. IsFiniteSet(BytesHeld') /\ ActualBytes' = ActualBytes - Replaced(key) + size
  BY <1>2, <1>3, <1>4, <1>5, <1>6, FS_Union, FS_EmptySet DEF ActualBytes
<1>8. InHand = Replaced(key) /\ InHand' = 0
  BY <1>1 DEF InHand
<1>9. bytes + size <= MaxBytes \/ DOMAIN entries = {}
  <2>1. DOMAIN entries = {} \/ ~(bytes + size > MaxBytes)
    BY <1>1, Zenon DEF MustEvict
  <2> QED
    BY <1>2, <1>3, <2>1, LimitsAreNat
<1>10. DOMAIN entries = {} => ActualBytes = 0
  BY FS_EmptySet DEF ActualBytes, BytesHeld
<1>11. bytes' <= ActualBytes' - InHand'
  BY <1>1, <1>2, <1>3, <1>7, <1>8 DEF CountInv
<1>12. ~doubled' => bytes' = ActualBytes' - InHand' /\ ActualBytes' <= MaxBytes
  BY <1>1, <1>2, <1>3, <1>7, <1>8, <1>9, <1>10, LimitsAreNat DEF CountInv
<1> QED
  BY <1>1, <1>7, <1>11, <1>12 DEF CountInv

LEMMA CountNext == TypeInv /\ CountInv /\ [Next]_vars => CountInv'
<1> SUFFICES ASSUME TypeInv, CountInv, [Next]_vars PROVE CountInv'
  OBVIOUS
<1>1. ASSUME NEW c \in Conns, conn[c].op = "none",
             conn' = [conn EXCEPT ![c] = conn'[c]], UNCHANGED <<cache, handler, doubled>>
      PROVE  CountInv'
  <2>1. phase = "evict" => conn'[mutex] = conn[mutex]
    BY <1>1 DEF TypeInv, TypeOK, EvictsForAPut
  <2> QED
    BY <1>1, <2>1, CountStays DEF cache, handler
<1>2. ASSUME NEW p \in Clients, NEW c \in Conns,
             \/ \E k \in Keys : StartGet(p, k, c)
             \/ \E v \in Vals, ttl \in TTLs : StartPut(p, v, ttl, c)
             \/ \E op \in {"flush", "lock"} : StartControl(p, op, c)
      PROVE  CountInv'
  <2>1. /\ conn[c].op = "none" /\ conn' = [conn EXCEPT ![c] = conn'[c]]
        /\ UNCHANGED <<cache, handler, doubled>>
    BY <1>2 DEF StartGet, StartPut, StartControl, TypeInv, TypeOK
  <2> QED
    BY <1>1, <2>1
<1>3. ASSUME NEW p \in Clients, GiveUp(p)
      PROVE  CountInv'
  <2>1. phase = "evict" => /\ conn'[mutex].key = conn[mutex].key
                           /\ conn'[mutex].val = conn[mutex].val
    BY <1>3 DEF GiveUp, TypeInv, TypeOK, EvictsForAPut, Request
  <2> QED
    BY <1>3, <2>1, CountStays DEF GiveUp, cache, handler
<1>4. ASSUME \/ \E p \in Clients : Finish(p)
             \/ Tick
             \/ UNCHANGED vars
      PROVE  CountInv'
  BY <1>4, CountStays DEF Finish, Tick, cache, handler, vars
<1>5. ASSUME NEW c \in Conns, Acquire(c)
      PROVE  CountInv'
  BY <1>5, NoneIsFresh, CountStays DEF Acquire, TypeInv, TypeOK, EvictsForAPut, cache
<1>6. ASSUME NEW c \in Conns, HandleGet(c) \/ RefusePut(c)
      PROVE  CountInv'
  BY <1>6, CountStays DEF HandleGet, RefusePut, Dispatch, Reply, Release, cache
<1>7. ASSUME NEW c \in Conns, HandleFlush(c) \/ HandleLock(c)
      PROVE  CountInv'
  BY <1>7, FlushCounted DEF HandleFlush, HandleLock, Reply, Release
<1>8. ASSUME Restart
      PROVE  CountInv'
  BY <1>8, FlushCounted DEF Restart, Release
<1> QED
  BY <1>2, <1>3, <1>4, <1>5, <1>6, <1>7, <1>8, BeginPutCounted, InsertCounted,
     ExpireCounted, EvictCounted DEF Next, Handle

LEMMA CountInit == Init => CountInv
<1> SUFFICES ASSUME Init PROVE CountInv
  OBVIOUS
<1>1. BytesHeld = {} /\ bytes = 0 /\ phase = "expire"
  BY NothingLeft DEF Init, BytesHeld
<1> QED
  BY <1>1, FS_EmptySet, LimitsAreNat DEF CountInv, ActualBytes, InHand

LEMMA Counted == Spec => [](TypeInv /\ CountInv)
  BY TypeInit, TypeNext, CountInit, CountNext, PTL DEF Spec

(* cache.bytes is never more than the bytes of the entries in the map, in  *)
(* the middle of a put too: no put evicts for bytes that are gone already. *)
THEOREM NeverOverstated == Spec => []CounterNeverOverstates
<1>1. TypeInv /\ CountInv => CounterNeverOverstates
  BY InHandIsNat DEF CountInv, CounterNeverOverstates
<1> QED
  BY <1>1, Counted, PTL

(* As long as no eviction took the entry its own put had subtracted, the   *)
(* counter is exact between requests and maxBytes is a bound.              *)
THEOREM BytesBounded == Spec => []ByteCapUnlessDoubled
<1>1. TypeInv /\ CountInv => ByteCapUnlessDoubled
  BY InHandIsNat DEF CountInv, ByteCapUnlessDoubled, InHand
<1> QED
  BY <1>1, Counted, PTL
=============================================================================
