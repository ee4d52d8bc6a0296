------------------------- MODULE ResultCacheProofs -------------------------
(***************************************************************************)
(* What holds of the result cache for any number of callers, keys, entries *)
(* and any lifetimes: the counters never claim entries that are not there, *)
(* and the cache implements VerdictStore.                                  *)
(*                                                                         *)
(* AgeInv bounds the age of what is stored: an entry of Redis ends within  *)
(* one lifetime of its verdict, a copy in memory within two.  ActorInv     *)
(* says what an actor holds at each stage: a verdict of Store is as old as *)
(* the call, one of get was live when it was read.                         *)
(***************************************************************************)
EXTENDS ResultCache, FiniteSetTheorems, TLAPS

Stages == {"idle", "delete", "decrement", "redisGet", "room", "insert", "increment", "redisSet", "range"}
Holding == {"room", "insert", "increment", "redisSet"}
Entry == [verdict : Verdicts \cup {"none"}, born : Nat, exp : Nat]
Locals == [map : Maps, key : [Maps -> Keys], verdict : Verdicts \cup {"none"}, born : Nat,
           by : {"get", "store"}]
Table == [Maps -> [Keys -> Entry]]

Types ==
  /\ mem \in Table /\ redis \in Table
  /\ count \in [Maps -> Int] /\ now \in Nat
  /\ pc \in [Actors -> Stages] /\ loc \in [Actors -> Locals]
  /\ sweep \in [left : SUBSET Keys, now : Nat]

\* What actor a may have at hand at stage s.
Proper(a, s, r) ==
  /\ a = Janitor => s \in {"idle", "range", "delete", "decrement"}
  /\ s \notin Holding => r.by = "get"
  /\ s = "redisSet" => r.by = "store"
  /\ s \in Holding => /\ r.verdict \in Verdicts
                      /\ r.by = "store" => r.born = now
                      /\ r.by = "get" => now < r.born + TTL[r.map]

ActorInv == \A a \in Actors : Proper(a, pc[a], loc[a])

AgeInv == \A m \in Maps, k \in Keys :
  /\ Present(mem[m][k]) => mem[m][k].exp <= mem[m][k].born + 2 * TTL[m]
  /\ Present(redis[m][k]) => redis[m][k].exp <= redis[m][k].born + TTL[m]

IInv == Types /\ ActorInv /\ AgeInv /\ CounterNeverOvercounts

-----------------------------------------------------------------------------
(* Facts used throughout.                                                  *)

\* The constants and the empty values.
LEMMA Constants ==
  /\ NoLocals \in Locals /\ NoLocals.by = "get"
  /\ \A m \in Maps, k \in Keys : /\ Getting(m, k) \in Locals /\ Getting(m, k).by = "get"
                                 /\ Getting(m, k).map = m
  /\ NoEntry \in Entry /\ ~Present(NoEntry)
  /\ \A m \in Maps : TTL[m] \in Nat /\ TTL[m] > 0
  /\ Janitor \in Actors /\ Procs \subseteq Actors /\ IsFiniteSet(Actors)
<1>1. \A m \in Maps, k \in Keys : /\ Getting(m, k) \in Locals /\ Getting(m, k).by = "get"
                                  /\ Getting(m, k).map = m
  BY DEF Getting, Locals
<1>2. NoLocals \in Locals /\ NoLocals.by = "get"
  <2>1. (CHOOSE k \in Keys : TRUE) \in Keys
    BY ResultCacheAssumption
  <2>2. "url" \in Maps
    BY DEF Maps
  <2> QED
    BY <1>1, <2>1, <2>2 DEF NoLocals
<1>3. NoEntry \in Entry /\ ~Present(NoEntry)
  BY DEF NoEntry, Entry, Present
<1>4. \A m \in Maps : TTL[m] \in Nat /\ TTL[m] > 0
  BY ResultCacheAssumption
<1>5. Janitor \in Actors /\ Procs \subseteq Actors /\ IsFiniteSet(Actors)
  BY ResultCacheAssumption, FS_AddElement DEF Actors
<1> QED
  BY <1>1, <1>2, <1>3, <1>4, <1>5

\* A step of one actor: it moves to stage s with locals r.
LEMMA ActorStep ==
  ASSUME Types, ActorInv, NEW a \in Actors, NEW s \in Stages, NEW r \in Locals, Proper(a, s, r),
         pc' = [pc EXCEPT ![a] = s], loc' = [loc EXCEPT ![a] = r], now' = now
  PROVE  /\ pc' \in [Actors -> Stages] /\ loc' \in [Actors -> Locals] /\ ActorInv'
         /\ pc'[a] = s /\ loc'[a] = r
         /\ \A b \in Actors : b # a => pc'[b] = pc[b] /\ loc'[b] = loc[b]
<1>1. /\ pc' \in [Actors -> Stages] /\ loc' \in [Actors -> Locals]
      /\ pc'[a] = s /\ loc'[a] = r
      /\ \A b \in Actors : b # a => pc'[b] = pc[b] /\ loc'[b] = loc[b]
  BY DEF Types
<1>2. \A b \in Actors : Proper(b, pc'[b], loc'[b])
  BY <1>1 DEF ActorInv
<1>3. ActorInv'
  BY <1>2 DEF ActorInv, Proper
<1> QED
  BY <1>1, <1>3

-----------------------------------------------------------------------------
(* Counting.                                                               *)
In(s, m) == {a \in Actors : pc[a] = s /\ MapOf(a) = m}

\* The actors at a stage, after a step of actor a.
LEMMA InStep ==
  ASSUME NEW a \in Actors, \A b \in Actors : b # a => pc'[b] = pc[b] /\ loc'[b] = loc[b],
         NEW s, NEW m
  PROVE  Cardinality(In(s, m))' = Cardinality(In(s, m))
           + (IF pc'[a] = s /\ loc'[a].map = m THEN 1 ELSE 0)
           - (IF pc[a] = s /\ loc[a].map = m THEN 1 ELSE 0)
<1>1. IsFiniteSet(In(s, m)) /\ Cardinality(In(s, m)) \in Nat
  BY Constants, FS_Subset, FS_CardinalityType DEF In
<1>2. CASE pc'[a] = s /\ loc'[a].map = m /\ ~(pc[a] = s /\ loc[a].map = m)
  <2>1. In(s, m)' = In(s, m) \cup {a} /\ a \notin In(s, m)
    BY <1>2 DEF In, MapOf
  <2>2. Cardinality(In(s, m))' = Cardinality(In(s, m)) + 1
    BY <1>1, <2>1, FS_AddElement
  <2> QED
    BY <1>1, <1>2, <2>2
<1>3. CASE ~(pc'[a] = s /\ loc'[a].map = m) /\ pc[a] = s /\ loc[a].map = m
  <2>1. In(s, m)' = In(s, m) \ {a} /\ a \in In(s, m)
    BY <1>3 DEF In, MapOf
  <2>2. Cardinality(In(s, m))' = Cardinality(In(s, m)) - 1
    BY <1>1, <2>1, FS_RemoveElement
  <2> QED
    BY <1>1, <1>3, <2>2
<1>4. CASE (pc'[a] = s /\ loc'[a].map = m) <=> (pc[a] = s /\ loc[a].map = m)
  <2>1. In(s, m)' = In(s, m)
    BY <1>4 DEF In, MapOf
  <2>2. Cardinality(In(s, m))' = Cardinality(In(s, m))
    BY <2>1
  <2> QED
    BY <1>1, <1>4, <2>2
<1> QED
  BY <1>2, <1>3, <1>4

\* So for the updates of a counter still to come.
LEMMA UpdatesStep ==
  ASSUME NEW a \in Actors, \A b \in Actors : b # a => pc'[b] = pc[b] /\ loc'[b] = loc[b],
         NEW m
  PROVE  /\ Cardinality(Incrementing(m))' = Cardinality(Incrementing(m))
              + (IF pc'[a] = "increment" /\ loc'[a].map = m THEN 1 ELSE 0)
              - (IF pc[a] = "increment" /\ loc[a].map = m THEN 1 ELSE 0)
         /\ Cardinality(Decrementing(m))' = Cardinality(Decrementing(m))
              + (IF pc'[a] = "decrement" /\ loc'[a].map = m THEN 1 ELSE 0)
              - (IF pc[a] = "decrement" /\ loc[a].map = m THEN 1 ELSE 0)
<1>1. In("increment", m) = Incrementing(m) /\ In("decrement", m) = Decrementing(m)
  BY DEF In, Incrementing, Decrementing
<1>2. In("increment", m)' = Incrementing(m)' /\ In("decrement", m)' = Decrementing(m)'
  BY DEF In, Incrementing, Decrementing
<1>3. Cardinality(In("increment", m))' = Cardinality(In("increment", m))
        + (IF pc'[a] = "increment" /\ loc'[a].map = m THEN 1 ELSE 0)
        - (IF pc[a] = "increment" /\ loc[a].map = m THEN 1 ELSE 0)
  BY InStep
<1>4. Cardinality(In("decrement", m))' = Cardinality(In("decrement", m))
        + (IF pc'[a] = "decrement" /\ loc'[a].map = m THEN 1 ELSE 0)
        - (IF pc[a] = "decrement" /\ loc[a].map = m THEN 1 ELSE 0)
  BY InStep
<1> QED
  BY <1>1, <1>2, <1>3, <1>4

\* The keys present in a map, after a write of one entry.
LEMMA KeysStep ==
  ASSUME Types, NEW m \in Maps, NEW k \in Keys, NEW e \in Entry, mem' = [mem EXCEPT ![m][k] = e],
         NEW n \in Maps
  PROVE  Cardinality(PresentKeys(n))' = Cardinality(PresentKeys(n))
           + (IF n = m /\ Present(e) THEN 1 ELSE 0)
           - (IF n = m /\ Present(mem[m][k]) THEN 1 ELSE 0)
<1>1. /\ mem'[m][k] = e
      /\ \A i \in Maps, j \in Keys : i # m \/ j # k => mem'[i][j] = mem[i][j]
  BY DEF Types, Table
<1>2. IsFiniteSet(PresentKeys(n)) /\ Cardinality(PresentKeys(n)) \in Nat
  BY ResultCacheAssumption, FS_Subset, FS_CardinalityType DEF PresentKeys
<1>3. CASE n = m /\ Present(e) /\ ~Present(mem[m][k])
  <2>1. PresentKeys(n)' = PresentKeys(n) \cup {k} /\ k \notin PresentKeys(n)
    BY <1>1, <1>3 DEF PresentKeys, Present
  <2>2. Cardinality(PresentKeys(n))' = Cardinality(PresentKeys(n)) + 1
    BY <1>2, <2>1, FS_AddElement
  <2> QED
    BY <1>2, <1>3, <2>2
<1>4. CASE n = m /\ ~Present(e) /\ Present(mem[m][k])
  <2>1. PresentKeys(n)' = PresentKeys(n) \ {k} /\ k \in PresentKeys(n)
    BY <1>1, <1>4 DEF PresentKeys, Present
  <2>2. Cardinality(PresentKeys(n))' = Cardinality(PresentKeys(n)) - 1
    BY <1>2, <2>1, FS_RemoveElement
  <2> QED
    BY <1>2, <1>4, <2>2
<1>5. CASE n # m \/ (Present(e) <=> Present(mem[m][k]))
  <2>1. PresentKeys(n)' = PresentKeys(n)
    BY <1>1, <1>5 DEF PresentKeys, Present
  <2>2. Cardinality(PresentKeys(n))' = Cardinality(PresentKeys(n))
    BY <2>1
  <2> QED
    BY <1>2, <1>5, <2>2
<1> QED
  BY <1>3, <1>4, <1>5

\* The counted sets are finite.
LEMMA Counts ==
  \A m \in Maps : /\ Cardinality(PresentKeys(m)) \in Nat
                  /\ Cardinality(Incrementing(m)) \in Nat /\ Cardinality(Decrementing(m)) \in Nat
  BY ResultCacheAssumption, Constants, FS_Subset, FS_CardinalityType
     DEF PresentKeys, Incrementing, Decrementing

\* A step that touches neither a map nor a counter, nor comes from or to an
\* update of a counter.
LEMMA Uncounted ==
  ASSUME IInv, NEW a \in Actors, \A b \in Actors : b # a => pc'[b] = pc[b] /\ loc'[b] = loc[b],
         pc[a] \notin {"increment", "decrement"}, pc'[a] \notin {"increment", "decrement"},
         UNCHANGED <<mem, count>>
  PROVE  CounterNeverOvercounts'
<1>1. \A m \in Maps : Incrementing(m)' = Incrementing(m) /\ Decrementing(m)' = Decrementing(m)
  BY DEF Incrementing, Decrementing, MapOf
<1>2. \A m \in Maps : PresentKeys(m)' = PresentKeys(m)
  BY DEF PresentKeys
<1> QED
  BY <1>1, <1>2 DEF IInv, CounterNeverOvercounts

-----------------------------------------------------------------------------
(* What each step does to its actor.                                       *)
Moves(a, s, r) ==
  /\ s \in Stages /\ r \in Locals /\ Proper(a, s, r)
  /\ pc' = [pc EXCEPT ![a] = s] /\ loc' = [loc EXCEPT ![a] = r]

\* The verdicts an actor holds after a step are some it held before.
Keeps(a, s, r) ==
  s \in Holding => /\ pc[a] \in Holding
                   /\ r.key = loc[a].key /\ r.verdict = loc[a].verdict /\ r.born = loc[a].born
                   /\ r.by = loc[a].by /\ (r.by = "store" \/ r.map = loc[a].map)

\* storeMem returns to get, or to Store, which holds the verdict until Redis has it.
LEMMA ReturnEffect ==
  ASSUME Types, ActorInv, NEW p \in Procs, pc[p] \in Holding \ {"redisSet"}, Return(p)
  PROVE  \E s \in {"idle", "room", "redisSet"}, r \in Locals : Moves(p, s, r) /\ Keeps(p, s, r)
<1>1. p \in Actors /\ p # Janitor /\ loc[p] \in Locals /\ Proper(p, pc[p], loc[p])
  BY Constants, ResultCacheAssumption DEF Types, ActorInv
<1>2. CASE Finish(p)
  <2>1. Moves(p, "idle", NoLocals) /\ Keeps(p, "idle", NoLocals)
    BY <1>1, <1>2, Constants DEF Finish, Goto, Moves, Keeps, Proper, Stages, Holding
  <2> QED
    BY <2>1, Constants
<1>3. ASSUME NEW s \in {"room", "redisSet"}, NEW m \in Maps, loc[p].by = "store",
             Goto(p, s), loc' = [loc EXCEPT ![p].map = m]
      PROVE  \E t \in {"idle", "room", "redisSet"}, r \in Locals : Moves(p, t, r) /\ Keeps(p, t, r)
  <2>1. PICK r : r = [loc[p] EXCEPT !.map = m]
    OBVIOUS
  <2>2. /\ r \in Locals /\ r.map = m /\ r.key = loc[p].key /\ r.verdict = loc[p].verdict
        /\ r.born = loc[p].born /\ r.by = "store"
    BY <1>1, <1>3, <2>1 DEF Locals
  <2>3. loc' = [loc EXCEPT ![p] = r]
    BY <1>1, <1>3, <2>1 DEF Types
  <2>4. Proper(p, s, r)
    BY <1>1, <1>3, <2>2 DEF Proper, Holding
  <2>5. Moves(p, s, r) /\ Keeps(p, s, r)
    BY <1>3, <2>2, <2>3, <2>4 DEF Moves, Keeps, Goto, Stages, Holding
  <2> QED
    BY <2>2, <2>5
<1> QED
  BY <1>2, <1>3 DEF Return, Maps

\* So do the other steps, but for Store and for a hit in Redis.
LEMMA QuietEffect ==
  ASSUME Types, ActorInv, NEW p \in Procs,
         \/ \E m \in Maps, k \in Keys : Load(p, m, k)
         \/ RedisGet(p) /\ Finish(p)
         \/ CheckRoom(p) \/ Insert(p) \/ Increment(p) \/ RedisSet(p)
  PROVE  \E s \in Stages, r \in Locals : Moves(p, s, r) /\ Keeps(p, s, r)
<1>1. p \in Actors /\ p # Janitor /\ loc[p] \in Locals /\ Proper(p, pc[p], loc[p])
  BY Constants, ResultCacheAssumption DEF Types, ActorInv
<1>2. CASE Return(p) /\ (CheckRoom(p) \/ Insert(p) \/ Increment(p))
  <2>1. pc[p] \in Holding \ {"redisSet"}
    BY <1>2 DEF CheckRoom, Insert, Increment, Holding
  <2>2. PICK s \in {"idle", "room", "redisSet"}, r \in Locals : Moves(p, s, r) /\ Keeps(p, s, r)
    BY <1>2, <2>1, ReturnEffect
  <2> QED
    BY <2>2 DEF Stages
<1>3. ASSUME NEW s \in {"insert", "increment"}, Goto(p, s), UNCHANGED loc, pc[p] \in {"room", "insert"}
      PROVE  \E t \in Stages, r \in Locals : Moves(p, t, r) /\ Keeps(p, t, r)
  <2>1. loc' = [loc EXCEPT ![p] = loc[p]]
    BY <1>1, <1>3 DEF Types
  <2>2. Proper(p, s, loc[p])
    BY <1>1, <1>3 DEF Proper, Holding
  <2>3. Moves(p, s, loc[p]) /\ Keeps(p, s, loc[p])
    BY <1>1, <1>3, <2>1, <2>2 DEF Moves, Keeps, Goto, Stages, Holding
  <2> QED
    BY <1>1, <2>3 DEF Stages
<1>4. CASE Finish(p)
  <2>1. Moves(p, "idle", NoLocals) /\ Keeps(p, "idle", NoLocals)
    BY <1>1, <1>4, Constants DEF Finish, Goto, Moves, Keeps, Proper, Stages, Holding
  <2> QED
    BY <2>1, Constants DEF Stages
<1>5. ASSUME NEW m \in Maps, NEW k \in Keys, Load(p, m, k)
      PROVE  \E t \in Stages, r \in Locals : Moves(p, t, r) /\ Keeps(p, t, r)
  <2>1. CASE UNCHANGED <<pc, loc>>
    <3>1. pc' = [pc EXCEPT ![p] = pc[p]] /\ loc' = [loc EXCEPT ![p] = loc[p]] /\ pc[p] \in Stages
      BY <1>1, <2>1 DEF Types
    <3>2. Moves(p, pc[p], loc[p]) /\ Keeps(p, pc[p], loc[p])
      BY <1>1, <3>1 DEF Moves, Keeps
    <3> QED
      BY <1>1, <3>1, <3>2
  <2>2. ASSUME NEW s \in {"delete", "redisGet"}, Goto(p, s), loc' = [loc EXCEPT ![p] = Getting(m, k)]
        PROVE  \E t \in Stages, r \in Locals : Moves(p, t, r) /\ Keeps(p, t, r)
    <3>1. Moves(p, s, Getting(m, k)) /\ Keeps(p, s, Getting(m, k))
      BY <1>1, <2>2, Constants DEF Goto, Moves, Keeps, Proper, Stages, Holding
    <3> QED
      BY <3>1, Constants DEF Stages
  <2> QED
    BY <1>5, <2>1, <2>2 DEF Load
<1>6. CASE RedisSet(p) /\ ~Finish(p)
  <2>1. pc[p] = "redisSet" /\ loc' = [loc EXCEPT ![p].map = "hash"] /\ UNCHANGED pc /\ loc[p].by = "store"
    BY <1>1, <1>6 DEF RedisSet, Proper
  <2>2. PICK r : r = [loc[p] EXCEPT !.map = "hash"]
    OBVIOUS
  <2>3. /\ r \in Locals /\ r.key = loc[p].key /\ r.verdict = loc[p].verdict
        /\ r.born = loc[p].born /\ r.by = "store"
    BY <1>1, <2>1, <2>2 DEF Locals, Maps
  <2>4. pc' = [pc EXCEPT ![p] = "redisSet"] /\ loc' = [loc EXCEPT ![p] = r]
    BY <1>1, <2>1, <2>2 DEF Types
  <2>5. Proper(p, "redisSet", r)
    BY <1>1, <2>1, <2>3 DEF Proper, Holding
  <2>6. Moves(p, "redisSet", r) /\ Keeps(p, "redisSet", r)
    BY <2>1, <2>3, <2>4, <2>5 DEF Moves, Keeps, Stages, Holding
  <2> QED
    BY <2>3, <2>6 DEF Stages
<1>7. CASE CheckRoom(p) /\ ~Return(p)
  BY <1>3, <1>7 DEF CheckRoom
<1>8. CASE Insert(p) /\ ~Return(p)
  BY <1>3, <1>8 DEF Insert
<1>9. Increment(p) => Return(p)
  BY DEF Increment
<1> QED
  BY <1>2, <1>4, <1>5, <1>6, <1>7, <1>8, <1>9

\* Deletion, by a caller or by the janitor, and the janitor's own steps.
LEMMA DeleteEffect ==
  ASSUME Types, ActorInv, NEW a \in Actors, DeleteEntry(a) \/ Decrement(a)
  PROVE  \E s \in Stages : Moves(a, s, loc[a]) /\ s \notin Holding
<1>1. loc[a] \in Locals /\ Proper(a, pc[a], loc[a]) /\ pc[a] \notin Holding
  BY DEF Types, ActorInv, DeleteEntry, Decrement, Holding
<1>2. loc' = [loc EXCEPT ![a] = loc[a]]
  BY DEF Types, DeleteEntry, Decrement
<1>3. PICK s \in {"decrement", "range", "redisGet"} : Goto(a, s) /\ (a = Janitor => s # "redisGet")
  BY DEF DeleteEntry, Decrement
<1>4. Moves(a, s, loc[a])
  BY <1>1, <1>2, <1>3 DEF Moves, Goto, Proper, Stages, Holding
<1> QED
  BY <1>3, <1>4 DEF Stages, Holding

LEMMA JanitorEffect ==
  ASSUME Types, ActorInv, StartEvict \/ EvictNext \/ \E k \in Keys : EvictVisit(k)
  PROVE  \E s \in {"idle", "range", "delete"}, r \in Locals : Moves(Janitor, s, r)
<1>1. /\ Janitor \in Actors /\ loc[Janitor] \in Locals /\ pc[Janitor] \notin Holding
      /\ loc[Janitor].by = "get"
  BY Constants DEF Types, ActorInv, Proper, StartEvict, EvictNext, EvictVisit, Holding
<1>2. ASSUME NEW s \in {"idle", "range", "delete"}, NEW r \in Locals, r.by = "get",
             pc' = [pc EXCEPT ![Janitor] = s], loc' = [loc EXCEPT ![Janitor] = r]
      PROVE  \E t \in {"idle", "range", "delete"}, q \in Locals : Moves(Janitor, t, q)
  <2>1. Moves(Janitor, s, r)
    BY <1>2 DEF Moves, Proper, Stages, Holding
  <2> QED
    BY <2>1
<1>3. ASSUME NEW m \in Maps, loc' = [loc EXCEPT ![Janitor].map = m]
      PROVE  \E r \in Locals : r.by = "get" /\ loc' = [loc EXCEPT ![Janitor] = r]
  <2>1. PICK r : r = [loc[Janitor] EXCEPT !.map = m]
    OBVIOUS
  <2>2. r \in Locals /\ r.by = "get"
    BY <1>1, <2>1 DEF Locals
  <2>3. loc' = [loc EXCEPT ![Janitor] = r]
    BY <1>1, <1>3, <2>1 DEF Types
  <2> QED
    BY <2>2, <2>3
<1>4. CASE StartEvict
  <2>1. PICK r \in Locals : r.by = "get" /\ loc' = [loc EXCEPT ![Janitor] = r]
    BY <1>3, <1>4 DEF StartEvict, Maps
  <2> QED
    BY <1>2, <1>4, <2>1 DEF StartEvict, Goto
<1>5. CASE EvictNext /\ Finish(Janitor)
  BY <1>2, <1>5, Constants DEF Finish, Goto
<1>6. CASE EvictNext /\ ~Finish(Janitor)
  <2>1. PICK r \in Locals : r.by = "get" /\ loc' = [loc EXCEPT ![Janitor] = r]
    BY <1>3, <1>6 DEF EvictNext, Maps
  <2>2. pc' = [pc EXCEPT ![Janitor] = "range"]
    BY <1>1, <1>6 DEF EvictNext, Types
  <2> QED
    BY <1>2, <2>1, <2>2
<1>7. ASSUME NEW k \in Keys, EvictVisit(k)
      PROVE  \E t \in {"idle", "range", "delete"}, q \in Locals : Moves(Janitor, t, q)
  <2>1. CASE UNCHANGED <<loc, pc>>
    <3>1. pc' = [pc EXCEPT ![Janitor] = "range"] /\ loc' = [loc EXCEPT ![Janitor] = loc[Janitor]]
      BY <1>1, <1>7, <2>1 DEF EvictVisit, Types
    <3> QED
      BY <1>1, <1>2, <3>1
  <2>2. CASE ~UNCHANGED <<loc, pc>>
    <3>1. loc' = [loc EXCEPT ![Janitor].key = [m \in Maps |-> k]] /\ Goto(Janitor, "delete")
      BY <1>7, <2>2 DEF EvictVisit
    <3>2. PICK r : r = [loc[Janitor] EXCEPT !.key = [m \in Maps |-> k]]
      OBVIOUS
    <3>3. r \in Locals /\ r.by = "get"
      BY <1>1, <3>2 DEF Locals
    <3>4. loc' = [loc EXCEPT ![Janitor] = r]
      BY <1>1, <3>1, <3>2 DEF Types
    <3> QED
      BY <1>2, <3>1, <3>3, <3>4 DEF Goto
  <2> QED
    BY <2>1, <2>2
<1> QED
  BY <1>4, <1>5, <1>6, <1>7

\* Store holds a verdict reached now, a hit in Redis one that is live now.
LEMMA StoreEffect ==
  ASSUME Types, ActorInv, NEW p \in Procs, NEW u \in Keys, NEW h \in Keys, NEW v \in Verdicts,
         Store(p, u, h, v)
  PROVE  \E r \in Locals : /\ Moves(p, "room", r) /\ r.by = "store" /\ r.verdict = v /\ r.born = now
                           /\ r.key["url"] = u /\ r.key["hash"] = h
<1>1. p \in Actors /\ p # Janitor
  BY Constants, ResultCacheAssumption
<1>2. PICK r : r = [map |-> "url", key |-> [m \in Maps |-> IF m = "url" THEN u ELSE h],
                    verdict |-> v, born |-> now, by |-> "store"]
  OBVIOUS
<1>3. /\ r \in Locals /\ r.by = "store" /\ r.verdict = v /\ r.born = now
      /\ r.key = [m \in Maps |-> IF m = "url" THEN u ELSE h]
  BY <1>2 DEF Locals, Types, Maps
<1>4. pc' = [pc EXCEPT ![p] = "room"] /\ loc' = [loc EXCEPT ![p] = r]
  BY <1>2 DEF Store, Goto
<1>5. Moves(p, "room", r)
  BY <1>1, <1>3, <1>4 DEF Moves, Proper, Stages, Holding
<1> QED
  BY <1>3, <1>5 DEF Maps

LEMMA HitEffect ==
  ASSUME Types, ActorInv, AgeInv, NEW p \in Procs, RedisGet(p), ~Finish(p)
  PROVE  \E r \in Locals : LET e == redis[r.map][r.key[r.map]]
                           IN  /\ Moves(p, "room", r) /\ r.by = "get" /\ Present(e)
                               /\ r.verdict = e.verdict /\ r.born = e.born
<1>1. /\ p \in Actors /\ p # Janitor /\ loc[p] \in Locals /\ Proper(p, pc[p], loc[p])
      /\ pc[p] = "redisGet"
  BY Constants, ResultCacheAssumption DEF Types, ActorInv, RedisGet
<1>2. MapOf(p) \in Maps /\ KeyOf(p) \in Keys /\ loc[p].by = "get"
  BY <1>1 DEF MapOf, KeyOf, Locals, Proper, Holding
<1>3. PICK e \in Entry : e = redis[MapOf(p)][KeyOf(p)]
  BY <1>2 DEF Types, Table
<1>4. /\ Live(e) /\ Goto(p, "room")
      /\ loc' = [loc EXCEPT ![p].verdict = e.verdict, ![p].born = e.born]
  BY <1>3 DEF RedisGet
<1>5. PICK r : r = [loc[p] EXCEPT !.verdict = e.verdict, !.born = e.born]
  OBVIOUS
<1>6. /\ r \in Locals /\ r.map = MapOf(p) /\ r.key = loc[p].key /\ r.by = "get"
      /\ r.verdict = e.verdict /\ r.born = e.born
  BY <1>1, <1>2, <1>5 DEF Locals, Entry, MapOf
<1>7. loc' = [loc EXCEPT ![p] = r]
  BY <1>1, <1>4, <1>5 DEF Types
<1>8. e.verdict \in Verdicts /\ now < e.born + TTL[r.map]
  <2>1. e.exp <= e.born + TTL[MapOf(p)] /\ now < e.exp /\ Present(e)
    BY <1>2, <1>3, <1>4 DEF AgeInv, Live
  <2> QED
    BY <1>2, <1>6, <2>1, Constants DEF Present, Entry, Types
<1>9. Moves(p, "room", r)
  BY <1>1, <1>4, <1>6, <1>7, <1>8 DEF Moves, Proper, Goto, Stages, Holding
<1> QED
  BY <1>3, <1>4, <1>6, <1>9 DEF Live, KeyOf, MapOf

-----------------------------------------------------------------------------
(* The invariant.                                                          *)
LEMMA InitIInv == Init => IInv
<1> SUFFICES ASSUME Init PROVE IInv
  OBVIOUS
<1>1. Types
  <2>1. mem \in Table /\ redis \in Table
    BY Constants DEF Init, Table
  <2>2. pc \in [Actors -> Stages] /\ loc \in [Actors -> Locals]
    BY Constants DEF Init, Stages
  <2> QED
    BY <2>1, <2>2 DEF Init, Types
<1>2. ActorInv
  BY Constants DEF Init, ActorInv, Proper, Holding
<1>3. AgeInv
  BY Constants DEF Init, AgeInv
<1>4. CounterNeverOvercounts
  <2>1. \A m \in Maps : PresentKeys(m) = {} /\ Incrementing(m) = {} /\ Decrementing(m) = {}
    BY Constants DEF Init, PresentKeys, Incrementing, Decrementing
  <2> QED
    <3>1. Cardinality({}) = 0
      BY FS_EmptySet
    <3>2. \A m \in Maps : count[m] = 0
      BY DEF Init
    <3> QED
      BY <2>1, <3>1, <3>2 DEF CounterNeverOvercounts
<1> QED
  BY <1>1, <1>2, <1>3, <1>4 DEF IInv

\* A step that changes no map, no counter and nothing in Redis.
LEMMA StillStep ==
  ASSUME IInv, NEW a \in Actors, NEW s \in Stages, NEW r \in Locals, Moves(a, s, r),
         pc[a] \notin {"increment", "decrement"}, s \notin {"increment", "decrement"},
         UNCHANGED <<mem, count, redis, now>>, sweep' \in [left : SUBSET Keys, now : Nat]
  PROVE  IInv'
<1>1. /\ pc' \in [Actors -> Stages] /\ loc' \in [Actors -> Locals] /\ ActorInv'
      /\ pc'[a] = s
      /\ \A b \in Actors : b # a => pc'[b] = pc[b] /\ loc'[b] = loc[b]
  BY ActorStep DEF IInv, Moves
<1>2. Types' /\ AgeInv'
  BY <1>1 DEF IInv, Types, AgeInv
<1>3. CounterNeverOvercounts'
  BY <1>1, Uncounted
<1> QED
  BY <1>1, <1>2, <1>3 DEF IInv

\* The look-up, the test of the room, and the janitor's visits.
LEMMA LookUpStep ==
  ASSUME IInv, NEW p \in Procs,
         \/ \E m \in Maps, k \in Keys : Load(p, m, k)
         \/ \E u, h \in Keys, v \in Verdicts : Store(p, u, h, v)
         \/ RedisGet(p) \/ CheckRoom(p)
  PROVE  IInv'
<1>1. /\ UNCHANGED <<mem, count, redis, now>> /\ sweep' \in [left : SUBSET Keys, now : Nat]
      /\ p \in Actors /\ pc[p] \in {"idle", "redisGet", "room"}
  BY Constants DEF IInv, Types, Load, Store, RedisGet, CheckRoom
<1>2. \E s \in Stages, r \in Locals : Moves(p, s, r)
  <2>1. CASE RedisGet(p) /\ ~Finish(p)
    BY <2>1, HitEffect DEF IInv, Stages
  <2>2. CASE \E u, h \in Keys, v \in Verdicts : Store(p, u, h, v)
    <3>1. PICK u \in Keys, h \in Keys, v \in Verdicts : Store(p, u, h, v)
      BY <2>2
    <3>2. PICK r \in Locals : Moves(p, "room", r)
      BY <3>1, StoreEffect DEF IInv
    <3> QED
      BY <3>2 DEF Stages
  <2> QED
    BY <2>1, <2>2, QuietEffect DEF IInv
<1>3. PICK s \in Stages, r \in Locals : Moves(p, s, r)
  BY <1>2
<1>4. s = pc'[p]
  BY <1>1, <1>3 DEF Moves, IInv, Types
<1>5. pc'[p] \in {"idle", "delete", "redisGet", "room", "insert", "redisSet"}
  BY <1>1 DEF Load, Store, RedisGet, CheckRoom, Return, Finish, Goto, IInv, Types
<1> QED
  BY <1>1, <1>3, <1>4, <1>5, StillStep

LEMMA JanitorStep ==
  ASSUME IInv, StartEvict \/ EvictNext \/ \E k \in Keys : EvictVisit(k)
  PROVE  IInv'
<1>1. UNCHANGED <<mem, count, redis, now>> /\ pc[Janitor] \in {"idle", "range"}
  BY DEF StartEvict, EvictNext, EvictVisit
<1>2. sweep' \in [left : SUBSET Keys, now : Nat]
  BY DEF StartEvict, EvictNext, EvictVisit, IInv, Types
<1>3. PICK s \in {"idle", "range", "delete"}, r \in Locals : Moves(Janitor, s, r)
  BY JanitorEffect DEF IInv
<1> QED
  BY <1>1, <1>2, <1>3, StillStep, Constants DEF Stages

\* What an actor with a verdict in hand writes: an entry that ends within one
\* lifetime of a verdict of Store, within two of any.
LEMMA WrittenEntry ==
  ASSUME Types, ActorInv, NEW p \in Actors, pc[p] \in Holding
  PROVE  LET e == [verdict |-> loc[p].verdict, born |-> loc[p].born, exp |-> now + TTL[MapOf(p)]]
         IN  /\ MapOf(p) \in Maps /\ KeyOf(p) \in Keys /\ e \in Entry /\ Present(e)
             /\ e.verdict = loc[p].verdict /\ e.born = loc[p].born
             /\ e.exp <= e.born + 2 * TTL[MapOf(p)]
             /\ pc[p] = "redisSet" => e.exp <= e.born + TTL[MapOf(p)]
<1>1. PICK e : e = [verdict |-> loc[p].verdict, born |-> loc[p].born, exp |-> now + TTL[MapOf(p)]]
  OBVIOUS
<1>2. MapOf(p) \in Maps /\ KeyOf(p) \in Keys
  BY DEF Types, Locals, MapOf, KeyOf
<1>3. TTL[MapOf(p)] \in Nat /\ TTL[MapOf(p)] > 0 /\ now \in Nat
  BY <1>2, Constants DEF Types
<1>4. /\ loc[p].verdict \in Verdicts /\ loc[p].born \in Nat /\ loc[p].by \in {"get", "store"}
      /\ loc[p].by = "store" => loc[p].born = now
      /\ loc[p].by = "get" => now < loc[p].born + TTL[MapOf(p)]
      /\ pc[p] = "redisSet" => loc[p].by = "store"
  BY DEF Types, Locals, ActorInv, Proper, MapOf
<1>5. /\ e.verdict = loc[p].verdict /\ e.born = loc[p].born /\ e.exp = now + TTL[MapOf(p)]
      /\ e \in Entry
  BY <1>1, <1>3, <1>4 DEF Entry
<1>6. Present(e)
  BY <1>4, <1>5 DEF Present, Verdicts
<1>7. /\ e.exp <= e.born + 2 * TTL[MapOf(p)]
      /\ pc[p] = "redisSet" => e.exp <= e.born + TTL[MapOf(p)]
  BY <1>3, <1>4, <1>5
<1> QED
  BY <1>1, <1>2, <1>5, <1>6, <1>7

\* RedisSet: the entry ends a lifetime after the call of Store.
LEMMA RedisSetStep == ASSUME IInv, NEW p \in Procs, RedisSet(p) PROVE IInv'
<1>1. p \in Actors /\ pc[p] = "redisSet" /\ UNCHANGED <<mem, count, now, sweep>>
  BY Constants DEF RedisSet
<1>2. PICK s \in Stages, r \in Locals : Moves(p, s, r)
  BY QuietEffect DEF IInv
<1>3. /\ pc' \in [Actors -> Stages] /\ loc' \in [Actors -> Locals] /\ ActorInv'
      /\ pc'[p] = s
      /\ \A b \in Actors : b # p => pc'[b] = pc[b] /\ loc'[b] = loc[b]
  BY <1>1, <1>2, ActorStep DEF IInv, Moves
<1>4. pc'[p] \in {"idle", "redisSet"}
  BY <1>1 DEF RedisSet, Finish, Goto, IInv, Types
<1>5. CounterNeverOvercounts'
  BY <1>1, <1>3, <1>4, Uncounted
<1>6. redis' \in Table /\ AgeInv'
  <2>1. CASE UNCHANGED redis
    BY <1>1, <2>1 DEF IInv, Types, AgeInv
  <2>2. CASE ~UNCHANGED redis
    <3>0. /\ pc[p] = "redisSet"
          /\ redis' = [redis EXCEPT ![MapOf(p)][KeyOf(p)] =
                         [verdict |-> loc[p].verdict, born |-> loc[p].born, exp |-> now + TTL[MapOf(p)]]]
      BY <1>1, <2>2 DEF RedisSet
    <3>1. PICK m \in Maps, k \in Keys, e \in Entry :
            /\ redis' = [redis EXCEPT ![m][k] = e] /\ e.exp <= e.born + TTL[m]
      BY <1>1, <3>0, WrittenEntry DEF IInv, Holding
    <3>2. /\ redis' \in Table /\ redis'[m][k] = e
          /\ \A n \in Maps, j \in Keys : n # m \/ j # k => redis'[n][j] = redis[n][j]
      BY <3>1 DEF IInv, Types, Table
    <3>3. \A n \in Maps, j \in Keys :
            Present(redis'[n][j]) => redis'[n][j].exp <= redis'[n][j].born + TTL[n]
      BY <3>1, <3>2 DEF IInv, AgeInv
    <3> QED
      BY <1>1, <3>2, <3>3 DEF IInv, AgeInv
  <2> QED
    BY <2>1, <2>2
<1>7. Types'
  BY <1>1, <1>3, <1>6 DEF IInv, Types
<1> QED
  BY <1>3, <1>5, <1>6, <1>7 DEF IInv

\* Insert: the entry is there before it is counted.
LEMMA InsertStep == ASSUME IInv, NEW p \in Procs, Insert(p) PROVE IInv'
<1>1. p \in Actors /\ pc[p] = "insert" /\ UNCHANGED <<count, redis, now, sweep>>
  BY Constants DEF Insert
<1>2. PICK s \in Stages, r \in Locals : Moves(p, s, r)
  BY QuietEffect DEF IInv
<1>3. /\ pc' \in [Actors -> Stages] /\ loc' \in [Actors -> Locals] /\ ActorInv'
      /\ pc'[p] = s
      /\ \A b \in Actors : b # p => pc'[b] = pc[b] /\ loc'[b] = loc[b]
  BY <1>1, <1>2, ActorStep DEF IInv, Moves
<1>4. CASE Return(p) /\ UNCHANGED mem
  <2>1. pc'[p] \in {"idle", "room", "redisSet"}
    BY <1>1, <1>4 DEF Return, Finish, Goto, IInv, Types
  <2> QED
    BY <1>1, <1>2, <1>3, <1>4, <2>1, StillStep DEF IInv, Types
<1>5. CASE ~(Return(p) /\ UNCHANGED mem)
  <2>1. /\ ~Present(mem[MapOf(p)][KeyOf(p)]) /\ Goto(p, "increment") /\ UNCHANGED loc
        /\ mem' = [mem EXCEPT ![MapOf(p)][KeyOf(p)] =
                     [verdict |-> loc[p].verdict, born |-> loc[p].born, exp |-> now + TTL[MapOf(p)]]]
    BY <1>5 DEF Insert
  <2>2. PICK m \in Maps, k \in Keys, e \in Entry :
          /\ mem' = [mem EXCEPT ![m][k] = e] /\ e.exp <= e.born + 2 * TTL[m]
          /\ Present(e) /\ m = MapOf(p) /\ ~Present(mem[m][k])
    BY <1>1, <2>1, WrittenEntry DEF IInv, Holding
  <2>3. /\ mem' \in Table /\ mem'[m][k] = e
        /\ \A n \in Maps, j \in Keys : n # m \/ j # k => mem'[n][j] = mem[n][j]
    BY <2>2 DEF IInv, Types, Table
  <2>4. AgeInv'
    <3>1. \A n \in Maps, j \in Keys :
            Present(mem'[n][j]) => mem'[n][j].exp <= mem'[n][j].born + 2 * TTL[n]
      BY <2>2, <2>3 DEF IInv, AgeInv
    <3> QED
      BY <1>1, <3>1 DEF IInv, AgeInv
  <2>5. pc'[p] = "increment" /\ loc'[p] = loc[p]
    BY <1>1, <2>1 DEF Goto, IInv, Types
  <2>6. ASSUME NEW n \in Maps
        PROVE  count'[n] + Cardinality(Incrementing(n))'
                 <= Cardinality(PresentKeys(n))' + Cardinality(Decrementing(n))'
    <3>1. Cardinality(PresentKeys(n))' = Cardinality(PresentKeys(n)) + (IF n = m THEN 1 ELSE 0)
      <4>1. Cardinality(PresentKeys(n))' = Cardinality(PresentKeys(n))
              + (IF n = m /\ Present(e) THEN 1 ELSE 0)
              - (IF n = m /\ Present(mem[m][k]) THEN 1 ELSE 0)
        BY <2>2, KeysStep DEF IInv
      <4> QED
        BY <2>2, <4>1, Counts
    <3>2. /\ Cardinality(Incrementing(n))' = Cardinality(Incrementing(n))
               + (IF pc'[p] = "increment" /\ loc'[p].map = n THEN 1 ELSE 0)
               - (IF pc[p] = "increment" /\ loc[p].map = n THEN 1 ELSE 0)
          /\ Cardinality(Decrementing(n))' = Cardinality(Decrementing(n))
               + (IF pc'[p] = "decrement" /\ loc'[p].map = n THEN 1 ELSE 0)
               - (IF pc[p] = "decrement" /\ loc[p].map = n THEN 1 ELSE 0)
      BY <1>1, <1>3, UpdatesStep
    <3>3. /\ Cardinality(Incrementing(n))' = Cardinality(Incrementing(n)) + (IF n = m THEN 1 ELSE 0)
          /\ Cardinality(Decrementing(n))' = Cardinality(Decrementing(n))
      BY <1>1, <2>2, <2>5, <3>2, Counts DEF MapOf
    <3>4. count'[n] = count[n] /\ count[n] \in Int
      BY <1>1 DEF IInv, Types
    <3> QED
      BY <3>1, <3>3, <3>4, Counts DEF IInv, CounterNeverOvercounts
  <2>7. Types'
    BY <1>1, <1>3, <2>3 DEF IInv, Types
  <2> QED
    BY <1>3, <2>4, <2>6, <2>7 DEF IInv, CounterNeverOvercounts
<1> QED
  BY <1>4, <1>5

\* Increment.
LEMMA IncrementStep == ASSUME IInv, NEW p \in Procs, Increment(p) PROVE IInv'
<1>1. /\ p \in Actors /\ pc[p] = "increment" /\ UNCHANGED <<mem, redis, now, sweep>>
      /\ Return(p) /\ MapOf(p) \in Maps
  BY Constants DEF Increment, MapOf, IInv, Types, Locals
<1>2. PICK s \in Stages, r \in Locals : Moves(p, s, r)
  BY QuietEffect DEF IInv
<1>3. /\ pc' \in [Actors -> Stages] /\ loc' \in [Actors -> Locals] /\ ActorInv'
      /\ \A b \in Actors : b # p => pc'[b] = pc[b] /\ loc'[b] = loc[b]
  BY <1>1, <1>2, ActorStep DEF IInv, Moves
<1>4. pc'[p] \in {"idle", "room", "redisSet"}
  BY <1>1 DEF Return, Finish, Goto, IInv, Types
<1>5. /\ count' \in [Maps -> Int]
      /\ \A n \in Maps : count'[n] = count[n] + (IF n = MapOf(p) THEN 1 ELSE 0)
  BY <1>1 DEF Increment, IInv, Types
<1>6. Types' /\ AgeInv'
  BY <1>1, <1>3, <1>5 DEF IInv, Types, AgeInv
<1>7. ASSUME NEW n \in Maps
      PROVE  count'[n] + Cardinality(Incrementing(n))'
               <= Cardinality(PresentKeys(n))' + Cardinality(Decrementing(n))'
  <2>1. /\ Cardinality(Incrementing(n))' = Cardinality(Incrementing(n))
             + (IF pc'[p] = "increment" /\ loc'[p].map = n THEN 1 ELSE 0)
             - (IF pc[p] = "increment" /\ loc[p].map = n THEN 1 ELSE 0)
        /\ Cardinality(Decrementing(n))' = Cardinality(Decrementing(n))
             + (IF pc'[p] = "decrement" /\ loc'[p].map = n THEN 1 ELSE 0)
             - (IF pc[p] = "decrement" /\ loc[p].map = n THEN 1 ELSE 0)
    BY <1>1, <1>3, UpdatesStep
  <2>2. /\ Cardinality(Incrementing(n))' = Cardinality(Incrementing(n)) - (IF n = MapOf(p) THEN 1 ELSE 0)
        /\ Cardinality(Decrementing(n))' = Cardinality(Decrementing(n))
    BY <1>1, <1>4, <2>1, Counts DEF MapOf
  <2>3. PresentKeys(n)' = PresentKeys(n) /\ count[n] \in Int
    BY <1>1 DEF PresentKeys, IInv, Types
  <2> QED
    BY <1>5, <2>2, <2>3, Counts DEF IInv, CounterNeverOvercounts
<1> QED
  BY <1>3, <1>6, <1>7 DEF IInv, CounterNeverOvercounts

\* The two steps of a deletion: the entry goes before it is uncounted, and it is
\* uncounted even when it was gone already.
LEMMA DeleteStep == ASSUME IInv, NEW a \in Actors, DeleteEntry(a) \/ Decrement(a) PROVE IInv'
<1>1. /\ pc[a] \in {"delete", "decrement"} /\ UNCHANGED <<redis, now, loc, sweep>>
      /\ MapOf(a) \in Maps /\ KeyOf(a) \in Keys
  BY DEF DeleteEntry, Decrement, MapOf, KeyOf, IInv, Types, Locals
<1>2. PICK s \in Stages : Moves(a, s, loc[a])
  BY DeleteEffect DEF IInv
<1>3. loc[a] \in Locals
  BY DEF IInv, Types
<1>4. /\ pc' \in [Actors -> Stages] /\ loc' \in [Actors -> Locals] /\ ActorInv'
      /\ \A b \in Actors : b # a => pc'[b] = pc[b] /\ loc'[b] = loc[b]
  <2>1. PICK r \in Locals : r = loc[a]
    BY <1>3
  <2>2. Moves(a, s, r)
    BY <1>2, <2>1
  <2> QED
    BY <1>1, <2>2, ActorStep DEF IInv, Moves
<1>5. ASSUME NEW n \in Maps
      PROVE  /\ Cardinality(Incrementing(n))' = Cardinality(Incrementing(n))
                  + (IF pc'[a] = "increment" /\ loc'[a].map = n THEN 1 ELSE 0)
                  - (IF pc[a] = "increment" /\ loc[a].map = n THEN 1 ELSE 0)
             /\ Cardinality(Decrementing(n))' = Cardinality(Decrementing(n))
                  + (IF pc'[a] = "decrement" /\ loc'[a].map = n THEN 1 ELSE 0)
                  - (IF pc[a] = "decrement" /\ loc[a].map = n THEN 1 ELSE 0)
  BY <1>4, UpdatesStep
<1>6. CASE DeleteEntry(a)
  <2>1. pc[a] = "delete" /\ pc'[a] = "decrement" /\ loc'[a].map = MapOf(a) /\ UNCHANGED count
    BY <1>1, <1>6 DEF DeleteEntry, Goto, MapOf, IInv, Types
  <2>2. PICK m \in Maps, k \in Keys : m = MapOf(a) /\ k = KeyOf(a)
    BY <1>1
  <2>3. mem' = [mem EXCEPT ![m][k] = NoEntry] /\ NoEntry \in Entry /\ ~Present(NoEntry)
    BY <1>6, <2>2, Constants DEF DeleteEntry
  <2>4. /\ mem' \in Table /\ ~Present(mem'[m][k])
        /\ \A n \in Maps, j \in Keys : n # m \/ j # k => mem'[n][j] = mem[n][j]
    BY <2>3 DEF IInv, Types, Table
  <2>5. Types' /\ AgeInv'
    <3>1. \A n \in Maps, j \in Keys :
            Present(mem'[n][j]) => mem'[n][j].exp <= mem'[n][j].born + 2 * TTL[n]
      BY <2>4 DEF IInv, AgeInv
    <3> QED
      BY <1>1, <1>4, <2>1, <2>4, <3>1 DEF IInv, Types, AgeInv
  <2>6. ASSUME NEW n \in Maps
        PROVE  count'[n] + Cardinality(Incrementing(n))'
                 <= Cardinality(PresentKeys(n))' + Cardinality(Decrementing(n))'
    <3>1. Cardinality(PresentKeys(n))' = Cardinality(PresentKeys(n))
            + (IF n = m /\ Present(NoEntry) THEN 1 ELSE 0)
            - (IF n = m /\ Present(mem[m][k]) THEN 1 ELSE 0)
      BY <2>3, KeysStep DEF IInv
    <3>2. /\ Cardinality(PresentKeys(n))' >= Cardinality(PresentKeys(n)) - (IF n = m THEN 1 ELSE 0)
          /\ Cardinality(PresentKeys(n))' \in Int
      BY <2>3, <3>1, Counts
    <3>3. /\ Cardinality(Incrementing(n))' = Cardinality(Incrementing(n))
          /\ Cardinality(Decrementing(n))' = Cardinality(Decrementing(n)) + (IF n = m THEN 1 ELSE 0)
      BY <1>5, <2>1, <2>2, Counts
    <3>4. count'[n] = count[n] /\ count[n] \in Int
      BY <2>1 DEF IInv, Types
    <3> QED
      BY <3>2, <3>3, <3>4, Counts DEF IInv, CounterNeverOvercounts
  <2> QED
    BY <1>4, <2>5, <2>6 DEF IInv, CounterNeverOvercounts
<1>7. CASE Decrement(a)
  <2>1. pc[a] = "decrement" /\ pc'[a] \in {"range", "redisGet"} /\ UNCHANGED mem
    BY <1>1, <1>7 DEF Decrement, Goto, IInv, Types
  <2>2. /\ count' \in [Maps -> Int]
        /\ \A n \in Maps : count'[n] = count[n] - (IF n = MapOf(a) THEN 1 ELSE 0)
    BY <1>1, <1>7 DEF Decrement, IInv, Types
  <2>3. Types' /\ AgeInv'
    BY <1>1, <1>4, <2>1, <2>2 DEF IInv, Types, AgeInv
  <2>4. ASSUME NEW n \in Maps
        PROVE  count'[n] + Cardinality(Incrementing(n))'
                 <= Cardinality(PresentKeys(n))' + Cardinality(Decrementing(n))'
    <3>1. /\ Cardinality(Incrementing(n))' = Cardinality(Incrementing(n))
          /\ Cardinality(Decrementing(n))' = Cardinality(Decrementing(n)) - (IF n = MapOf(a) THEN 1 ELSE 0)
      BY <1>5, <2>1, Counts DEF MapOf
    <3>2. PresentKeys(n)' = PresentKeys(n) /\ count[n] \in Int
      BY <2>1 DEF PresentKeys, IInv, Types
    <3> QED
      BY <2>2, <3>1, <3>2, Counts DEF IInv, CounterNeverOvercounts
  <2> QED
    BY <1>4, <2>3, <2>4 DEF IInv, CounterNeverOvercounts
<1> QED
  BY <1>6, <1>7

\* The clock moves while nobody holds a verdict.
LEMMA TickStep == ASSUME IInv, Tick PROVE IInv'
<1>1. UNCHANGED <<mem, count, redis, pc, loc, sweep>> /\ now' = now + 1
  BY DEF Tick
<1>2. \A a \in Actors : pc[a] \notin Holding
  BY DEF Tick, Busy, Holding
<1>3. Types' /\ AgeInv' /\ CounterNeverOvercounts'
  BY <1>1 DEF IInv, Types, AgeInv, CounterNeverOvercounts, PresentKeys, Incrementing, Decrementing, MapOf
<1>4. ActorInv'
  BY <1>1, <1>2 DEF IInv, ActorInv, Proper, Holding
<1> QED
  BY <1>3, <1>4 DEF IInv

\* Every step keeps the invariant.
LEMMA NextIInv == IInv /\ [Next]_vars => IInv'
<1> SUFFICES ASSUME IInv, [Next]_vars PROVE IInv'
  OBVIOUS
<1>1. CASE UNCHANGED vars
  BY <1>1 DEF vars, IInv, Types, ActorInv, Proper, AgeInv, CounterNeverOvercounts, PresentKeys,
              Incrementing, Decrementing, MapOf
<1>2. CASE Next
  BY <1>2, LookUpStep, InsertStep, IncrementStep, RedisSetStep, DeleteStep, JanitorStep, TickStep
     DEF Next
<1> QED
  BY <1>1, <1>2

\* The invariant holds in every state the cache reaches.
THEOREM Invariance == Spec => []IInv
<1> QED
  BY InitIInv, NextIInv, PTL DEF Spec

\* The counters never claim more entries than the maps hold, once the updates
\* still to come are accounted for.
THEOREM CountersNeverOvercount == Spec => []CounterNeverOvercounts
<1>1. IInv => CounterNeverOvercounts
  BY DEF IInv
<1> QED
  BY <1>1, Invariance, PTL

-----------------------------------------------------------------------------
(* The cache implements VerdictStore.                                      *)
InMem(m, k) == Present(mem[m][k])
InRedis(m, k) == Present(redis[m][k])
InHand(a, m) == pc[a] \in Holding /\ (loc[a].by = "store" \/ m = loc[a].map)

MemFact(m, k) == Fact(m, k, mem[m][k].verdict, mem[m][k].born)
RedisFact(m, k) == Fact(m, k, redis[m][k].verdict, redis[m][k].born)
HandFact(a, m) == Fact(m, loc[a].key[m], loc[a].verdict, loc[a].born)

\* What is known is in memory, in Redis or in somebody's hands.
KnownParts ==
  /\ \A m \in Maps, k \in Keys : InMem(m, k) => MemFact(m, k) \in Known
  /\ \A m \in Maps, k \in Keys : InRedis(m, k) => RedisFact(m, k) \in Known
  /\ \A a \in Actors, m \in Maps : InHand(a, m) => HandFact(a, m) \in Known
  /\ \A f \in Known : \/ \E m \in Maps, k \in Keys : InMem(m, k) /\ f = MemFact(m, k)
                      \/ \E m \in Maps, k \in Keys : InRedis(m, k) /\ f = RedisFact(m, k)
                      \/ \E a \in Actors, m \in Maps : InHand(a, m) /\ f = HandFact(a, m)

LEMMA KnownIs == Types => KnownParts
<1> SUFFICES ASSUME Types PROVE KnownParts
  OBVIOUS
<1>1. \A a \in Actors : loc[a].map \in Maps
  BY DEF Types, Locals
<1>2. \A m, k, v, b : Fact(m, k, v, b).verdict = v
  BY DEF Fact
<1>3. \A m \in Maps, k \in Keys : InMem(m, k) => MemFact(m, k) \in Known
  BY <1>2 DEF InMem, MemFact, Present, Known
<1>4. \A m \in Maps, k \in Keys : InRedis(m, k) => RedisFact(m, k) \in Known
  BY <1>2 DEF InRedis, RedisFact, Present, Known
<1>5. ASSUME NEW a \in Actors, NEW m \in Maps, InHand(a, m) PROVE HandFact(a, m) \in Known
  <2>1. Busy(a)
    BY <1>5 DEF Busy, InHand, Holding
  <2>2. m \in IF loc[a].by = "store" THEN Maps ELSE {MapOf(a)}
    BY <1>5 DEF InHand, MapOf
  <2> QED
    BY <2>1, <2>2 DEF Known, HandFact
<1>6. ASSUME NEW f \in Known
      PROVE  \/ \E m \in Maps, k \in Keys : InMem(m, k) /\ f = MemFact(m, k)
             \/ \E m \in Maps, k \in Keys : InRedis(m, k) /\ f = RedisFact(m, k)
             \/ \E a \in Actors, m \in Maps : InHand(a, m) /\ f = HandFact(a, m)
  <2>1. CASE \E m \in Maps, k \in Keys : f = MemFact(m, k) /\ f.verdict # "none"
    BY <1>2, <2>1 DEF InMem, MemFact, Present
  <2>2. CASE \E m \in Maps, k \in Keys : f = RedisFact(m, k) /\ f.verdict # "none"
    BY <1>2, <2>2 DEF InRedis, RedisFact, Present
  <2>3. CASE \E a \in Actors : /\ Busy(a)
                              /\ \E m \in IF loc[a].by = "store" THEN Maps ELSE {MapOf(a)} :
                                   f = HandFact(a, m)
    BY <1>1, <2>3 DEF Busy, InHand, Holding, MapOf
  <2> QED
    BY <2>1, <2>2, <2>3 DEF Known, MemFact, RedisFact, HandFact
<1> QED
  BY <1>3, <1>4, <1>5, <1>6 DEF KnownParts

\* A step adds nothing to what is known if every part of it was known.
LEMMA Shrinks ==
  ASSUME Types, Types',
         \A m \in Maps, k \in Keys : InMem(m, k)' => MemFact(m, k)' \in Known,
         \A m \in Maps, k \in Keys : InRedis(m, k)' => RedisFact(m, k)' \in Known,
         \A a \in Actors, m \in Maps : InHand(a, m)' => HandFact(a, m)' \in Known
  PROVE  Known' \subseteq Known
<1>1. KnownParts'
  BY KnownIs, PTL
<1> QED
  BY <1>1 DEF KnownParts

\* The parts that a step leaves alone.
LEMMA PartsKept ==
  ASSUME Types
  PROVE  /\ UNCHANGED mem => \A m \in Maps, k \in Keys : InMem(m, k)' => MemFact(m, k)' \in Known
         /\ UNCHANGED redis => \A m \in Maps, k \in Keys : InRedis(m, k)' => RedisFact(m, k)' \in Known
         /\ \A a \in Actors, m \in Maps :
              pc'[a] = pc[a] /\ loc'[a] = loc[a] /\ InHand(a, m)' => HandFact(a, m)' \in Known
<1>1. KnownParts
  BY KnownIs
<1>2. UNCHANGED mem => \A m \in Maps, k \in Keys : InMem(m, k)' => MemFact(m, k)' \in Known
  BY <1>1 DEF KnownParts, InMem, MemFact, Fact, Present
<1>3. UNCHANGED redis => \A m \in Maps, k \in Keys : InRedis(m, k)' => RedisFact(m, k)' \in Known
  BY <1>1 DEF KnownParts, InRedis, RedisFact, Fact, Present
<1>4. \A a \in Actors, m \in Maps :
        pc'[a] = pc[a] /\ loc'[a] = loc[a] /\ InHand(a, m)' => HandFact(a, m)' \in Known
  BY <1>1 DEF KnownParts, InHand, HandFact, Fact
<1> QED
  BY <1>2, <1>3, <1>4

\* What everybody holds after one actor moved on without a new verdict.
LEMMA HandsKept ==
  ASSUME Types, NEW a \in Actors, NEW s \in Stages, NEW r \in Locals, Moves(a, s, r), Keeps(a, s, r)
  PROVE  \A b \in Actors, m \in Maps : InHand(b, m)' => HandFact(b, m)' \in Known
<1>1. /\ pc'[a] = s /\ loc'[a] = r
      /\ \A b \in Actors : b # a => pc'[b] = pc[b] /\ loc'[b] = loc[b]
  BY DEF Moves, Types
<1>2. ASSUME NEW m \in Maps, InHand(a, m)' PROVE HandFact(a, m)' \in Known
  <2>1. InHand(a, m) /\ HandFact(a, m)' = HandFact(a, m)
    BY <1>1, <1>2 DEF InHand, HandFact, Fact, Keeps
  <2> QED
    BY <2>1, KnownIs DEF KnownParts
<1> QED
  BY <1>1, <1>2, PartsKept

\* No step but Store adds to what is known.
LEMMA NothingNew ==
  ASSUME IInv, Types', [Next]_vars, ~ \E p \in Procs, u, h \in Keys, v \in Verdicts : Store(p, u, h, v)
  PROVE  Known' \subseteq Known
<1> USE DEF IInv
<1>1. CASE Tick \/ UNCHANGED vars
  <2>1. UNCHANGED <<mem, redis, pc, loc>>
    BY <1>1 DEF Tick, vars
  <2> QED
    BY <2>1, Shrinks, PartsKept
<1>2. ASSUME NEW p \in Procs,
             \/ \E m \in Maps, k \in Keys : Load(p, m, k)
             \/ RedisGet(p) /\ Finish(p)
             \/ CheckRoom(p) \/ Insert(p) \/ Increment(p) \/ RedisSet(p)
      PROVE  Known' \subseteq Known
  <2>1. p \in Actors
    BY Constants
  <2>2. PICK s \in Stages, r \in Locals : Moves(p, s, r) /\ Keeps(p, s, r)
    BY <1>2, QuietEffect
  <2>3. \A b \in Actors, m \in Maps : InHand(b, m)' => HandFact(b, m)' \in Known
    BY <2>1, <2>2, HandsKept
  <2>4. CASE UNCHANGED <<mem, redis>>
    BY <2>3, <2>4, Shrinks, PartsKept
  <2>5. ASSUME pc[p] \in Holding
        PROVE  /\ MapOf(p) \in Maps /\ KeyOf(p) \in Keys
               /\ Fact(MapOf(p), KeyOf(p), loc[p].verdict, loc[p].born) \in Known
    <3>1. MapOf(p) \in Maps /\ KeyOf(p) \in Keys
      BY <2>1, <2>5, WrittenEntry
    <3>2. InHand(p, MapOf(p)) /\ HandFact(p, MapOf(p)) = Fact(MapOf(p), KeyOf(p), loc[p].verdict, loc[p].born)
      BY <2>5 DEF InHand, HandFact, MapOf, KeyOf
    <3> QED
      BY <2>1, <3>1, <3>2, KnownIs DEF KnownParts
  <2>6. CASE Insert(p) /\ mem' # mem
    <3>1. /\ pc[p] = "insert" /\ UNCHANGED redis
          /\ mem' = [mem EXCEPT ![MapOf(p)][KeyOf(p)] =
                       [verdict |-> loc[p].verdict, born |-> loc[p].born, exp |-> now + TTL[MapOf(p)]]]
      BY <2>6 DEF Insert
    <3>2. PICK m \in Maps, k \in Keys, e \in Entry :
            /\ m = MapOf(p) /\ k = KeyOf(p) /\ e.verdict = loc[p].verdict /\ e.born = loc[p].born
            /\ mem' = [mem EXCEPT ![m][k] = e]
      BY <2>1, <3>1, WrittenEntry DEF Holding
    <3>3. /\ mem'[m][k] = e
          /\ \A n \in Maps, j \in Keys : n # m \/ j # k => mem'[n][j] = mem[n][j]
      BY <3>2 DEF Types, Table
    <3>4. ASSUME NEW n \in Maps, NEW j \in Keys, InMem(n, j)' PROVE MemFact(n, j)' \in Known
      <4>1. CASE n = m /\ j = k
        <5>1. MemFact(n, j)' = Fact(m, k, e.verdict, e.born)
          BY <3>3, <4>1 DEF MemFact, Fact
        <5>2. Fact(m, k, e.verdict, e.born) = Fact(MapOf(p), KeyOf(p), loc[p].verdict, loc[p].born)
          BY <3>2
        <5> QED
          BY <2>5, <3>1, <5>1, <5>2 DEF Holding
      <4>2. CASE n # m \/ j # k
        <5>1. InMem(n, j) /\ MemFact(n, j)' = MemFact(n, j)
          BY <3>3, <3>4, <4>2 DEF InMem, Present, MemFact, Fact
        <5> QED
          BY <5>1, KnownIs DEF KnownParts
      <4> QED
        BY <4>1, <4>2
    <3> QED
      BY <2>3, <3>1, <3>4, Shrinks, PartsKept
  <2>7. CASE RedisSet(p) /\ redis' # redis
    <3>1. /\ pc[p] = "redisSet" /\ UNCHANGED mem
          /\ redis' = [redis EXCEPT ![MapOf(p)][KeyOf(p)] =
                         [verdict |-> loc[p].verdict, born |-> loc[p].born, exp |-> now + TTL[MapOf(p)]]]
      BY <2>7 DEF RedisSet
    <3>2. PICK m \in Maps, k \in Keys, e \in Entry :
            /\ m = MapOf(p) /\ k = KeyOf(p) /\ e.verdict = loc[p].verdict /\ e.born = loc[p].born
            /\ redis' = [redis EXCEPT ![m][k] = e]
      BY <2>1, <3>1, WrittenEntry DEF Holding
    <3>3. /\ redis'[m][k] = e
          /\ \A n \in Maps, j \in Keys : n # m \/ j # k => redis'[n][j] = redis[n][j]
      BY <3>2 DEF Types, Table
    <3>4. ASSUME NEW n \in Maps, NEW j \in Keys, InRedis(n, j)' PROVE RedisFact(n, j)' \in Known
      <4>1. CASE n = m /\ j = k
        <5>1. RedisFact(n, j)' = Fact(m, k, e.verdict, e.born)
          BY <3>3, <4>1 DEF RedisFact, Fact
        <5>2. Fact(m, k, e.verdict, e.born) = Fact(MapOf(p), KeyOf(p), loc[p].verdict, loc[p].born)
          BY <3>2
        <5> QED
          BY <2>5, <3>1, <5>1, <5>2 DEF Holding
      <4>2. CASE n # m \/ j # k
        <5>1. InRedis(n, j) /\ RedisFact(n, j)' = RedisFact(n, j)
          BY <3>3, <3>4, <4>2 DEF InRedis, Present, RedisFact, Fact
        <5> QED
          BY <5>1, KnownIs DEF KnownParts
      <4> QED
        BY <4>1, <4>2
    <3> QED
      BY <2>3, <3>1, <3>4, Shrinks, PartsKept
  <2> QED
    BY <1>2, <2>4, <2>6, <2>7 DEF Load, RedisGet, CheckRoom, Insert, Increment, RedisSet
<1>3. ASSUME NEW p \in Procs, RedisGet(p), ~Finish(p) PROVE Known' \subseteq Known
  <2>1. p \in Actors /\ UNCHANGED <<mem, redis>>
    BY <1>3, Constants DEF RedisGet
  <2>2. PICK r \in Locals :
          /\ Moves(p, "room", r) /\ r.by = "get" /\ Present(redis[r.map][r.key[r.map]])
          /\ r.verdict = redis[r.map][r.key[r.map]].verdict
          /\ r.born = redis[r.map][r.key[r.map]].born
    BY <1>3, HitEffect
  <2>3. /\ loc'[p] = r /\ r.map \in Maps /\ r.key[r.map] \in Keys
        /\ \A b \in Actors : b # p => pc'[b] = pc[b] /\ loc'[b] = loc[b]
    BY <2>1, <2>2 DEF Moves, Types, Locals
  <2>4. ASSUME NEW m \in Maps, InHand(p, m)' PROVE HandFact(p, m)' \in Known
    <3>1. m = r.map
      BY <2>2, <2>3, <2>4 DEF InHand
    <3>2. HandFact(p, m)' = RedisFact(r.map, r.key[r.map]) /\ InRedis(r.map, r.key[r.map])
      BY <2>2, <2>3, <3>1 DEF HandFact, RedisFact, InRedis
    <3> QED
      BY <2>3, <3>2, KnownIs DEF KnownParts
  <2>5. \A b \in Actors, m \in Maps : InHand(b, m)' => HandFact(b, m)' \in Known
    BY <2>3, <2>4, PartsKept
  <2> QED
    BY <2>1, <2>5, Shrinks, PartsKept
<1>4. ASSUME NEW a \in Actors, DeleteEntry(a) \/ Decrement(a) PROVE Known' \subseteq Known
  <2>1. PICK s \in Stages : Moves(a, s, loc[a]) /\ s \notin Holding
    BY <1>4, DeleteEffect
  <2>2. PICK r \in Locals : r = loc[a]
    BY DEF Types
  <2>3. Moves(a, s, r) /\ Keeps(a, s, r)
    BY <2>1, <2>2 DEF Keeps
  <2>4. \A b \in Actors, m \in Maps : InHand(b, m)' => HandFact(b, m)' \in Known
    BY <2>3, HandsKept
  <2>5. \A n \in Maps, j \in Keys : mem'[n][j] = mem[n][j] \/ ~Present(mem'[n][j])
    <3>1. PICK m \in Maps, k \in Keys : m = MapOf(a) /\ k = KeyOf(a)
      BY DEF Types, Locals, MapOf, KeyOf
    <3>2. UNCHANGED mem \/ mem' = [mem EXCEPT ![m][k] = NoEntry]
      BY <1>4, <3>1 DEF DeleteEntry, Decrement
    <3>3. PICK e \in Entry : e = NoEntry /\ ~Present(e)
      BY Constants
    <3>4. mem' = [mem EXCEPT ![m][k] = e]
            => \A n \in Maps, j \in Keys : mem'[n][j] = mem[n][j] \/ mem'[n][j] = e
      BY DEF Types, Table
    <3> QED
      BY <3>2, <3>3, <3>4
  <2>6. ASSUME NEW n \in Maps, NEW j \in Keys, InMem(n, j)' PROVE MemFact(n, j)' \in Known
    <3>1. InMem(n, j) /\ MemFact(n, j)' = MemFact(n, j)
      BY <2>5, <2>6 DEF InMem, Present, MemFact, Fact
    <3> QED
      BY <3>1, KnownIs DEF KnownParts
  <2>7. UNCHANGED redis
    BY <1>4 DEF DeleteEntry, Decrement
  <2> QED
    BY <2>4, <2>6, <2>7, Shrinks, PartsKept
<1>5. CASE StartEvict \/ EvictNext \/ \E k \in Keys : EvictVisit(k)
  <2>1. PICK s \in {"idle", "range", "delete"}, r \in Locals : Moves(Janitor, s, r)
    BY <1>5, JanitorEffect
  <2>2. Keeps(Janitor, s, r) /\ s \in Stages /\ Janitor \in Actors
    BY Constants DEF Keeps, Holding, Stages
  <2>3. \A b \in Actors, m \in Maps : InHand(b, m)' => HandFact(b, m)' \in Known
    BY <2>1, <2>2, HandsKept
  <2>4. UNCHANGED <<mem, redis>>
    BY <1>5 DEF StartEvict, EvictNext, EvictVisit
  <2> QED
    BY <2>3, <2>4, Shrinks, PartsKept
<1> QED
  BY <1>1, <1>2, <1>3, <1>4, <1>5 DEF Next

\* Whatever is answered is known for the key that was asked, and not too old: a
\* hit in memory, or a hit in Redis once storeMem has returned.
Answered == \E f \in Known, m \in Maps, k \in Keys :
              answer' = f /\ f.map = m /\ f.key = k /\ now - f.born < 2 * TTL[m]

LEMMA AnswersAreKnown == ASSUME IInv, Next PROVE answer' = Miss \/ Answered
<1> USE DEF IInv
<1>1. \A m, k, v, b : /\ Fact(m, k, v, b).map = m /\ Fact(m, k, v, b).key = k
                      /\ Fact(m, k, v, b).verdict = v /\ Fact(m, k, v, b).born = b
  BY DEF Fact
<1>2. ASSUME NEW p \in Procs, NEW m \in Maps, NEW k \in Keys, Load(p, m, k)
      PROVE  answer' = Miss \/ Answered
  <2>1. CASE Live(mem[m][k])
    <3>1. answer' = MemFact(m, k) /\ InMem(m, k) /\ now < mem[m][k].exp
      BY <1>2, <2>1 DEF Load, Answer, MemFact, Fact, InMem, Live
    <3>2. MemFact(m, k) \in Known
      BY <3>1, KnownIs DEF KnownParts
    <3>3. mem[m][k].exp <= mem[m][k].born + 2 * TTL[m]
      BY <3>1 DEF AgeInv, InMem
    <3>4. mem[m][k].exp \in Nat /\ mem[m][k].born \in Nat /\ now \in Nat /\ TTL[m] \in Nat
      BY Constants DEF Types, Table, Entry
    <3>5. now - mem[m][k].born < 2 * TTL[m]
      BY <3>1, <3>3, <3>4
    <3>6. MemFact(m, k).map = m /\ MemFact(m, k).key = k /\ MemFact(m, k).born = mem[m][k].born
      BY <1>1 DEF MemFact
    <3> QED
      BY <3>1, <3>2, <3>5, <3>6 DEF Answered
  <2>2. CASE ~Live(mem[m][k])
    BY <1>2, <2>2 DEF Load, NoAnswer
  <2> QED
    BY <2>1, <2>2
<1>3. ASSUME NEW p \in Procs, Return(p), pc[p] \in Holding \ {"redisSet"}
      PROVE  answer' = Miss \/ Answered
  <2>1. CASE loc[p].by = "get"
    <3>1. /\ p \in Actors /\ MapOf(p) \in Maps /\ KeyOf(p) \in Keys
          /\ loc[p].born \in Nat /\ now \in Nat /\ TTL[MapOf(p)] \in Nat
      <4>1. p \in Actors
        BY Constants
      <4>2. MapOf(p) \in Maps /\ KeyOf(p) \in Keys /\ loc[p].born \in Nat /\ now \in Nat
        BY <4>1 DEF Types, Locals, MapOf, KeyOf
      <4> QED
        BY <4>1, <4>2, Constants
    <3>2. answer' = HandFact(p, MapOf(p)) /\ InHand(p, MapOf(p))
      BY <1>3, <2>1 DEF Return, Answer, HandFact, Fact, InHand, MapOf, KeyOf
    <3>3. HandFact(p, MapOf(p)) \in Known
      BY <3>1, <3>2, KnownIs DEF KnownParts
    <3>4. now < loc[p].born + TTL[MapOf(p)]
      BY <1>3, <2>1, <3>1 DEF ActorInv, Proper, MapOf
    <3>5. now - loc[p].born < 2 * TTL[MapOf(p)]
      BY <3>1, <3>4
    <3>6. /\ HandFact(p, MapOf(p)).map = MapOf(p) /\ HandFact(p, MapOf(p)).key = KeyOf(p)
          /\ HandFact(p, MapOf(p)).born = loc[p].born
      BY <1>1 DEF HandFact, KeyOf, MapOf
    <3> QED
      BY <3>1, <3>2, <3>3, <3>5, <3>6 DEF Answered
  <2>2. CASE loc[p].by # "get"
    BY <1>3, <2>2 DEF Return, NoAnswer
  <2> QED
    BY <2>1, <2>2
<1>4. ASSUME NEW p \in Procs, CheckRoom(p) \/ Insert(p) \/ Increment(p)
      PROVE  answer' = Miss \/ Answered
  <2>1. pc[p] \in Holding \ {"redisSet"}
    BY <1>4 DEF CheckRoom, Insert, Increment, Holding
  <2>2. Return(p) \/ answer' = Miss
    BY <1>4 DEF CheckRoom, Insert, Increment, NoAnswer
  <2> QED
    BY <1>3, <2>1, <2>2
<1>5. ASSUME NEW p \in Procs, RedisGet(p) \/ RedisSet(p) \/ \E u, h \in Keys, v \in Verdicts : Store(p, u, h, v)
      PROVE  answer' = Miss
  BY <1>5 DEF RedisGet, RedisSet, Store, NoAnswer
<1>6. ASSUME NEW a \in Actors, DeleteEntry(a) \/ Decrement(a)
      PROVE  answer' = Miss
  BY <1>6 DEF DeleteEntry, Decrement, NoAnswer
<1>7. CASE StartEvict \/ EvictNext \/ Tick \/ \E k \in Keys : EvictVisit(k)
  BY <1>7 DEF StartEvict, EvictNext, EvictVisit, Tick, NoAnswer
<1> QED
  BY <1>2, <1>4, <1>5, <1>6, <1>7 DEF Next

\* Store makes its verdict known for the URL and for the hash, and nothing else.
LEMMA StoreRecords ==
  ASSUME IInv, Types', NEW p \in Procs, NEW u \in Keys, NEW h \in Keys, NEW v \in Verdicts,
         Store(p, u, h, v)
  PROVE  Abstract!Record(u, h, v)
<1> USE DEF IInv
<1>1. p \in Actors /\ pc[p] = "idle" /\ UNCHANGED <<mem, redis, now>> /\ answer' = Miss
  BY Constants DEF Store, NoAnswer
<1>2. PICK r \in Locals : /\ Moves(p, "room", r) /\ r.by = "store" /\ r.verdict = v /\ r.born = now
                          /\ r.key["url"] = u /\ r.key["hash"] = h
  BY StoreEffect
<1>3. /\ pc'[p] = "room" /\ loc'[p] = r
      /\ \A b \in Actors : b # p => pc'[b] = pc[b] /\ loc'[b] = loc[b]
  BY <1>1, <1>2 DEF Moves, Types
<1>4. HandFact(p, "url")' = Fact("url", u, v, now) /\ HandFact(p, "hash")' = Fact("hash", h, v, now)
  BY <1>2, <1>3 DEF HandFact, Fact
<1>5. \A m \in Maps : InHand(p, m)' /\ ~InHand(p, m)
  BY <1>1, <1>2, <1>3 DEF InHand, Holding
<1>6. KnownParts /\ KnownParts'
  BY KnownIs, PTL
<1>7. Known' \subseteq Known \cup {Fact("url", u, v, now), Fact("hash", h, v, now)}
  <2> SUFFICES ASSUME NEW f \in Known' PROVE f \in Known \cup {Fact("url", u, v, now), Fact("hash", h, v, now)}
    OBVIOUS
  <2>1. CASE \E m \in Maps, k \in Keys : InMem(m, k)' /\ f = MemFact(m, k)'
    BY <1>1, <2>1, PartsKept
  <2>2. CASE \E m \in Maps, k \in Keys : InRedis(m, k)' /\ f = RedisFact(m, k)'
    BY <1>1, <2>2, PartsKept
  <2>3. CASE \E a \in Actors, m \in Maps : InHand(a, m)' /\ f = HandFact(a, m)'
    <3>1. PICK a \in Actors, m \in Maps : InHand(a, m)' /\ f = HandFact(a, m)'
      BY <2>3
    <3>2. CASE a = p
      BY <1>4, <3>1, <3>2 DEF Maps
    <3>3. CASE a # p
      BY <1>3, <3>1, <3>3, PartsKept
    <3> QED
      BY <3>2, <3>3
  <2> QED
    BY <1>6, <2>1, <2>2, <2>3 DEF KnownParts
<1>8. Known \cup {Fact("url", u, v, now), Fact("hash", h, v, now)} \subseteq Known'
  <2>1. Fact("url", u, v, now) \in Known' /\ Fact("hash", h, v, now) \in Known'
    BY <1>1, <1>4, <1>5, <1>6 DEF KnownParts, Maps
  <2>2. ASSUME NEW f \in Known PROVE f \in Known'
    <3>1. CASE \E m \in Maps, k \in Keys : InMem(m, k) /\ f = MemFact(m, k)
      <4>1. PICK m \in Maps, k \in Keys : InMem(m, k) /\ f = MemFact(m, k)
        BY <3>1
      <4>2. InMem(m, k)' /\ f = MemFact(m, k)'
        BY <1>1, <4>1 DEF InMem, Present, MemFact, Fact
      <4> QED
        BY <1>6, <4>2 DEF KnownParts
    <3>2. CASE \E m \in Maps, k \in Keys : InRedis(m, k) /\ f = RedisFact(m, k)
      <4>1. PICK m \in Maps, k \in Keys : InRedis(m, k) /\ f = RedisFact(m, k)
        BY <3>2
      <4>2. InRedis(m, k)' /\ f = RedisFact(m, k)'
        BY <1>1, <4>1 DEF InRedis, Present, RedisFact, Fact
      <4> QED
        BY <1>6, <4>2 DEF KnownParts
    <3>3. CASE \E a \in Actors, m \in Maps : InHand(a, m) /\ f = HandFact(a, m)
      <4>1. PICK a \in Actors, m \in Maps : InHand(a, m) /\ f = HandFact(a, m)
        BY <3>3
      <4>2. InHand(a, m)' /\ f = HandFact(a, m)'
        BY <1>3, <1>5, <4>1 DEF InHand, HandFact, Fact
      <4> QED
        BY <1>6, <4>2 DEF KnownParts
    <3> QED
      BY <1>6, <3>1, <3>2, <3>3 DEF KnownParts
  <2> QED
    BY <2>1, <2>2
<1>9. Known' = Known \cup {Fact("url", u, v, now), Fact("hash", h, v, now)}
  BY <1>7, <1>8
<1> QED
  BY <1>1, <1>9 DEF Abstract!Record, Abstract!Facts, Abstract!Fact, Fact, Abstract!Miss, Miss

\* Every step of the cache is a step of VerdictStore, or leaves it alone.
LEMMA StepImplements ==
  ASSUME IInv, IInv', [Next]_vars
  PROVE  [Abstract!Next]_<<Known, now, answer>>
<1>1. CASE UNCHANGED vars
  <2>1. UNCHANGED <<mem, redis, pc, loc, now, answer>>
    BY <1>1 DEF vars
  <2>2. Known' = Known
    BY <2>1 DEF Known, Fact, Busy, MapOf
  <2> QED
    BY <2>1, <2>2
<1>2. CASE Tick
  <2>1. UNCHANGED <<mem, redis, pc, loc>> /\ now' = now + 1 /\ answer' = Miss
    BY <1>2 DEF Tick, NoAnswer
  <2>2. Known' = Known
    BY <2>1 DEF Known, Fact, Busy, MapOf
  <2>3. Abstract!Advance
    BY <2>1, <2>2 DEF Abstract!Advance, Abstract!Miss, Miss
  <2> QED
    BY <2>3 DEF Abstract!Next
<1>3. CASE \E p \in Procs, u, h \in Keys, v \in Verdicts : Store(p, u, h, v)
  <2>1. PICK p \in Procs, u \in Keys, h \in Keys, v \in Verdicts : Store(p, u, h, v)
    BY <1>3
  <2>2. Abstract!Record(u, h, v)
    BY <2>1, StoreRecords DEF IInv
  <2> QED
    BY <2>2 DEF Abstract!Next, Abstract!Verdicts, Verdicts
<1>4. CASE Next /\ ~Tick /\ ~ \E p \in Procs, u, h \in Keys, v \in Verdicts : Store(p, u, h, v)
  <2>1. Known' \subseteq Known
    BY <1>4, NothingNew DEF IInv
  <2>2. now' = now
    BY <1>4 DEF Next, Load, RedisGet, CheckRoom, Insert, Increment, RedisSet, DeleteEntry, Decrement,
                StartEvict, EvictVisit, EvictNext
  <2>3. CASE answer' = Miss
    <3>1. Abstract!Forget
      BY <2>1, <2>2, <2>3 DEF Abstract!Forget, Abstract!Miss, Miss
    <3> QED
      BY <3>1 DEF Abstract!Next
  <2>4. CASE Answered
    <3>1. PICK f \in Known, m \in Maps, k \in Keys :
            answer' = f /\ f.map = m /\ f.key = k /\ now - f.born < 2 * TTL[m]
      BY <2>4 DEF Answered
    <3>2. answer' \in Abstract!Answers(m, k)
      BY <3>1 DEF Abstract!Answers
    <3>3. Abstract!Lookup
      BY <2>1, <2>2, <3>2 DEF Abstract!Lookup, Abstract!Maps, Maps
    <3> QED
      BY <3>3 DEF Abstract!Next
  <2> QED
    BY <1>4, <2>3, <2>4, AnswersAreKnown
<1> QED
  BY <1>1, <1>2, <1>3, <1>4

\* The cache implements VerdictStore: a hit is a verdict that was stored for the
\* very key asked, under the right map, less than two lifetimes ago.
THEOREM StoreIsImplemented == Spec => ImplementsVerdictStore
<1>1. Init => Abstract!Init
  <2> SUFFICES ASSUME Init PROVE Abstract!Init
    OBVIOUS
  <2>1. Types /\ now = 0 /\ answer = Miss
    BY InitIInv DEF IInv, Init
  <2>2. /\ \A m \in Maps, k \in Keys : ~InMem(m, k) /\ ~InRedis(m, k)
        /\ \A a \in Actors, m \in Maps : ~InHand(a, m)
    BY Constants DEF Init, InMem, InRedis, InHand, Holding
  <2>3. Known = {}
    BY <2>1, <2>2, KnownIs DEF KnownParts
  <2> QED
    BY <2>1, <2>3 DEF Abstract!Init, Abstract!Miss, Miss
<1>2. IInv /\ IInv' /\ [Next]_vars => [Abstract!Next]_<<Known, now, answer>>
  BY StepImplements
<1> QED
  BY <1>1, <1>2, Invariance, PTL DEF Spec, ImplementsVerdictStore, Abstract!Spec

=============================================================================
