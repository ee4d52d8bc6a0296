---------------------------- MODULE ResultCache ----------------------------
(***************************************************************************)
(* The result cache (scan/cache.go): two in-memory maps, each with its own *)
(* entry counter, in front of Redis.  Scan goroutines and transports call  *)
(* get and Store concurrently and a janitor evicts expired entries; no     *)
(* lock makes a map and its counter change together, so every access to a  *)
(* map, a counter or Redis is a step of its own.                           *)
(***************************************************************************)
EXTENDS Integers, FiniteSets

CONSTANTS Keys,        \* keys of each map
          Procs,       \* concurrent callers
          Janitor,     \* the goroutine of StartCleanup
          MaxEntries,  \* ResultCache.maxEntries
          TTL,         \* urlTTL and hashTTL
          Rdb,         \* "none" (rdb is nil), "up", or "flaky" (commands may fail)
          MaxNow,      \* bound: last value of the clock
          MaxStores    \* bound: calls of Store

Maps == {"url", "hash"}
Verdicts == {"clean", "infected"}
Actors == Procs \cup {Janitor}

ASSUME ResultCacheAssumption ==
  /\ IsFiniteSet(Keys) /\ Keys # {} /\ IsFiniteSet(Procs) /\ Janitor \notin Procs
  /\ MaxEntries \in Nat /\ MaxNow \in Nat /\ MaxStores \in Nat
  /\ Rdb \in {"none", "up", "flaky"}
  /\ TTL \in [Maps -> Nat \ {0}]

VARIABLES mem,     \* byURL and byHash
          count,   \* urlCount and hashCount
          redis,   \* the same keys in Redis
          now,     \* the clock
          pc,      \* where each actor is
          loc,     \* its local variables
          stores,  \* calls of Store so far (for the bound)
          sweep,   \* the janitor's Range: the keys left and the time it read
          answer   \* what the last step returned to a caller of get, Miss if nothing

vars == <<mem, count, redis, now, pc, loc, stores, sweep, answer>>

NoEntry == [verdict |-> "none", born |-> 0, exp |-> 0]
Miss    == [map |-> "url", key |-> "none", verdict |-> "miss", born |-> 0]

\* Locals: the map being worked on, the key in each map, the verdict in hand,
\* when it was reached, and the function that called storeMem.
Getting(m, k) == [map |-> m, key |-> [n \in Maps |-> k], verdict |-> "none",
                  born |-> 0, by |-> "get"]
NoLocals == Getting("url", CHOOSE k \in Keys : TRUE)

Present(e) == e.verdict # "none"
Live(e)    == Present(e) /\ now < e.exp

Init ==
  /\ mem = [m \in Maps |-> [k \in Keys |-> NoEntry]]
  /\ redis = [m \in Maps |-> [k \in Keys |-> NoEntry]]
  /\ count = [m \in Maps |-> 0]
  /\ now = 0
  /\ pc = [a \in Actors |-> "idle"]
  /\ loc = [a \in Actors |-> NoLocals]
  /\ stores = 0
  /\ sweep = [left |-> {}, now |-> 0]
  /\ answer = Miss

-----------------------------------------------------------------------------
Goto(a, l) == pc' = [pc EXCEPT ![a] = l]
Finish(a)  == Goto(a, "idle") /\ loc' = [loc EXCEPT ![a] = NoLocals]
MapOf(a)   == loc[a].map
KeyOf(a)   == loc[a].key[loc[a].map]

NoAnswer == answer' = Miss
Answer(m, k, v, b) == answer' = [map |-> m, key |-> k, verdict |-> v, born |-> b]

\* get: Load of the map and the test of the expiry time.
Load(p, m, k) ==
  /\ pc[p] = "idle"
  /\ \/ /\ Live(mem[m][k])
        /\ Answer(m, k, mem[m][k].verdict, mem[m][k].born)
        /\ UNCHANGED <<pc, loc>>
     \/ /\ ~Live(mem[m][k])
        /\ Goto(p, IF Present(mem[m][k]) THEN "delete" ELSE "redisGet")
        /\ loc' = [loc EXCEPT ![p] = Getting(m, k)]
        /\ NoAnswer
  /\ UNCHANGED <<mem, count, redis, now, stores, sweep>>

\* Delete(key), of whatever the key maps to by now.
DeleteEntry(a) ==
  /\ pc[a] = "delete"
  /\ mem' = [mem EXCEPT ![MapOf(a)][KeyOf(a)] = NoEntry]
  /\ Goto(a, "decrement")
  /\ NoAnswer
  /\ UNCHANGED <<count, redis, now, loc, stores, sweep>>

Decrement(a) ==
  /\ pc[a] = "decrement"
  /\ count' = [count EXCEPT ![MapOf(a)] = @ - 1]
  /\ Goto(a, IF a = Janitor THEN "range" ELSE "redisGet")
  /\ NoAnswer
  /\ UNCHANGED <<mem, redis, now, loc, stores, sweep>>

\* A hit goes through storeMem before it is returned; a missing key, an
\* unreadable payload and an error are all a miss.
RedisGet(p) ==
  /\ pc[p] = "redisGet"
  /\ \/ /\ Live(redis[MapOf(p)][KeyOf(p)])
        /\ loc' = [loc EXCEPT ![p].verdict = redis[MapOf(p)][KeyOf(p)].verdict,
                              ![p].born = redis[MapOf(p)][KeyOf(p)].born]
        /\ Goto(p, "room") /\ NoAnswer
     \/ /\ ~Live(redis[MapOf(p)][KeyOf(p)]) \/ Rdb = "flaky"
        /\ Finish(p) /\ NoAnswer
  /\ UNCHANGED <<mem, count, redis, now, stores, sweep>>

\* Store, called with a clean or an infected verdict.
Store(p, u, h, v) ==
  /\ pc[p] = "idle" /\ stores < MaxStores
  /\ stores' = stores + 1
  /\ loc' = [loc EXCEPT ![p] = [map |-> "url", key |-> [m \in Maps |-> IF m = "url" THEN u ELSE h],
                                verdict |-> v, born |-> now, by |-> "store"]]
  /\ Goto(p, "room")
  /\ NoAnswer
  /\ UNCHANGED <<mem, count, redis, now, sweep>>

\* storeMem returns: get answers the hit, Store goes on to the hash map and
\* then to Redis.
Return(p) ==
  \/ /\ loc[p].by = "get"
     /\ Finish(p)
     /\ Answer(MapOf(p), KeyOf(p), loc[p].verdict, loc[p].born)
  \/ /\ loc[p].by = "store" /\ MapOf(p) = "url"
     /\ Goto(p, "room") /\ loc' = [loc EXCEPT ![p].map = "hash"]
     /\ NoAnswer
  \/ /\ loc[p].by = "store" /\ MapOf(p) = "hash"
     /\ IF Rdb = "none" THEN Finish(p)
        ELSE Goto(p, "redisSet") /\ loc' = [loc EXCEPT ![p].map = "url"]
     /\ NoAnswer

CheckRoom(p) ==
  /\ pc[p] = "room"
  /\ \/ count[MapOf(p)] >= MaxEntries /\ Return(p)
     \/ count[MapOf(p)] < MaxEntries /\ Goto(p, "insert") /\ NoAnswer /\ UNCHANGED loc
  /\ UNCHANGED <<mem, count, redis, now, stores, sweep>>

\* Variant: the entry is never given an expiry time.
InsertForever(p) ==
  /\ pc[p] = "insert" /\ ~Present(mem[MapOf(p)][KeyOf(p)])
  /\ mem' = [mem EXCEPT ![MapOf(p)][KeyOf(p)] =
               [verdict |-> loc[p].verdict, born |-> loc[p].born, exp |-> MaxNow + 1]]
  /\ Goto(p, "increment") /\ NoAnswer /\ UNCHANGED loc
  /\ UNCHANGED <<count, redis, now, stores, sweep>>

\* Variant: Store instead of LoadOrStore, counted even when it overwrites.
InsertAlways(p) ==
  /\ pc[p] = "insert"
  /\ mem' = [mem EXCEPT ![MapOf(p)][KeyOf(p)] =
               [verdict |-> loc[p].verdict, born |-> loc[p].born, exp |-> now + TTL[MapOf(p)]]]
  /\ Goto(p, "increment") /\ NoAnswer /\ UNCHANGED loc
  /\ UNCHANGED <<count, redis, now, stores, sweep>>

\* LoadOrStore: an entry that is there stays, live or expired.
Insert(p) ==
  /\ pc[p] = "insert"
  /\ \/ /\ ~Present(mem[MapOf(p)][KeyOf(p)])
        /\ mem' = [mem EXCEPT ![MapOf(p)][KeyOf(p)] =
                     [verdict |-> loc[p].verdict, born |-> loc[p].born,
                      exp |-> now + TTL[MapOf(p)]]]
        /\ Goto(p, "increment") /\ NoAnswer /\ UNCHANGED loc
     \/ /\ Present(mem[MapOf(p)][KeyOf(p)])
        /\ Return(p) /\ UNCHANGED mem
  /\ UNCHANGED <<count, redis, now, stores, sweep>>

Increment(p) ==
  /\ pc[p] = "increment"
  /\ count' = [count EXCEPT ![MapOf(p)] = @ + 1]
  /\ Return(p)
  /\ UNCHANGED <<mem, redis, now, stores, sweep>>

\* The two Sets of Store; an error is logged and ignored.
RedisSet(p) ==
  /\ pc[p] = "redisSet"
  /\ \/ redis' = [redis EXCEPT ![MapOf(p)][KeyOf(p)] =
                    [verdict |-> loc[p].verdict, born |-> loc[p].born,
                     exp |-> now + TTL[MapOf(p)]]]
     \/ Rdb = "flaky" /\ UNCHANGED redis
  /\ \/ MapOf(p) = "url" /\ loc' = [loc EXCEPT ![p].map = "hash"] /\ UNCHANGED pc
     \/ MapOf(p) = "hash" /\ Finish(p)
  /\ NoAnswer
  /\ UNCHANGED <<mem, count, now, stores, sweep>>

-----------------------------------------------------------------------------
(* The janitor: evict(byURL), then evict(byHash).                          *)
StartEvict ==
  /\ pc[Janitor] = "idle"
  /\ Goto(Janitor, "range")
  /\ loc' = [loc EXCEPT ![Janitor].map = "url"]
  /\ sweep' = [left |-> Keys, now |-> now]
  /\ NoAnswer
  /\ UNCHANGED <<mem, count, redis, now, stores>>

\* Range visits a key; an expired entry is deleted in a second step.
EvictVisit(k) ==
  /\ pc[Janitor] = "range" /\ k \in sweep.left
  /\ sweep' = [sweep EXCEPT !.left = @ \ {k}]
  /\ \/ /\ Present(mem[MapOf(Janitor)][k]) /\ mem[MapOf(Janitor)][k].exp < sweep.now
        /\ loc' = [loc EXCEPT ![Janitor].key = [m \in Maps |-> k]]
        /\ Goto(Janitor, "delete")
     \/ /\ ~Present(mem[MapOf(Janitor)][k]) \/ mem[MapOf(Janitor)][k].exp >= sweep.now
        /\ UNCHANGED <<loc, pc>>
  /\ NoAnswer
  /\ UNCHANGED <<mem, count, redis, now, stores>>

EvictNext ==
  /\ pc[Janitor] = "range" /\ sweep.left = {}
  /\ \/ /\ MapOf(Janitor) = "url"
        /\ loc' = [loc EXCEPT ![Janitor].map = "hash"]
        /\ sweep' = [left |-> Keys, now |-> now]
        /\ UNCHANGED pc
     \/ /\ MapOf(Janitor) = "hash"
        /\ Finish(Janitor)
        /\ sweep' = [left |-> {}, now |-> 0]
  /\ NoAnswer
  /\ UNCHANGED <<mem, count, redis, now, stores>>

-----------------------------------------------------------------------------
\* Holding a verdict that is still to be stored or answered.
Busy(a) == pc[a] \in {"room", "insert", "increment", "redisSet"}

\* Lifetimes are minutes and hours, a call takes milliseconds: the clock moves
\* while an actor looks a verdict up or deletes one, not between the moment a
\* verdict is in hand and the moment it is stored.
Tick ==
  /\ now < MaxNow
  /\ \A a \in Actors : ~Busy(a)
  /\ now' = now + 1
  /\ NoAnswer
  /\ UNCHANGED <<mem, count, redis, pc, loc, stores, sweep>>

Next ==
  \/ \E p \in Procs : \/ \E m \in Maps, k \in Keys : Load(p, m, k)
                      \/ \E u, h \in Keys, v \in Verdicts : Store(p, u, h, v)
                      \/ RedisGet(p) \/ CheckRoom(p) \/ Insert(p) \/ Increment(p)
                      \/ RedisSet(p)
  \/ \E a \in Actors : DeleteEntry(a) \/ Decrement(a)
  \/ StartEvict \/ \E k \in Keys : EvictVisit(k)
  \/ EvictNext
  \/ Tick

Spec == Init /\ [][Next]_vars

-----------------------------------------------------------------------------
(* Properties.                                                             *)
PresentKeys(m)  == {k \in Keys : Present(mem[m][k])}
Incrementing(m) == {a \in Actors : pc[a] = "increment" /\ MapOf(a) = m}
Decrementing(m) == {a \in Actors : pc[a] = "decrement" /\ MapOf(a) = m}

\* The counter never claims more entries than the map holds, once the updates
\* still to come are accounted for: whatever get, Store and evict do to the same
\* key at once, the cache never refuses an entry for room it has.
CounterNeverOvercounts ==
  \A m \in Maps : count[m] + Cardinality(Incrementing(m))
                    <= Cardinality(PresentKeys(m)) + Cardinality(Decrementing(m))

Fact(m, k, v, b) == [map |-> m, key |-> k, verdict |-> v, born |-> b]

\* The verdicts the cache holds: in memory, in Redis and in its callers' hands.
Known ==
  {f \in {Fact(m, k, mem[m][k].verdict, mem[m][k].born) : m \in Maps, k \in Keys}
         \cup {Fact(m, k, redis[m][k].verdict, redis[m][k].born) : m \in Maps, k \in Keys}
     : f.verdict # "none"}
  \cup UNION {{Fact(m, loc[a].key[m], loc[a].verdict, loc[a].born) :
                 m \in IF loc[a].by = "store" THEN Maps ELSE {MapOf(a)}}
                : a \in {b \in Actors : Busy(b)}}

\* The cache implements VerdictStore: an answer is a verdict stored for the key
\* that was asked, under the right map, less than two lifetimes ago.
Abstract == INSTANCE VerdictStore WITH known <- Known
ImplementsVerdictStore == Abstract!Spec

=============================================================================
