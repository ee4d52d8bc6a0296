------------------------------ MODULE CertCache ------------------------------
(***************************************************************************)
(* The certificates of the intercepting proxy (internal/cert): the CA that *)
(* a start of the proxy loads from two files or creates, and the cache of  *)
(* leaf certificates (memory, then Redis, then generation) that concurrent *)
(* TLS handshakes ask through GetCert.  The files and Redis outlive the    *)
(* process, memory does not.                                               *)
(*                                                                         *)
(* A CA is its generation number, a leaf certificate the generation that   *)
(* signed it and the day it expires.  A day is the unit of time.           *)
(***************************************************************************)
EXTENDS Integers, FiniteSets

CONSTANTS Domains,     \* server names
          NoDomain,    \* no server name
          Conns,       \* handshakes under way at once
          MaxMem,      \* memCacheMax
          Life,        \* days a generated leaf is valid
          MaxNow,      \* bound: days
          MaxServed,   \* bound: handshakes
          MaxFaults    \* bound: crashes, lost files and failing calls

ASSUME CertCacheAssumption ==
  /\ MaxMem \in Nat /\ Life \in Nat /\ MaxNow \in Nat /\ MaxServed \in Nat /\ MaxFaults \in Nat
  /\ Life > 1 /\ NoDomain \notin Domains /\ IsFiniteSet(Domains)
  /\ IsFiniteSet(Conns) /\ Conns # {}

VARIABLES
  certFile,  \* what the CA certificate's file holds: a generation, or Absent, or Torn
  keyFile,   \* the same for the key's
  start,     \* the process: down, in LoadOrCreate, up
  ca,        \* CA.Cert and CA.Key
  gens,      \* generations made so far
  mem,       \* Cache.memCache
  memCount,  \* Cache.memCount
  rdb,       \* the keys leafcert:<domain> of Redis
  conn,      \* each handshake: where GetCert is, its domain, the leaf in hand
  sweep,     \* evictExpired: where it is, its key, the keys it has not visited
  now,       \* the day
  born,      \* history: the day each generation was created
  alone,     \* history: since the last pair was written, one of its files was lost without
             \* the other, or a start could not read them
  under,     \* history: deletions that were counted and removed nothing
  calls,     \* handshakes so far
  faults

Absent == 0
Torn == -1

fileVars == <<certFile, keyFile, alone>>
procVars == <<start, ca, gens, born>>
memVars  == <<mem, memCount, under>>
boundVars == <<now, calls, faults>>
vars == <<fileVars, procVars, memVars, rdb, conn, sweep, boundVars>>

NoLeaf == [ca |-> 0, exp |-> 0]
Idle == [at |-> "idle", dom |-> NoDomain, leaf |-> NoLeaf]
NoSweep == [at |-> "idle", dom |-> NoDomain, left |-> {}]

Fault == faults < MaxFaults /\ faults' = faults + 1

\* "More than a day left" is the test of both caches.
Fresh(leaf) == now + 1 < leaf.exp

Init ==
  /\ certFile = Absent /\ keyFile = Absent /\ alone = FALSE
  /\ start = "down" /\ ca = [cert |-> 0, key |-> 0] /\ gens = 0 /\ born = [g \in {} |-> 0]
  /\ mem = [d \in Domains |-> NoLeaf] /\ memCount = 0 /\ under = 0
  /\ rdb = [d \in Domains |-> NoLeaf]
  /\ conn = [c \in Conns |-> Idle] /\ sweep = NoSweep
  /\ now = 0 /\ calls = 0 /\ faults = 0

-----------------------------------------------------------------------------
(* The start of the process.                                               *)

\* Variant: a certificate alone is enough to go on.
LoadOrCreateHalf ==
  /\ start = "down"
  /\ \/ /\ certFile > 0 /\ keyFile >= 0
        /\ start' = "up" /\ ca' = [cert |-> certFile, key |-> keyFile]
     \/ certFile = Absent /\ start' = "cert" /\ UNCHANGED ca
  /\ UNCHANGED <<fileVars, gens, born, memVars, rdb, conn, sweep, boundVars>>

\* Both files can be read: parsePEM, which fails on a torn one (the process
\* exits: no step) and does not compare the key with the certificate.
\* Otherwise, whatever the error of ReadFile was, a new pair is generated.
LoadOrCreate ==
  /\ start = "down"
  /\ \/ /\ certFile > 0 /\ keyFile > 0
        /\ start' = "up" /\ ca' = [cert |-> certFile, key |-> keyFile]
        /\ UNCHANGED <<alone, faults>>
     \/ /\ certFile = Absent \/ keyFile = Absent
        /\ start' = "cert" /\ UNCHANGED <<ca, alone, faults>>
     \/ /\ certFile # Absent /\ keyFile # Absent /\ Fault
        /\ start' = "cert" /\ alone' = TRUE /\ UNCHANGED ca
  /\ UNCHANGED <<certFile, keyFile, gens, born, memVars, rdb, conn, sweep, now, calls>>

\* generate: a new CA, and its certificate's file.
WriteCert ==
  /\ start = "cert"
  /\ gens' = gens + 1 /\ born' = [g \in 1..gens + 1 |-> IF g > gens THEN now ELSE born[g]]
  /\ certFile' = gens' /\ start' = "key"
  /\ UNCHANGED <<keyFile, alone, ca, memVars, rdb, conn, sweep, boundVars>>

\* Both files now hold one pair.
WriteKey ==
  /\ start = "key"
  /\ keyFile' = gens /\ start' = "up" /\ ca' = [cert |-> gens, key |-> gens]
  /\ alone' = FALSE
  /\ UNCHANGED <<certFile, gens, born, memVars, rdb, conn, sweep, boundVars>>

\* The process ends, or a write of LoadOrCreate fails and main exits: the file
\* being written is as before, or cut short (os.WriteFile truncates first).
Crash ==
  /\ start # "down" /\ Fault
  /\ start' = "down" /\ ca' = [cert |-> 0, key |-> 0]
  /\ certFile' \in IF start = "cert" THEN {certFile, Torn} ELSE {certFile}
  /\ keyFile' \in IF start = "key" THEN {keyFile, Torn} ELSE {keyFile}
  /\ mem' = [d \in Domains |-> NoLeaf] /\ memCount' = 0 /\ under' = 0
  /\ conn' = [c \in Conns |-> Idle] /\ sweep' = NoSweep
  /\ UNCHANGED <<alone, gens, born, rdb, now, calls>>

\* Somebody removes one file, or both, while the proxy is down.
LoseFiles ==
  /\ start = "down" /\ Fault
  /\ \/ certFile' = Absent /\ keyFile' = keyFile
     \/ certFile' = certFile /\ keyFile' = Absent
     \/ certFile' = Absent /\ keyFile' = Absent
  /\ alone' = (alone \/ certFile' # Absent \/ keyFile' # Absent)
  /\ UNCHANGED <<procVars, memVars, rdb, conn, sweep, now, calls>>

-----------------------------------------------------------------------------
(* GetCert, one step for each access to the map, the counter and Redis.    *)
Up == start = "up"
ConnFrame == UNCHANGED <<fileVars, procVars, sweep, now>>

Goto(c, at, leaf) == conn' = [conn EXCEPT ![c].at = at, ![c].leaf = leaf]

Hello(c) ==
  /\ Up /\ conn[c].at \in {"idle", "served", "failed"} /\ calls < MaxServed
  /\ \E d \in Domains : conn' = [conn EXCEPT ![c] = [at |-> "load", dom |-> d, leaf |-> NoLeaf]]
  /\ calls' = calls + 1
  /\ UNCHANGED <<memVars, rdb, faults>> /\ ConnFrame

\* Variant: an entry is used until it expires.
LoadMemNoMargin(c) ==
  /\ Up /\ conn[c].at = "load"
  /\ LET e == mem[conn[c].dom]
     IN  Goto(c, IF e = NoLeaf THEN "get" ELSE IF now < e.exp THEN "served" ELSE "delete",
              IF now < e.exp THEN e ELSE NoLeaf)
  /\ UNCHANGED <<memVars, rdb, calls, faults>> /\ ConnFrame

LoadMem(c) ==
  /\ Up /\ conn[c].at = "load"
  /\ LET e == mem[conn[c].dom]
     IN  Goto(c, IF e = NoLeaf THEN "get" ELSE IF Fresh(e) THEN "served" ELSE "delete",
              IF Fresh(e) THEN e ELSE NoLeaf)
  /\ UNCHANGED <<memVars, rdb, calls, faults>> /\ ConnFrame

DeleteMem(c) ==
  /\ Up /\ conn[c].at = "delete"
  /\ mem' = [mem EXCEPT ![conn[c].dom] = NoLeaf]
  /\ under' = under + (IF mem[conn[c].dom] = NoLeaf THEN 1 ELSE 0)
  /\ Goto(c, "uncount", NoLeaf)
  /\ UNCHANGED <<memCount, rdb, calls, faults>> /\ ConnFrame

Uncount(c) ==
  /\ Up /\ conn[c].at = "uncount"
  /\ memCount' = memCount - 1
  /\ Goto(c, "get", NoLeaf)
  /\ UNCHANGED <<mem, under, rdb, calls, faults>> /\ ConnFrame

\* Variant: a leaf found in Redis is given a new term in memory.
GetRedisRenews(c) ==
  /\ Up /\ conn[c].at = "get"
  /\ LET e == rdb[conn[c].dom]
     IN  \/ e = NoLeaf /\ Goto(c, "generate", NoLeaf)
         \/ e # NoLeaf /\ Fresh(e) /\ Goto(c, "room", [e EXCEPT !.exp = now + Life])
         \/ e # NoLeaf /\ ~Fresh(e) /\ Goto(c, "del", NoLeaf)
  /\ UNCHANGED <<memVars, rdb, calls, faults>> /\ ConnFrame

\* GET: an error counts as a miss; an entry that is not fresh is deleted.  Redis
\* holds only what saveToRedis wrote, so decodeCachedCert and toTLS do not fail.
GetRedis(c) ==
  /\ Up /\ conn[c].at = "get"
  /\ LET e == rdb[conn[c].dom]
     IN  \/ e = NoLeaf /\ Goto(c, "generate", NoLeaf) /\ UNCHANGED faults
         \/ e # NoLeaf /\ Fresh(e) /\ Goto(c, "room", e) /\ UNCHANGED faults
         \/ e # NoLeaf /\ ~Fresh(e) /\ Goto(c, "del", NoLeaf) /\ UNCHANGED faults
         \/ e # NoLeaf /\ Fault /\ Goto(c, "generate", NoLeaf)
  /\ UNCHANGED <<memVars, rdb, calls>> /\ ConnFrame

\* The error of Del is not looked at.
DelRedis(c) ==
  /\ Up /\ conn[c].at = "del"
  /\ \/ rdb' = [rdb EXCEPT ![conn[c].dom] = NoLeaf] /\ UNCHANGED faults
     \/ UNCHANGED rdb /\ Fault
  /\ Goto(c, "generate", NoLeaf)
  /\ UNCHANGED <<memVars, calls>> /\ ConnFrame

\* x509.CreateCertificate refuses a key that is not the parent certificate's.
Generate(c) ==
  /\ Up /\ conn[c].at = "generate"
  /\ \/ ca.cert = ca.key /\ Goto(c, "save", [ca |-> ca.cert, exp |-> now + Life])
     \/ ca.cert # ca.key /\ Goto(c, "failed", NoLeaf)
  /\ UNCHANGED <<memVars, rdb, calls, faults>> /\ ConnFrame

SaveRedis(c) ==
  /\ Up /\ conn[c].at = "save"
  /\ \/ rdb' = [rdb EXCEPT ![conn[c].dom] = conn[c].leaf] /\ UNCHANGED faults
     \/ UNCHANGED rdb /\ Fault
  /\ Goto(c, "room", conn[c].leaf)
  /\ UNCHANGED <<memVars, calls>> /\ ConnFrame

\* Variant: the limit is not tested.
CheckRoomNot(c) ==
  /\ Up /\ conn[c].at = "room"
  /\ Goto(c, "store", conn[c].leaf)
  /\ UNCHANGED <<memVars, rdb, calls, faults>> /\ ConnFrame

CheckRoom(c) ==
  /\ Up /\ conn[c].at = "room"
  /\ Goto(c, IF memCount >= MaxMem THEN "served" ELSE "store", conn[c].leaf)
  /\ UNCHANGED <<memVars, rdb, calls, faults>> /\ ConnFrame

StoreMem(c) ==
  /\ Up /\ conn[c].at = "store"
  /\ mem' = [mem EXCEPT ![conn[c].dom] = conn[c].leaf]
  /\ Goto(c, "count", conn[c].leaf)
  /\ UNCHANGED <<memCount, under, rdb, calls, faults>> /\ ConnFrame

CountMem(c) ==
  /\ Up /\ conn[c].at = "count"
  /\ memCount' = memCount + 1
  /\ Goto(c, "served", conn[c].leaf)
  /\ UNCHANGED <<mem, under, rdb, calls, faults>> /\ ConnFrame

-----------------------------------------------------------------------------
(* evictExpired and the passing of time.                                   *)
SweepFrame == UNCHANGED <<fileVars, procVars, rdb, conn, boundVars>>

StartSweep ==
  /\ Up /\ sweep.at = "idle"
  /\ \E d \in Domains : mem[d] # NoLeaf
  /\ sweep' = [sweep EXCEPT !.at = "visit", !.left = {d \in Domains : mem[d] # NoLeaf}]
  /\ UNCHANGED memVars /\ SweepFrame

Visit ==
  /\ Up /\ sweep.at = "visit"
  /\ \/ sweep.left = {} /\ sweep' = NoSweep
     \/ \E d \in sweep.left :
          sweep' = [at |-> IF mem[d] # NoLeaf /\ mem[d].exp < now THEN "delete" ELSE "visit",
                    dom |-> d, left |-> sweep.left \ {d}]
  /\ UNCHANGED memVars /\ SweepFrame

SweepDelete ==
  /\ Up /\ sweep.at = "delete"
  /\ mem' = [mem EXCEPT ![sweep.dom] = NoLeaf]
  /\ under' = under + (IF mem[sweep.dom] = NoLeaf THEN 1 ELSE 0)
  /\ sweep' = [sweep EXCEPT !.at = "uncount"]
  /\ UNCHANGED memCount /\ SweepFrame

SweepUncount ==
  /\ Up /\ sweep.at = "uncount"
  /\ memCount' = memCount - 1
  /\ sweep' = [sweep EXCEPT !.at = "visit"]
  /\ UNCHANGED <<mem, under>> /\ SweepFrame

\* Redis drops a key a day before its leaf expires, by its own clock, which may
\* be behind the proxy's.  A handshake or a sweep lasts seconds: no day passes
\* during one.
Tick ==
  /\ now < MaxNow /\ now' = now + 1
  /\ sweep.at = "idle" /\ \A c \in Conns : conn[c].at \in {"idle", "served", "failed"}
  /\ \E gone \in SUBSET {d \in Domains : now + 2 >= rdb[d].exp} :
       rdb' = [d \in Domains |-> IF d \in gone THEN NoLeaf ELSE rdb[d]]
  /\ conn' = [c \in Conns |-> Idle]
  /\ UNCHANGED <<fileVars, procVars, memVars, sweep, calls, faults>>

StartStep == LoadOrCreate \/ WriteCert \/ WriteKey \/ Crash \/ LoseFiles

GetCert(c) == \/ LoadMem(c) \/ DeleteMem(c) \/ Uncount(c) \/ GetRedis(c) \/ DelRedis(c)
              \/ Generate(c) \/ SaveRedis(c) \/ CheckRoom(c) \/ StoreMem(c) \/ CountMem(c)

EvictExpired == StartSweep \/ Visit \/ SweepDelete \/ SweepUncount

Next == \/ StartStep \/ EvictExpired \/ Tick
        \/ \E c \in Conns : Hello(c) \/ GetCert(c)

Spec == Init /\ [][Next]_vars

-----------------------------------------------------------------------------
(* Properties.                                                             *)
Present == {d \in Domains : mem[d] # NoLeaf}
\* Whatever a handshake is given (from memory, from Redis, or new) is valid for
\* more than a day, however the caches are filled and emptied meanwhile.
ServedHasADay == \A c \in Conns : conn[c].at = "served" => Fresh(conn[c].leaf)

\* Redis outlives the CA: after a new one, leaves of an earlier one are still
\* served, but none longer than a leaf made before the new CA can last.
OldLeavesDieOut ==
  \A c \in Conns : conn[c].at = "served" /\ conn[c].leaf.ca # ca.cert
    => conn[c].leaf.exp <= born[ca.cert] + Life

\* A proxy that is up can sign leaves: whenever crashes interrupt LoadOrCreate,
\* the pair it finds later is one pair, as long as nobody removed one file only and
\* no start failed to read a pair that was there, and began to replace it.
UsableCA == Up /\ ~alone => ca.cert = ca.key

\* Memory exceeds its limit by no more than the handshakes that passed the test
\* together, and the entries that were deleted once and uncounted twice.
MemBounded == Cardinality(Present) <= MaxMem + Cardinality(Conns) - 1 + under

=============================================================================
