-------------------------- MODULE CertCacheProofs --------------------------
(***************************************************************************)
(* What holds of the CA and of the leaf certificates for any number of     *)
(* domains, handshakes, crashes and days: a usable pair, fresh leaves, an  *)
(* end to the leaves of an earlier CA, and a bound on memory.              *)
(***************************************************************************)
EXTENDS CertCache, FiniteSetTheorems, TLAPS

-----------------------------------------------------------------------------
(* The inductive invariant.                                                *)
Leaf == [ca : Nat, exp : Nat]
Stages == {"idle", "load", "delete", "uncount", "get", "del", "generate", "save", "room",
           "store", "count", "served", "failed"}

Handshake == [at : Stages, dom : Domains \cup {NoDomain}, leaf : Leaf]
Sweep == [at : {"idle", "visit", "delete", "uncount"}, dom : Domains \cup {NoDomain},
          left : SUBSET Domains]

Types ==
  /\ certFile \in Int /\ keyFile \in Int /\ alone \in BOOLEAN
  /\ start \in {"down", "cert", "key", "up"}
  /\ ca \in [cert : Nat, key : Nat]
  /\ gens \in Nat /\ now \in Nat /\ born \in [1..gens -> Nat]
  /\ mem \in [Domains -> Leaf] /\ rdb \in [Domains -> Leaf]
  /\ memCount \in Int /\ under \in Nat
  /\ conn \in [Conns -> Handshake]
  /\ sweep \in Sweep

\* Only a process that is up has handshakes and a sweep under way, each with its
\* domain.
StageInv ==
  /\ \A c \in Conns : conn[c].at # "idle" => start = "up" /\ conn[c].dom \in Domains
  /\ sweep.at \in {"delete", "uncount"} => sweep.dom \in Domains
  /\ sweep.at # "idle" => start = "up"

\* What the two files hold at each stage of LoadOrCreate.
FilesInv ==
  /\ certFile <= gens
  /\ start = "key" => certFile = gens
  /\ certFile > 0 /\ keyFile > 0 => certFile = gens
  /\ start = "up" => ca.cert = gens /\ certFile > 0 /\ keyFile > 0
  /\ start = "key" => gens > 0
  /\ ~alone => /\ certFile = Absent => keyFile = Absent
               /\ start \in {"cert", "key"} => keyFile = Absent
               /\ certFile > 0 /\ keyFile > 0 => certFile = keyFile
               /\ start = "up" => ca.cert = ca.key

\* A leaf ends within its life from today, and from the birth of every CA
\* younger than the one that signed it.
Aged(l) ==
  /\ l.ca <= gens /\ l.exp <= now + Life
  /\ \A g \in 1..gens : l.ca < g => l.exp <= born[g] + Life

LeafInv == /\ \A d \in Domains : Aged(mem[d]) /\ Aged(rdb[d])
           /\ \A c \in Conns : Aged(conn[c].leaf)

\* A leaf that is going to be served is fresh.
Serving == {"save", "room", "store", "count", "served"}
FreshInv == \A c \in Conns : conn[c].at \in Serving => Fresh(conn[c].leaf)

At(S) == {c \in Conns : conn[c].at \in S}
Storing == At({"store", "count"})
Counting == At({"count"})
Uncounting == At({"uncount"})
Swept == IF sweep.at = "uncount" THEN 1 ELSE 0

\* The counter is the number of entries but for the updates still to come and
\* the deletions that removed nothing, and whoever passed the test of the limit
\* has room within the overshoot.
CountInv ==
  /\ Cardinality(Present) + Cardinality(Uncounting) + Swept
       <= memCount + Cardinality(Counting) + under
  /\ memCount + Cardinality(Storing) <= MaxMem + Cardinality(Conns) - 1

IInv == Types /\ StageInv /\ FilesInv /\ LeafInv /\ FreshInv /\ CountInv

-----------------------------------------------------------------------------
(* Facts used throughout.                                                  *)

\* No leaf is one that expired before time began.
LEMMA NoLeafAged == ASSUME Types PROVE NoLeaf \in Leaf /\ Aged(NoLeaf)
<1>1. NoLeaf \in Leaf /\ NoLeaf.ca = 0 /\ NoLeaf.exp = 0
  BY DEF NoLeaf, Leaf
<1>2. \A g \in 1..gens : born[g] \in Nat
  BY DEF Types
<1> QED
  BY <1>1, <1>2, CertCacheAssumption DEF Aged, Types

\* What Goto leaves of a handshake.
LEMMA GotoFields ==
  ASSUME Types, NEW c \in Conns, NEW a \in Stages, NEW l \in Leaf, Goto(c, a, l)
  PROVE  /\ conn' \in [Conns -> Handshake]
         /\ conn'[c].at = a /\ conn'[c].leaf = l /\ conn'[c].dom = conn[c].dom
         /\ \A e \in Conns : e # c => conn'[e] = conn[e]
<1>1. conn \in [Conns -> Handshake]
  BY DEF Types
<1>2. PICK r : r = [conn[c] EXCEPT !.at = a, !.leaf = l]
  OBVIOUS
<1>3. conn' = [conn EXCEPT ![c] = r]
  BY <1>1, <1>2 DEF Goto, Handshake
<1>4. r \in Handshake /\ r.at = a /\ r.leaf = l /\ r.dom = conn[c].dom
  BY <1>1, <1>2 DEF Handshake
<1>5. conn' \in [Conns -> Handshake] /\ conn'[c] = r /\ \A e \in Conns : e # c => conn'[e] = conn[e]
  BY <1>1, <1>3, <1>4
<1>6. conn'[c].at = a /\ conn'[c].leaf = l /\ conn'[c].dom = conn[c].dom
  BY <1>4, <1>5
<1> QED
  BY <1>5, <1>6

\* The initial states satisfy the invariant.
LEMMA InitIInv == Init => IInv
<1> SUFFICES ASSUME Init PROVE IInv
  OBVIOUS
<1>1. Types
  <2>1. conn \in [Conns -> Handshake]
    BY DEF Init, Idle, NoLeaf, Leaf, Stages, Handshake
  <2>2. mem \in [Domains -> Leaf] /\ rdb \in [Domains -> Leaf]
    BY DEF Init, NoLeaf, Leaf
  <2>3. born \in [1..gens -> Nat]
    <3>1. 1..0 = {}
      OBVIOUS
    <3>2. born \in [{} -> Nat]
      BY DEF Init
    <3>3. 1..gens = {}
      BY <3>1 DEF Init
    <3> QED
      BY <3>2, <3>3
  <2>4. sweep \in Sweep
    BY DEF Init, NoSweep, Sweep
  <2>5. /\ certFile \in Int /\ keyFile \in Int /\ ca \in [cert : Nat, key : Nat]
        /\ gens \in Nat /\ now \in Nat /\ memCount \in Int /\ under \in Nat
    <3>1. certFile = 0 /\ keyFile = 0 /\ gens = 0 /\ now = 0 /\ memCount = 0 /\ under = 0
      BY Zenon DEF Init, Absent
    <3>2. ca = [cert |-> 0, key |-> 0]
      BY Zenon DEF Init
    <3> QED
      BY <3>1, <3>2
  <2>6. alone \in BOOLEAN /\ start \in {"down", "cert", "key", "up"}
    BY Zenon DEF Init
  <2> QED
    BY <2>1, <2>2, <2>3, <2>4, <2>5, <2>6 DEF Types
<1>2. StageInv /\ FreshInv
  BY DEF Init, StageInv, FreshInv, Serving, Idle, NoSweep
<1>3. FilesInv
  BY DEF Init, FilesInv, Absent
<1>4. LeafInv
  <2>1. \A c \in Conns : conn[c].leaf = NoLeaf
    BY DEF Init, Idle
  <2> QED
    BY <1>1, <2>1, NoLeafAged DEF Init, LeafInv
<1>5. CountInv
  <2>1. Present = {} /\ Uncounting = {} /\ Counting = {} /\ Storing = {} /\ Swept = 0
    BY DEF Init, Present, Uncounting, Counting, Storing, At, Swept, Idle, NoSweep
  <2>2. Cardinality(Conns) \in Nat /\ Cardinality(Conns) # 0
    BY CertCacheAssumption, FS_EmptySet, FS_CardinalityType
  <2> QED
    BY <2>1, <2>2, FS_EmptySet, CertCacheAssumption DEF Init, CountInv
<1> QED
  BY <1>1, <1>2, <1>3, <1>4, <1>5 DEF IInv

-----------------------------------------------------------------------------
(* The start of the process.                                               *)

\* LoadOrCreate and its two writes keep the invariant: a new CA is younger than
\* every leaf there is.
LEMMA StartUpStep == ASSUME IInv, LoadOrCreate \/ WriteCert \/ WriteKey PROVE IInv'
<1> USE DEF IInv
<1>1. /\ UNCHANGED <<mem, memCount, under, rdb, conn, sweep, now>> /\ start # "up"
  BY DEF LoadOrCreate, WriteCert, WriteKey, memVars, boundVars
<1>2. /\ \A c \in Conns : conn[c].at = "idle" /\ sweep.at = "idle"
  BY <1>1 DEF StageInv
<1>3. /\ gens' \in Nat /\ gens <= gens' /\ born' \in [1..gens' -> Nat]
      /\ \A g \in 1..gens : born'[g] = born[g]
      /\ \A g \in 1..gens' : g > gens => born'[g] = now
  <2>1. CASE UNCHANGED <<gens, born>>
    BY <2>1 DEF Types
  <2>2. CASE gens' = gens + 1 /\ born' = [g \in 1..gens + 1 |-> IF g > gens THEN now ELSE born[g]]
    BY <2>2 DEF Types
  <2> QED
    BY <2>1, <2>2 DEF LoadOrCreate, WriteCert, WriteKey
<1>4. /\ certFile' = certFile \/ certFile' = gens'
      /\ certFile' \in Int /\ keyFile' \in Int /\ alone' \in BOOLEAN /\ start' \in {"cert", "key", "up"}
      /\ ca' \in [cert : Nat, key : Nat]
  <2>1. CASE LoadOrCreate
    <3>1. ca' \in [cert : Nat, key : Nat]
      BY <2>1 DEF LoadOrCreate, Types
    <3>2. alone' \in BOOLEAN
      BY <2>1, Zenon DEF LoadOrCreate, Types
    <3> QED
      BY <2>1, <3>1, <3>2 DEF LoadOrCreate, Types
  <2>2. CASE WriteCert
    BY <2>2 DEF WriteCert, Types
  <2>3. CASE WriteKey
    <3>1. certFile' = certFile /\ certFile' \in Int /\ keyFile' \in Int /\ start' = "up"
      BY <2>3 DEF WriteKey, Types
    <3>3. alone' \in BOOLEAN
      BY <2>3, Zenon DEF WriteKey
    <3>2. ca' \in [cert : Nat, key : Nat]
      BY <2>3 DEF WriteKey, Types
    <3> QED
      BY <3>1, <3>2, <3>3
  <2> QED
    BY <2>1, <2>2, <2>3
<1>5. Types'
  BY <1>1, <1>3, <1>4 DEF Types
<1>6. StageInv' /\ FreshInv' /\ CountInv'
  BY <1>1, <1>2 DEF StageInv, FreshInv, Serving, CountInv, Present, Uncounting, Counting, Storing, At, Swept
<1>7. FilesInv'
  <2>1. CASE LoadOrCreate
    BY <2>1 DEF LoadOrCreate, FilesInv, Types, Absent
  <2>2. CASE WriteCert
    BY <2>2 DEF WriteCert, FilesInv, Types, Absent
  <2>3. CASE WriteKey
    BY <2>3 DEF WriteKey, FilesInv, Types, Absent
  <2> QED
    BY <2>1, <2>2, <2>3
<1>8. LeafInv'
  <2>1. ASSUME NEW l \in Leaf, Aged(l) PROVE Aged(l)'
    <3>1. l.ca \in Nat /\ l.exp \in Nat
      BY DEF Leaf
    <3>2. ASSUME NEW g \in 1..gens', l.ca < g PROVE l.exp <= born'[g] + Life
      <4>1. CASE g <= gens
        BY <1>3, <2>1, <3>2, <4>1 DEF Aged, Types
      <4>2. CASE g > gens
        BY <1>3, <2>1, <4>2 DEF Aged
      <4> QED
        BY <1>3, <4>1, <4>2 DEF Types
    <3> QED
      BY <1>1, <1>3, <1>4, <2>1, <3>1, <3>2 DEF Aged, Types
  <2> QED
    BY <1>1, <2>1 DEF LeafInv, Types, Handshake
<1> QED
  BY <1>5, <1>6, <1>7, <1>8

\* A crash leaves nothing of memory and of the handshakes, and the file being
\* written as it was or torn.
LEMMA CrashStep == ASSUME IInv, Crash PROVE IInv'
<1> USE DEF IInv
<1>1. /\ UNCHANGED <<alone, gens, born, rdb, now>> /\ start' = "down"
      /\ mem' = [d \in Domains |-> NoLeaf] /\ memCount' = 0 /\ under' = 0
      /\ conn' = [c \in Conns |-> Idle] /\ sweep' = NoSweep
  BY DEF Crash
<1>2. Idle \in Handshake /\ NoSweep \in Sweep /\ NoLeaf \in Leaf
  BY DEF Idle, NoSweep, NoLeaf, Handshake, Sweep, Leaf, Stages
<1>3. Idle.at = "idle" /\ Idle.leaf = NoLeaf /\ NoSweep.at = "idle"
  BY DEF Idle, NoSweep
<1>4. Types'
  <2>1. ca' \in [cert : Nat, key : Nat] /\ certFile' \in Int /\ keyFile' \in Int
    BY DEF Crash, Types, Torn
  <2> QED
    BY <1>1, <1>2, <2>1 DEF Types
<1>5. StageInv' /\ FreshInv'
  BY <1>1, <1>3 DEF StageInv, FreshInv, Serving
<1>6. FilesInv'
  BY DEF Crash, FilesInv, Types, Absent, Torn
<1>7. LeafInv'
  <2>1. Aged(NoLeaf)' /\ \A d \in Domains : Aged(rdb[d])'
    BY <1>1, NoLeafAged DEF LeafInv, Aged
  <2> QED
    BY <1>1, <1>3, <2>1 DEF LeafInv
<1>8. CountInv'
  <2>1. Present' = {} /\ Uncounting' = {} /\ Counting' = {} /\ Storing' = {} /\ Swept' = 0
    BY <1>1, <1>3 DEF Present, Uncounting, Counting, Storing, At, Swept
  <2>2. Cardinality(Conns) \in Nat /\ Cardinality(Conns) # 0
    BY CertCacheAssumption, FS_EmptySet, FS_CardinalityType
  <2> QED
    BY <1>1, <2>1, <2>2, FS_EmptySet, CertCacheAssumption DEF CountInv
<1> QED
  BY <1>4, <1>5, <1>6, <1>7, <1>8

\* So does the loss of files.
LEMMA LoseFilesStep == ASSUME IInv, LoseFiles PROVE IInv'
<1> USE DEF IInv
<1>1. UNCHANGED <<start, ca, gens, born, mem, memCount, under, rdb, conn, sweep, now>>
  BY DEF LoseFiles, procVars, memVars
<1>2. Types'
  <2>1. certFile' \in Int /\ keyFile' \in Int /\ alone' \in BOOLEAN
    BY DEF LoseFiles, Types, Absent
  <2> QED
    BY <1>1, <2>1 DEF Types
<1>3. FilesInv'
  <2>1. ~alone' => certFile' = Absent /\ keyFile' = Absent
    BY DEF LoseFiles
  <2>2. /\ start = "down"
        /\ \/ certFile' = Absent
           \/ certFile' = certFile /\ keyFile' = Absent
    BY DEF LoseFiles
  <2> QED
    BY <1>1, <2>1, <2>2 DEF FilesInv, Types, Absent
<1>4. StageInv' /\ FreshInv' /\ LeafInv' /\ CountInv'
  BY <1>1 DEF StageInv, FreshInv, Fresh, LeafInv, Aged, CountInv, Present, Uncounting, Counting,
              Storing, At, Swept
<1> QED
  BY <1>2, <1>3, <1>4

-----------------------------------------------------------------------------
(* Counting.                                                               *)

\* A handshake that moves enters or leaves the stages of S alone.
LEMMA AtStep ==
  ASSUME Types, NEW c \in Conns, NEW a \in Stages, NEW l \in Leaf, Goto(c, a, l), NEW S
  PROVE  Cardinality(At(S))' = Cardinality(At(S))
           + (IF a \in S /\ conn[c].at \notin S THEN 1
              ELSE IF a \notin S /\ conn[c].at \in S THEN -1 ELSE 0)
<1>1. /\ conn'[c].at = a /\ \A e \in Conns : e # c => conn'[e] = conn[e]
  BY GotoFields
<1>2. IsFiniteSet(At(S)) /\ Cardinality(At(S)) \in Nat
  BY CertCacheAssumption, FS_Subset, FS_CardinalityType DEF At
<1>3. CASE a \in S /\ conn[c].at \notin S
  <2>1. At(S)' = At(S) \cup {c} /\ c \notin At(S)
    BY <1>1, <1>3 DEF At
  <2> QED
    BY <1>2, <1>3, <2>1, FS_AddElement
<1>4. CASE a \notin S /\ conn[c].at \in S
  <2>1. At(S)' = At(S) \ {c} /\ c \in At(S)
    BY <1>1, <1>4 DEF At
  <2> QED
    BY <1>2, <1>4, <2>1, FS_RemoveElement
<1>5. CASE (a \in S) = (conn[c].at \in S)
  <2>1. At(S)' = At(S)
    BY <1>1, <1>5 DEF At
  <2> QED
    BY <1>2, <1>5, <2>1
<1> QED
  BY <1>3, <1>4, <1>5

\* One entry of memory is written.
LEMMA PresentStep ==
  ASSUME Types, NEW d \in Domains, NEW x, mem' = [mem EXCEPT ![d] = x]
  PROVE  Cardinality(Present)' = Cardinality(Present)
           + (IF x # NoLeaf /\ mem[d] = NoLeaf THEN 1
              ELSE IF x = NoLeaf /\ mem[d] # NoLeaf THEN -1 ELSE 0)
<1>1. mem'[d] = x /\ \A e \in Domains : e # d => mem'[e] = mem[e]
  BY DEF Types
<1>2. IsFiniteSet(Present) /\ Cardinality(Present) \in Nat
  BY CertCacheAssumption, FS_Subset, FS_CardinalityType DEF Present
<1>3. CASE x # NoLeaf /\ mem[d] = NoLeaf
  <2>1. Present' = Present \cup {d} /\ d \notin Present
    BY <1>1, <1>3 DEF Present
  <2> QED
    BY <1>2, <1>3, <2>1, FS_AddElement
<1>4. CASE x = NoLeaf /\ mem[d] # NoLeaf
  <2>1. Present' = Present \ {d} /\ d \in Present
    BY <1>1, <1>4 DEF Present
  <2> QED
    BY <1>2, <1>4, <2>1, FS_RemoveElement
<1>5. CASE (x = NoLeaf) = (mem[d] = NoLeaf)
  <2>1. Present' = Present
    BY <1>1, <1>5 DEF Present
  <2> QED
    BY <1>2, <1>5, <2>1
<1> QED
  BY <1>3, <1>4, <1>5

\* What the counted sets are: finite, and the handshakes about to store are some
\* of all.
LEMMA Counts ==
  /\ Cardinality(Present) \in Nat /\ Cardinality(Uncounting) \in Nat
  /\ Cardinality(Counting) \in Nat /\ Cardinality(Storing) \in Nat
  /\ Cardinality(Conns) \in Nat /\ Cardinality(Storing) <= Cardinality(Conns)
  /\ \A c \in Conns \ Storing : Cardinality(Storing) + 1 <= Cardinality(Conns)
<1>1. /\ Cardinality(Present) \in Nat /\ Cardinality(Uncounting) \in Nat
      /\ Cardinality(Counting) \in Nat /\ IsFiniteSet(Storing) /\ Cardinality(Storing) \in Nat
      /\ Cardinality(Conns) \in Nat /\ Cardinality(Storing) <= Cardinality(Conns)
  BY CertCacheAssumption, FS_Subset, FS_CardinalityType DEF Present, Uncounting, Counting, Storing, At
<1>2. ASSUME NEW c \in Conns \ Storing PROVE Cardinality(Storing) + 1 <= Cardinality(Conns)
  <2>1. Storing \cup {c} \subseteq Conns
    BY DEF Storing, At
  <2>2. Cardinality(Storing \cup {c}) = Cardinality(Storing) + 1
    BY <1>1, FS_AddElement
  <2> QED
    BY <2>1, <2>2, CertCacheAssumption, FS_Subset
<1> QED
  BY <1>1, <1>2

-----------------------------------------------------------------------------
(* The handshakes.                                                         *)

\* Everything but the counts, for any step that moves one handshake on with a
\* leaf that is aged, and fresh when it is going to be served, and that writes
\* no other leaf than the one in hand.
LEMMA HandshakeStep ==
  ASSUME IInv, NEW c \in Conns, NEW a \in Stages, NEW l \in Leaf, Goto(c, a, l),
         conn[c].at # "idle", Aged(l), a \in Serving => Fresh(l),
         ConnFrame, memCount' \in Int, under' \in Nat,
         \/ mem' = mem
         \/ \E x \in {NoLeaf, conn[c].leaf} : mem' = [mem EXCEPT ![conn[c].dom] = x],
         \/ rdb' = rdb
         \/ \E x \in {NoLeaf, conn[c].leaf} : rdb' = [rdb EXCEPT ![conn[c].dom] = x]
  PROVE  Types' /\ StageInv' /\ FilesInv' /\ LeafInv' /\ FreshInv'
<1> USE DEF IInv
<1>1. UNCHANGED <<certFile, keyFile, alone, start, ca, gens, born, sweep, now>>
  BY DEF ConnFrame, fileVars, procVars
<1>2. /\ conn' \in [Conns -> Handshake]
      /\ conn'[c].at = a /\ conn'[c].leaf = l /\ conn'[c].dom = conn[c].dom
      /\ \A e \in Conns : e # c => conn'[e] = conn[e]
  BY GotoFields
<1>3. conn[c].dom \in Domains /\ start = "up"
  BY DEF StageInv
<1>4. conn[c].leaf \in Leaf /\ Aged(conn[c].leaf) /\ NoLeaf \in Leaf /\ Aged(NoLeaf)
  BY NoLeafAged DEF Types, Handshake, LeafInv
<1>5. mem' \in [Domains -> Leaf] /\ \A d \in Domains : Aged(mem'[d])
  BY <1>3, <1>4 DEF Types, LeafInv
<1>6. rdb' \in [Domains -> Leaf] /\ \A d \in Domains : Aged(rdb'[d])
  BY <1>3, <1>4 DEF Types, LeafInv
<1>7. Types'
  BY <1>1, <1>2, <1>5, <1>6 DEF Types
<1>8. StageInv'
  BY <1>1, <1>2, <1>3 DEF StageInv
<1>9. FilesInv'
  BY <1>1 DEF FilesInv
<1>10. LeafInv'
  <2>1. \A e \in Conns : Aged(conn'[e].leaf)
    BY <1>2 DEF LeafInv
  <2> QED
    BY <1>1, <1>5, <1>6, <2>1 DEF LeafInv, Aged
<1>11. FreshInv'
  <2>1. \A e \in Conns : conn'[e].at \in Serving => Fresh(conn'[e].leaf)
    BY <1>2 DEF FreshInv
  <2> QED
    BY <1>1, <2>1 DEF FreshInv, Fresh
<1> QED
  BY <1>7, <1>8, <1>9, <1>10, <1>11

\* A handshake that touches neither memory nor the counter, nor comes to store
\* or from it.
LEMMA OutsideMemory ==
  ASSUME IInv, NEW c \in Conns, NEW a \in Stages, NEW l \in Leaf, Goto(c, a, l),
         conn[c].at \notin {"store", "count", "uncount"}, a \notin {"store", "count", "uncount"},
         ConnFrame, UNCHANGED memVars
  PROVE  CountInv'
<1>1. \A S : Cardinality(At(S))' = Cardinality(At(S))
                + (IF a \in S /\ conn[c].at \notin S THEN 1
                   ELSE IF a \notin S /\ conn[c].at \in S THEN -1 ELSE 0)
  BY AtStep DEF IInv
<1>2. /\ Cardinality(Storing)' = Cardinality(Storing)
      /\ Cardinality(Counting)' = Cardinality(Counting)
      /\ Cardinality(Uncounting)' = Cardinality(Uncounting)
  BY <1>1, Counts DEF Storing, Counting, Uncounting
<1> QED
  BY <1>2 DEF IInv, CountInv, ConnFrame, memVars, Present, Swept

\* A new handshake.
LEMMA HelloStep == ASSUME IInv, NEW c \in Conns, Hello(c) PROVE IInv'
<1> USE DEF IInv
<1>1. /\ UNCHANGED <<mem, memCount, under, rdb>> /\ ConnFrame
      /\ start = "up" /\ conn[c].at \in {"idle", "served", "failed"}
  BY DEF Hello, memVars, Up
<1>2. UNCHANGED <<certFile, keyFile, alone, start, ca, gens, born, sweep, now>>
  BY <1>1 DEF ConnFrame, fileVars, procVars
<1>3. PICK d \in Domains : conn' = [conn EXCEPT ![c] = [at |-> "load", dom |-> d, leaf |-> NoLeaf]]
  BY DEF Hello
<1>4. PICK h : h = [at |-> "load", dom |-> d, leaf |-> NoLeaf]
  OBVIOUS
<1>5. h \in Handshake /\ h.at = "load" /\ h.dom = d /\ h.leaf = NoLeaf
  BY <1>4 DEF Handshake, Stages, NoLeaf, Leaf
<1>6. conn' \in [Conns -> Handshake] /\ conn'[c] = h /\ \A e \in Conns : e # c => conn'[e] = conn[e]
  BY <1>3, <1>4, <1>5 DEF Types
<1>7. Types' /\ StageInv' /\ FilesInv'
  BY <1>1, <1>2, <1>5, <1>6 DEF Types, StageInv, FilesInv
<1>8. LeafInv'
  <2>1. \A e \in Conns : Aged(conn'[e].leaf)
    BY <1>5, <1>6, NoLeafAged DEF LeafInv
  <2> QED
    BY <1>1, <1>2, <2>1 DEF LeafInv, Aged
<1>9. FreshInv'
  BY <1>2, <1>5, <1>6 DEF FreshInv, Fresh, Serving
<1>10. CountInv'
  <2>1. Storing' = Storing /\ Counting' = Counting /\ Uncounting' = Uncounting
    BY <1>1, <1>5, <1>6 DEF Storing, Counting, Uncounting, At
  <2> QED
    BY <1>1, <1>2, <2>1 DEF CountInv, Present, Swept
<1> QED
  BY <1>7, <1>8, <1>9, <1>10

\* The steps of GetCert outside memory: what is read from a cache is aged, and
\* passed on only when it is fresh; a new leaf is signed by the youngest CA.
LEMMA LookUpStep ==
  ASSUME IInv, NEW c \in Conns,
         LoadMem(c) \/ GetRedis(c) \/ DelRedis(c) \/ Generate(c) \/ SaveRedis(c)
  PROVE  IInv'
<1> USE DEF IInv
<1>1. /\ ConnFrame /\ UNCHANGED memVars
      /\ conn[c].at \in {"load", "get", "del", "generate", "save"} /\ start = "up"
  BY DEF LoadMem, GetRedis, DelRedis, Generate, SaveRedis, Up
<1>2. conn[c].dom \in Domains /\ conn[c].leaf \in Leaf /\ Aged(conn[c].leaf)
  BY <1>1 DEF StageInv, Types, Handshake, LeafInv
<1>3. /\ mem[conn[c].dom] \in Leaf /\ Aged(mem[conn[c].dom])
      /\ rdb[conn[c].dom] \in Leaf /\ Aged(rdb[conn[c].dom])
  BY <1>2 DEF Types, LeafInv
<1>4. NoLeaf \in Leaf /\ Aged(NoLeaf) /\ ~Fresh(NoLeaf)
  <2>1. ~Fresh(NoLeaf)
    BY DEF Fresh, NoLeaf, Types
  <2> QED
    BY <2>1, NoLeafAged
<1>5. \E a \in Stages, l \in Leaf :
        /\ Goto(c, a, l) /\ Aged(l) /\ (a \in Serving => Fresh(l))
        /\ a \notin {"store", "count", "uncount"}
  <2>1. CASE LoadMem(c)
    <3>1. PICK e : e = mem[conn[c].dom]
      OBVIOUS
    <3>2. CASE Fresh(e)
      <4>1. Goto(c, "served", e)
        BY <1>4, <2>1, <3>1, <3>2 DEF LoadMem
      <4> QED
        BY <1>3, <3>1, <3>2, <4>1 DEF Stages
    <3>3. CASE ~Fresh(e)
      <4>1. Goto(c, "get", NoLeaf) \/ Goto(c, "delete", NoLeaf)
        BY <2>1, <3>1, <3>3 DEF LoadMem
      <4> QED
        BY <1>4, <4>1 DEF Stages, Serving
    <3> QED
      BY <3>2, <3>3
  <2>2. CASE GetRedis(c)
    <3>1. \/ Goto(c, "generate", NoLeaf) \/ Goto(c, "del", NoLeaf)
          \/ Fresh(rdb[conn[c].dom]) /\ Goto(c, "room", rdb[conn[c].dom])
      BY <2>2 DEF GetRedis
    <3> QED
      BY <1>3, <1>4, <3>1 DEF Stages, Serving
  <2>3. CASE DelRedis(c)
    BY <1>4, <2>3 DEF DelRedis, Stages, Serving
  <2>4. CASE Generate(c)
    <3>1. CASE Goto(c, "failed", NoLeaf)
      BY <1>4, <3>1 DEF Stages, Serving
    <3>2. CASE Goto(c, "save", [ca |-> ca.cert, exp |-> now + Life])
      <4>1. PICK l : l = [ca |-> ca.cert, exp |-> now + Life]
        OBVIOUS
      <4>2. l \in Leaf /\ l.ca = gens /\ l.exp = now + Life
        BY <1>1, <4>1, CertCacheAssumption DEF Leaf, Types, FilesInv
      <4>3. Aged(l) /\ Fresh(l)
        BY <4>2, CertCacheAssumption DEF Aged, Fresh, Types
      <4> QED
        BY <3>2, <4>1, <4>2, <4>3 DEF Stages
    <3> QED
      BY <2>4, <3>1, <3>2 DEF Generate
  <2>5. CASE SaveRedis(c)
    <3>1. Goto(c, "room", conn[c].leaf) /\ Fresh(conn[c].leaf)
      BY <2>5 DEF SaveRedis, FreshInv, Serving
    <3> QED
      BY <1>2, <3>1 DEF Stages
  <2> QED
    BY <2>1, <2>2, <2>3, <2>4, <2>5
<1>6. PICK a \in Stages, l \in Leaf :
        /\ Goto(c, a, l) /\ Aged(l) /\ (a \in Serving => Fresh(l))
        /\ a \notin {"store", "count", "uncount"}
  BY <1>5
<1>7. /\ mem' = mem /\ memCount' \in Int /\ under' \in Nat
      /\ \/ rdb' = rdb
         \/ \E x \in {NoLeaf, conn[c].leaf} : rdb' = [rdb EXCEPT ![conn[c].dom] = x]
  BY <1>1 DEF memVars, Types, LoadMem, GetRedis, DelRedis, Generate, SaveRedis
<1>8. Types' /\ StageInv' /\ FilesInv' /\ LeafInv' /\ FreshInv'
  BY <1>1, <1>6, <1>7, HandshakeStep
<1>9. CountInv'
  BY <1>1, <1>6, OutsideMemory
<1> QED
  BY <1>8, <1>9

\* The steps of GetCert that write memory or its counter, or are about to.
LEMMA MemoryStep ==
  ASSUME IInv, NEW c \in Conns,
         DeleteMem(c) \/ Uncount(c) \/ CheckRoom(c) \/ StoreMem(c) \/ CountMem(c)
  PROVE  IInv'
<1> USE DEF IInv
<1>1. /\ ConnFrame /\ UNCHANGED rdb /\ sweep' = sweep
      /\ conn[c].at \in {"delete", "uncount", "room", "store", "count"}
  BY DEF DeleteMem, Uncount, CheckRoom, StoreMem, CountMem, ConnFrame, memVars
<1>2. conn[c].dom \in Domains /\ conn[c].leaf \in Leaf /\ Aged(conn[c].leaf)
  BY <1>1 DEF StageInv, Types, Handshake, LeafInv
<1>3. NoLeaf \in Leaf /\ Aged(NoLeaf)
  BY NoLeafAged
<1>4. conn[c].at \in Serving => Fresh(conn[c].leaf)
  BY DEF FreshInv
<1>5. ASSUME NEW a \in Stages, NEW l \in Leaf, Goto(c, a, l), Aged(l), a \in Serving => Fresh(l)
      PROVE  /\ Types' /\ StageInv' /\ FilesInv' /\ LeafInv' /\ FreshInv'
             /\ \A S : Cardinality(At(S))' = Cardinality(At(S))
                         + (IF a \in S /\ conn[c].at \notin S THEN 1
                            ELSE IF a \notin S /\ conn[c].at \in S THEN -1 ELSE 0)
  <2>1. /\ memCount' \in Int /\ under' \in Nat
        /\ \/ mem' = mem
           \/ \E x \in {NoLeaf, conn[c].leaf} : mem' = [mem EXCEPT ![conn[c].dom] = x]
    BY DEF DeleteMem, Uncount, CheckRoom, StoreMem, CountMem, Types, memVars
  <2>2. Types' /\ StageInv' /\ FilesInv' /\ LeafInv' /\ FreshInv'
    BY <1>1, <1>5, <2>1, HandshakeStep
  <2> QED
    BY <1>5, <2>2, AtStep
<1>6. Swept' = Swept /\ Swept \in {0, 1}
  BY <1>1 DEF Swept
<1>7. memCount \in Int /\ under \in Nat
  BY DEF Types
<1>8. CASE DeleteMem(c)
  <2>1. /\ conn[c].at = "delete" /\ Goto(c, "uncount", NoLeaf) /\ memCount' = memCount
        /\ mem' = [mem EXCEPT ![conn[c].dom] = NoLeaf]
        /\ under' = under + (IF mem[conn[c].dom] = NoLeaf THEN 1 ELSE 0)
    BY <1>8 DEF DeleteMem
  <2>2. /\ Types' /\ StageInv' /\ FilesInv' /\ LeafInv' /\ FreshInv'
        /\ \A S : Cardinality(At(S))' = Cardinality(At(S))
                    + (IF "uncount" \in S /\ conn[c].at \notin S THEN 1
                       ELSE IF "uncount" \notin S /\ conn[c].at \in S THEN -1 ELSE 0)
    BY <1>3, <1>5, <2>1 DEF Stages, Serving
  <2>3. /\ Cardinality(Storing)' = Cardinality(Storing)
        /\ Cardinality(Counting)' = Cardinality(Counting)
        /\ Cardinality(Uncounting)' = Cardinality(Uncounting) + 1
    BY <2>1, <2>2, Counts DEF Storing, Counting, Uncounting
  <2>4. Cardinality(Present)' = Cardinality(Present) - (IF mem[conn[c].dom] = NoLeaf THEN 0 ELSE 1)
    <3>1. PICK d \in Domains : d = conn[c].dom
      BY <1>2
    <3>2. Cardinality(Present)' = Cardinality(Present) + (IF mem[d] # NoLeaf THEN -1 ELSE 0)
      BY <2>1, <3>1, PresentStep
    <3> QED
      BY <3>1, <3>2, Counts
  <2>5. CountInv'
    BY <1>6, <1>7, <2>1, <2>3, <2>4, Counts, CertCacheAssumption DEF CountInv
  <2> QED
    BY <2>2, <2>5
<1>9. CASE Uncount(c)
  <2>1. /\ conn[c].at = "uncount" /\ Goto(c, "get", NoLeaf)
        /\ memCount' = memCount - 1 /\ UNCHANGED <<mem, under>>
    BY <1>9 DEF Uncount
  <2>2. /\ Types' /\ StageInv' /\ FilesInv' /\ LeafInv' /\ FreshInv'
        /\ \A S : Cardinality(At(S))' = Cardinality(At(S))
                    + (IF "get" \in S /\ conn[c].at \notin S THEN 1
                       ELSE IF "get" \notin S /\ conn[c].at \in S THEN -1 ELSE 0)
    BY <1>3, <1>5, <2>1 DEF Stages, Serving
  <2>3. /\ Cardinality(Storing)' = Cardinality(Storing)
        /\ Cardinality(Counting)' = Cardinality(Counting)
        /\ Cardinality(Uncounting)' = Cardinality(Uncounting) - 1
    BY <2>1, <2>2, Counts DEF Storing, Counting, Uncounting
  <2>4. Present' = Present
    BY <2>1 DEF Present
  <2>5. CountInv'
    BY <1>6, <1>7, <2>1, <2>3, <2>4, Counts, CertCacheAssumption DEF CountInv
  <2> QED
    BY <2>2, <2>5
<1>10. CASE CheckRoom(c) /\ memCount >= MaxMem
  <2>1. conn[c].at = "room" /\ Goto(c, "served", conn[c].leaf) /\ UNCHANGED memVars
    BY <1>10 DEF CheckRoom
  <2>2. Types' /\ StageInv' /\ FilesInv' /\ LeafInv' /\ FreshInv'
    BY <1>2, <1>4, <1>5, <2>1 DEF Stages, Serving
  <2>3. CountInv'
    BY <1>1, <1>2, <2>1, OutsideMemory DEF Stages
  <2> QED
    BY <2>2, <2>3
<1>11. CASE CheckRoom(c) /\ ~(memCount >= MaxMem)
  <2>1. conn[c].at = "room" /\ Goto(c, "store", conn[c].leaf) /\ UNCHANGED <<mem, memCount, under>>
    BY <1>11 DEF CheckRoom, memVars
  <2>2. /\ Types' /\ StageInv' /\ FilesInv' /\ LeafInv' /\ FreshInv'
        /\ \A S : Cardinality(At(S))' = Cardinality(At(S))
                    + (IF "store" \in S /\ conn[c].at \notin S THEN 1
                       ELSE IF "store" \notin S /\ conn[c].at \in S THEN -1 ELSE 0)
    BY <1>2, <1>4, <1>5, <2>1 DEF Stages, Serving
  <2>3. /\ Cardinality(Storing)' = Cardinality(Storing) + 1
        /\ Cardinality(Counting)' = Cardinality(Counting)
        /\ Cardinality(Uncounting)' = Cardinality(Uncounting)
    BY <2>1, <2>2, Counts DEF Storing, Counting, Uncounting
  <2>4. Present' = Present /\ c \in Conns \ Storing
    BY <2>1 DEF Present, Storing, At
  <2>5. CountInv'
    BY <1>6, <1>7, <1>11, <2>1, <2>3, <2>4, Counts, CertCacheAssumption DEF CountInv
  <2> QED
    BY <2>2, <2>5
<1>12. CASE StoreMem(c)
  <2>1. /\ conn[c].at = "store" /\ Goto(c, "count", conn[c].leaf)
        /\ mem' = [mem EXCEPT ![conn[c].dom] = conn[c].leaf] /\ UNCHANGED <<memCount, under>>
    BY <1>12 DEF StoreMem
  <2>2. /\ Types' /\ StageInv' /\ FilesInv' /\ LeafInv' /\ FreshInv'
        /\ \A S : Cardinality(At(S))' = Cardinality(At(S))
                    + (IF "count" \in S /\ conn[c].at \notin S THEN 1
                       ELSE IF "count" \notin S /\ conn[c].at \in S THEN -1 ELSE 0)
    BY <1>2, <1>4, <1>5, <2>1 DEF Stages, Serving
  <2>3. /\ Cardinality(Storing)' = Cardinality(Storing)
        /\ Cardinality(Counting)' = Cardinality(Counting) + 1
        /\ Cardinality(Uncounting)' = Cardinality(Uncounting)
    BY <2>1, <2>2, Counts DEF Storing, Counting, Uncounting
  <2>4. Cardinality(Present)' <= Cardinality(Present) + 1 /\ Cardinality(Present)' \in Int
    <3>1. PICK d \in Domains, x \in Leaf : d = conn[c].dom /\ x = conn[c].leaf
      BY <1>2
    <3>2. Cardinality(Present)' = Cardinality(Present)
            + (IF x # NoLeaf /\ mem[d] = NoLeaf THEN 1
               ELSE IF x = NoLeaf /\ mem[d] # NoLeaf THEN -1 ELSE 0)
      BY <2>1, <3>1, PresentStep
    <3> QED
      BY <3>2, Counts
  <2>5. CountInv'
    BY <1>6, <1>7, <2>1, <2>3, <2>4, Counts, CertCacheAssumption DEF CountInv
  <2> QED
    BY <2>2, <2>5
<1>13. CASE CountMem(c)
  <2>1. /\ conn[c].at = "count" /\ Goto(c, "served", conn[c].leaf)
        /\ memCount' = memCount + 1 /\ UNCHANGED <<mem, under>>
    BY <1>13 DEF CountMem
  <2>2. /\ Types' /\ StageInv' /\ FilesInv' /\ LeafInv' /\ FreshInv'
        /\ \A S : Cardinality(At(S))' = Cardinality(At(S))
                    + (IF "served" \in S /\ conn[c].at \notin S THEN 1
                       ELSE IF "served" \notin S /\ conn[c].at \in S THEN -1 ELSE 0)
    BY <1>2, <1>4, <1>5, <2>1 DEF Stages, Serving
  <2>3. /\ Cardinality(Storing)' = Cardinality(Storing) - 1
        /\ Cardinality(Counting)' = Cardinality(Counting) - 1
        /\ Cardinality(Uncounting)' = Cardinality(Uncounting)
    BY <2>1, <2>2, Counts DEF Storing, Counting, Uncounting
  <2>4. Present' = Present
    BY <2>1 DEF Present
  <2>5. CountInv'
    BY <1>6, <1>7, <2>1, <2>3, <2>4, Counts, CertCacheAssumption DEF CountInv
  <2> QED
    BY <2>2, <2>5
<1> QED
  BY <1>8, <1>9, <1>10, <1>11, <1>12, <1>13

-----------------------------------------------------------------------------
(* evictExpired and the passing of time.                                   *)

\* A step of the sweep.
LEMMA SweepStep == ASSUME IInv, EvictExpired PROVE IInv'
<1> USE DEF IInv
<1>1. UNCHANGED <<certFile, keyFile, alone, start, ca, gens, born, rdb, conn, now>> /\ start = "up"
  BY DEF EvictExpired, StartSweep, Visit, SweepDelete, SweepUncount, SweepFrame, fileVars, procVars,
         boundVars, Up
<1>2. NoLeaf \in Leaf /\ Aged(NoLeaf)
  BY NoLeafAged
<1>3. sweep.at \in {"delete", "uncount"} => sweep.dom \in Domains
  BY DEF StageInv
<1>4. /\ mem' = mem \/ (sweep.dom \in Domains /\ mem' = [mem EXCEPT ![sweep.dom] = NoLeaf])
      /\ memCount' \in Int /\ under' \in Nat
  BY <1>3 DEF EvictExpired, StartSweep, Visit, SweepDelete, SweepUncount, memVars, Types
<1>5. mem' \in [Domains -> Leaf] /\ \A d \in Domains : Aged(mem'[d])
  BY <1>2, <1>4 DEF Types, LeafInv
<1>6. /\ sweep' \in Sweep
      /\ sweep'.at \in {"delete", "uncount"} => sweep'.dom \in Domains
  <2>1. CASE StartSweep
    BY <2>1 DEF StartSweep, Types, Sweep
  <2>2. CASE Visit
    <3>1. CASE sweep' = NoSweep
      BY <3>1 DEF NoSweep, Sweep
    <3>2. ASSUME NEW d \in sweep.left, NEW b \in {"delete", "visit"},
                 sweep' = [at |-> b, dom |-> d, left |-> sweep.left \ {d}]
          PROVE  /\ sweep' \in Sweep
                 /\ sweep'.at \in {"delete", "uncount"} => sweep'.dom \in Domains
      <4>1. d \in Domains /\ sweep.left \ {d} \in SUBSET Domains
        BY DEF Types, Sweep
      <4> QED
        BY <3>2, <4>1 DEF Sweep
    <3> QED
      BY <2>2, <3>1, <3>2 DEF Visit
  <2>3. CASE SweepDelete
    BY <1>3, <2>3 DEF SweepDelete, Types, Sweep
  <2>4. CASE SweepUncount
    BY <2>4 DEF SweepUncount, Types, Sweep
  <2> QED
    BY <2>1, <2>2, <2>3, <2>4 DEF EvictExpired
<1>7. Types' /\ StageInv' /\ FilesInv'
  BY <1>1, <1>4, <1>5, <1>6 DEF Types, StageInv, FilesInv
<1>8. LeafInv' /\ FreshInv'
  BY <1>1, <1>5 DEF LeafInv, Aged, FreshInv, Fresh
<1>9. CountInv'
  <2>1. Storing' = Storing /\ Counting' = Counting /\ Uncounting' = Uncounting
    BY <1>1 DEF Storing, Counting, Uncounting, At
  <2>2. memCount \in Int /\ under \in Nat
    BY DEF Types
  <2>3. CASE StartSweep \/ Visit
    <3>1. UNCHANGED <<mem, memCount, under>> /\ Swept' = 0 /\ Swept = 0
      <4>1. sweep.at \in {"idle", "visit"}
        BY <2>3 DEF StartSweep, Visit
      <4>2. sweep'.at \in {"idle", "visit", "delete"}
        <5>1. CASE StartSweep
          BY <5>1 DEF StartSweep, Types, Sweep
        <5>2. CASE Visit /\ sweep' = NoSweep
          BY <5>2 DEF NoSweep
        <5>3. CASE Visit /\ sweep' # NoSweep
          BY <5>3 DEF Visit
        <5> QED
          BY <2>3, <5>1, <5>2, <5>3
      <4> QED
        BY <2>3, <4>1, <4>2 DEF StartSweep, Visit, memVars, Swept
    <3> QED
      BY <2>1, <3>1 DEF CountInv, Present
  <2>4. CASE SweepDelete
    <3>1. PICK d \in Domains : d = sweep.dom
      BY <1>3, <2>4 DEF SweepDelete
    <3>2. /\ mem' = [mem EXCEPT ![d] = NoLeaf] /\ memCount' = memCount
          /\ under' = under + (IF mem[d] = NoLeaf THEN 1 ELSE 0)
      BY <2>4, <3>1 DEF SweepDelete
    <3>3. Swept = 0 /\ Swept' = 1
      BY <2>4 DEF SweepDelete, Swept, Types, Sweep
    <3>4. Cardinality(Present)' = Cardinality(Present) + (IF mem[d] # NoLeaf THEN -1 ELSE 0)
      BY <3>2, PresentStep
    <3> QED
      BY <2>1, <2>2, <3>2, <3>3, <3>4, Counts, CertCacheAssumption DEF CountInv
  <2>5. CASE SweepUncount
    <3>1. memCount' = memCount - 1 /\ UNCHANGED <<mem, under>>
      BY <2>5 DEF SweepUncount
    <3>2. Swept = 1 /\ Swept' = 0
      BY <2>5 DEF SweepUncount, Swept, Types, Sweep
    <3>3. Present' = Present
      BY <3>1 DEF Present
    <3> QED
      BY <2>1, <2>2, <3>1, <3>2, <3>3, Counts, CertCacheAssumption DEF CountInv
  <2> QED
    BY <2>3, <2>4, <2>5 DEF EvictExpired
<1> QED
  BY <1>7, <1>8, <1>9

\* A day passes while nothing is under way.
LEMMA TickStep == ASSUME IInv, Tick PROVE IInv'
<1> USE DEF IInv
<1>1. /\ UNCHANGED <<certFile, keyFile, alone, start, ca, gens, born, mem, memCount, under, sweep>>
      /\ now' = now + 1 /\ conn' = [c \in Conns |-> Idle]
      /\ \A c \in Conns : conn[c].at \in {"idle", "served", "failed"}
  BY DEF Tick, fileVars, procVars, memVars
<1>2. Idle \in Handshake /\ Idle.at = "idle" /\ Idle.leaf = NoLeaf
  BY DEF Idle, NoLeaf, Handshake, Leaf, Stages
<1>3. NoLeaf \in Leaf /\ Aged(NoLeaf)
  BY NoLeafAged
<1>4. rdb' \in [Domains -> Leaf] /\ \A d \in Domains : rdb'[d] \in {NoLeaf, rdb[d]}
  BY <1>3 DEF Tick, Types
<1>5. ASSUME NEW l \in Leaf, Aged(l) PROVE Aged(l)'
  <2>1. l.exp \in Nat /\ now \in Nat
    BY DEF Leaf, Types
  <2> QED
    BY <1>1, <1>5, <2>1, CertCacheAssumption DEF Aged
<1>6. Types'
  BY <1>1, <1>2, <1>4 DEF Types
<1>7. StageInv' /\ FilesInv' /\ FreshInv'
  BY <1>1, <1>2 DEF StageInv, FilesInv, FreshInv, Serving
<1>8. LeafInv'
  <2>1. \A d \in Domains : Aged(mem[d])' /\ Aged(rdb'[d]) /\ rdb'[d] \in Leaf
    BY <1>1, <1>3, <1>4, <1>5 DEF LeafInv, Types
  <2>2. \A d \in Domains : Aged(rdb[d])'
    <3> SUFFICES ASSUME NEW d \in Domains PROVE Aged(rdb[d])'
      OBVIOUS
    <3>1. PICK l \in Leaf : l = rdb'[d] /\ Aged(l)
      BY <2>1
    <3>2. Aged(l)'
      BY <1>5, <3>1
    <3> QED
      BY <3>1, <3>2 DEF Aged
  <2>3. \A c \in Conns : Aged(conn[c].leaf)'
    BY <1>1, <1>2, <1>3, <1>5
  <2> QED
    BY <2>1, <2>2, <2>3 DEF LeafInv
<1>9. CountInv'
  <2>1. Storing' = Storing /\ Counting' = Counting /\ Uncounting' = Uncounting
    BY <1>1, <1>2 DEF Storing, Counting, Uncounting, At
  <2> QED
    BY <1>1, <2>1 DEF CountInv, Present, Swept
<1> QED
  BY <1>6, <1>7, <1>8, <1>9

-----------------------------------------------------------------------------
(* The theorems.                                                           *)

\* Every step keeps the invariant.
LEMMA NextIInv == IInv /\ [Next]_vars => IInv'
<1> SUFFICES ASSUME IInv, [Next]_vars PROVE IInv'
  OBVIOUS
<1>1. CASE StartStep
  BY <1>1, StartUpStep, CrashStep, LoseFilesStep DEF StartStep
<1>2. CASE EvictExpired
  BY <1>2, SweepStep
<1>3. CASE Tick
  BY <1>3, TickStep
<1>4. ASSUME NEW c \in Conns, Hello(c) PROVE IInv'
  BY <1>4, HelloStep
<1>5. ASSUME NEW c \in Conns, GetCert(c) PROVE IInv'
  BY <1>5, LookUpStep, MemoryStep DEF GetCert
<1>6. CASE UNCHANGED vars
  BY <1>6 DEF vars, fileVars, procVars, memVars, boundVars, IInv, Types, StageInv, FilesInv, LeafInv,
              Aged, FreshInv, Fresh, CountInv, Present, Storing, Counting, Uncounting, At, Swept
<1> QED
  BY <1>1, <1>2, <1>3, <1>4, <1>5, <1>6 DEF Next

\* The invariant holds in every state the certificates reach.
THEOREM Invariance == Spec => []IInv
<1> QED
  BY InitIInv, NextIInv, PTL DEF Spec

\* Whatever crash interrupts LoadOrCreate, a proxy that is up has a pair that
\* signs, unless one file was removed without the other or a pair could not be read.
THEOREM PairIsUsable == Spec => []UsableCA
<1>1. IInv => UsableCA
  BY DEF IInv, FilesInv, UsableCA, Up
<1> QED
  BY <1>1, Invariance, PTL

\* No handshake is given a leaf with a day or less left.
THEOREM ServedLeavesAreFresh == Spec => []ServedHasADay
<1>1. IInv => ServedHasADay
  BY DEF IInv, FreshInv, Serving, ServedHasADay
<1> QED
  BY <1>1, Invariance, PTL

\* Leaves of an earlier CA that Redis kept are gone within a leaf's life after
\* the new CA was made.
THEOREM EarlierLeavesEnd == Spec => []OldLeavesDieOut
<1>1. ASSUME IInv PROVE OldLeavesDieOut
  <2> SUFFICES ASSUME NEW c \in Conns, conn[c].at = "served", conn[c].leaf.ca # ca.cert
               PROVE  conn[c].leaf.exp <= born[ca.cert] + Life
    BY DEF OldLeavesDieOut
  <2>1. ca.cert = gens /\ gens \in Nat /\ gens > 0
    BY <1>1 DEF IInv, StageInv, FilesInv, Types
  <2>2. Aged(conn[c].leaf) /\ conn[c].leaf.ca \in Nat
    BY <1>1 DEF IInv, LeafInv, Types, Handshake, Leaf
  <2> QED
    BY <2>1, <2>2 DEF Aged
<1> QED
  BY <1>1, Invariance, PTL

\* Memory holds no more entries than its limit, but for the handshakes that
\* passed the test of it together and the deletions counted twice.
THEOREM MemoryIsBounded == Spec => []MemBounded
<1>1. ASSUME IInv PROVE MemBounded
  <2>1. memCount \in Int /\ under \in Nat /\ Swept \in {0, 1}
    BY <1>1 DEF IInv, Types, Swept
  <2>2. Counting \subseteq Storing /\ IsFiniteSet(Storing)
    BY CertCacheAssumption, FS_Subset DEF Counting, Storing, At
  <2>3. Cardinality(Counting) <= Cardinality(Storing)
    BY <2>2, FS_Subset
  <2> QED
    BY <1>1, <2>1, <2>3, Counts, CertCacheAssumption DEF IInv, CountInv, MemBounded
<1> QED
  BY <1>1, Invariance, PTL

=============================================================================
