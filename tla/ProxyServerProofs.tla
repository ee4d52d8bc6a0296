------------------------- MODULE ProxyServerProofs -------------------------
(***************************************************************************)
(* Proofs about ProxyServer, for any number of requests, any queue size,   *)
(* any hosts and lists.                                                    *)
(*                                                                         *)
(* RecordInv says where records are: with a sender, those of finished      *)
(* requests are spread over the queue, drain's hand, the syslog server,    *)
(* the lost and the dropped, each in one place; without one there are      *)
(* none.  FlushInv orders the shutdown: when                               *)
(* Shutdown has returned, a plain request that is not late has ended, so   *)
(* nothing it sent can arrive behind the flush.                            *)
(***************************************************************************)
EXTENDS ProxyServer, TLAPS

-----------------------------------------------------------------------------
(***************************************************************************)
(* The trie of blocklist.go and its walk decide exactly what the entries   *)
(* of the list say, for every list of domains and every host.  The core is *)
(* a fact about paths: reading two domains from their last label, the      *)
(* shorter is a suffix of the longer if and only if their paths agree.     *)
(***************************************************************************)

\* The path of n labels of a domain is a sequence of n labels.
LEMMA PathType ==
  ASSUME NEW d \in Seq(Labels), NEW n \in 0..Len(d)
  PROVE  /\ Path(d, n) \in Seq(Labels) /\ Len(Path(d, n)) = n
         /\ \A i \in 1..n : Path(d, n)[i] = d[Len(d) + 1 - i]
  <1>1. \A i \in 1..n : Len(d) + 1 - i \in 1..Len(d)
    OBVIOUS
  <1>2. \A i \in 1..n : d[Len(d) + 1 - i] \in Labels
    BY <1>1
  <1> QED
    BY <1>2 DEF Path

\* Two nodes with the same "*" child are the same node.
LEMMA SentinelInjective ==
  ASSUME NEW s \in Seq(Labels), NEW t \in Seq(Labels), Sentinel(s) = Sentinel(t)
  PROVE  s = t
  <1>1. "*" \in Labels
    BY BlocklistAssumption
  <1>2. Append(s, "*") = Append(t, "*")
    BY DEF Sentinel
  <1>3. Len(s) = Len(t)
    <2>1. Len(Append(s, "*")) = Len(s) + 1 /\ Len(Append(t, "*")) = Len(t) + 1
      BY <1>1
    <2> QED
      BY <1>2, <2>1
  <1>4. ASSUME NEW i \in 1..Len(s)
        PROVE  s[i] = t[i]
    <2>1. Append(s, "*")[i] = s[i] /\ Append(t, "*")[i] = t[i]
      BY <1>1, <1>3
    <2> QED
      BY <1>2, <2>1
  <1> QED
    BY <1>3, <1>4

\* A domain is a proper suffix of a longer one iff the path of all its labels
\* is the path of as many labels of the other.
LEMMA SuffixIsPath ==
  ASSUME NEW b \in Seq(Labels), NEW h \in Seq(Labels), Len(b) < Len(h)
  PROVE  IsProperSuffix(b, h) <=> Path(h, Len(b)) = Path(b, Len(b))
  <1> DEFINE n == Len(b)
             k == Len(h) - n
             tail == SubSeq(h, k + 1, Len(h))
  <1>1. n \in 0..Len(b) /\ n \in 0..Len(h) /\ k \in Nat /\ k + n = Len(h)
    OBVIOUS
  <1>2. /\ tail \in Seq(Labels) /\ Len(tail) = n
        /\ \A i \in 1..n : tail[i] = h[k + i]
    BY <1>1
  <1>3. IsProperSuffix(b, h) <=> \A i \in 1..n : b[i] = h[k + i]
    <2>1. IsProperSuffix(b, h) <=> b = tail
      BY DEF IsProperSuffix
    <2>2. b = tail => \A i \in 1..n : b[i] = h[k + i]
      BY <1>2
    <2>3. (\A i \in 1..n : b[i] = h[k + i]) => b = tail
      <3> SUFFICES ASSUME \A i \in 1..n : b[i] = h[k + i]
                   PROVE  b = tail
        OBVIOUS
      <3> HIDE DEF tail
      <3>1. \A i \in 1..Len(b) : b[i] = tail[i]
        BY <1>2
      <3> QED
        BY <3>1, <1>2
    <2> QED
      BY <2>1, <2>2, <2>3
  <1>4. Path(h, n) = Path(b, n) <=> \A i \in 1..n : h[Len(h) + 1 - i] = b[n + 1 - i]
    BY <1>1 DEF Path
  <1>5. ASSUME \A i \in 1..n : b[i] = h[k + i], NEW i \in 1..n
        PROVE  h[Len(h) + 1 - i] = b[n + 1 - i]
    <2>1. n + 1 - i \in 1..n /\ k + (n + 1 - i) = Len(h) + 1 - i
      BY <1>1
    <2> QED
      BY <2>1, <1>5
  <1>6. ASSUME \A i \in 1..n : h[Len(h) + 1 - i] = b[n + 1 - i], NEW i \in 1..n
        PROVE  b[i] = h[k + i]
    <2>1. n + 1 - i \in 1..n /\ Len(h) + 1 - (n + 1 - i) = k + i /\ n + 1 - (n + 1 - i) = i
      BY <1>1
    <2>2. h[Len(h) + 1 - (n + 1 - i)] = b[n + 1 - (n + 1 - i)]
      BY <2>1, <1>6
    <2> QED
      BY <2>1, <2>2
  <1> QED
    BY <1>3, <1>4, <1>5, <1>6

\* The labels of a path are those of any longer path of the same domain.
LEMMA PathPrefix ==
  ASSUME NEW b \in Seq(Labels), NEW h \in Seq(Labels), Len(b) < Len(h),
         Path(h, Len(b)) = Path(b, Len(b)), NEW m \in 1..Len(b)
  PROVE  Path(h, m) = Path(b, m)
  <1>1. \A i \in 1..Len(b) : h[Len(h) + 1 - i] = b[Len(b) + 1 - i]
    <2>1. Len(b) \in 0..Len(b) /\ Len(b) \in 0..Len(h)
      OBVIOUS
    <2>2. \A i \in 1..Len(b) : Path(h, Len(b))[i] = h[Len(h) + 1 - i]
      BY <2>1, PathType
    <2>3. \A i \in 1..Len(b) : Path(b, Len(b))[i] = b[Len(b) + 1 - i]
      BY <2>1, PathType
    <2> QED
      BY <2>2, <2>3
  <1>2. \A i \in 1..m : i \in 1..Len(b)
    OBVIOUS
  <1> QED
    BY <1>1, <1>2 DEF Path

\* A line that is a wildcard has a base, of labels.
LEMMA BaseType ==
  ASSUME NEW d \in Domains, IsWildcard(d)
  PROVE  Base(d) \in Seq(Labels) /\ Len(Base(d)) >= 1
  BY DEF Domains, IsWildcard, Base

LEMMA LowerType ==
  ASSUME NEW d \in Domains
  PROVE  ToLower(d) \in Domains
  <1>1. d \in Seq(Labels) /\ d # <<>> /\ Len(d) \in Nat \ {0}
    BY DEF Domains
  <1>2. \A i \in 1..Len(d) : Lower[d[i]] \in Labels
    <2>1. Lower \in [Labels -> Labels]
      BY BlocklistAssumption
    <2>2. \A i \in 1..Len(d) : d[i] \in Labels
      BY <1>1
    <2> QED
      BY <2>1, <2>2
  <1>3. ToLower(d) \in Seq(Labels) /\ Len(ToLower(d)) = Len(d)
    BY <1>1, <1>2 DEF ToLower
  <1> QED
    BY <1>1, <1>3 DEF Domains

\* The walk finds a "*" below a node of the host, with labels left, exactly if
\* the host is a proper subdomain of some base.
LEMMA WalkFindsBase ==
  ASSUME NEW bases \in SUBSET Seq(Labels), \A b \in bases : Len(b) >= 1,
         NEW h \in Seq(Labels),
         NEW bl,
         bl.terminal = {Sentinel(Path(b, Len(b))) : b \in bases},
         bl.nodes = bl.terminal \cup UNION {{Path(b, n) : n \in 1..Len(b)} : b \in bases}
  PROVE  wildcardBlocked(bl, h) <=> \E b \in bases : IsProperSuffix(b, h)
  <1>1. ASSUME NEW n \in 1..(Len(h) - 1), Sentinel(Path(h, n)) \in bl.terminal
        PROVE  \E b \in bases : IsProperSuffix(b, h)
    <2>1. PICK b \in bases : Sentinel(Path(h, n)) = Sentinel(Path(b, Len(b)))
      BY <1>1
    <2>2. b \in Seq(Labels) /\ Len(b) \in 0..Len(b) /\ n \in 0..Len(h)
      OBVIOUS
    <2>3. /\ Path(h, n) \in Seq(Labels) /\ Len(Path(h, n)) = n
          /\ Path(b, Len(b)) \in Seq(Labels) /\ Len(Path(b, Len(b))) = Len(b)
      BY <2>2, PathType
    <2>4. Path(h, n) = Path(b, Len(b))
      BY <2>1, <2>3, SentinelInjective
    <2>5. n = Len(b) /\ Len(b) < Len(h)
      BY <2>3, <2>4
    <2> QED
      BY <2>2, <2>4, <2>5, SuffixIsPath
  <1>2. ASSUME NEW b \in bases, IsProperSuffix(b, h)
        PROVE  \E n \in 1..(Len(h) - 1) :
                 /\ \A m \in 1..n : Path(h, m) \in bl.nodes
                 /\ Sentinel(Path(h, n)) \in bl.terminal
    <2>1. b \in Seq(Labels) /\ Len(b) < Len(h) /\ Len(b) \in 1..(Len(h) - 1)
      BY <1>2 DEF IsProperSuffix
    <2>2. Path(h, Len(b)) = Path(b, Len(b))
      BY <1>2, <2>1, SuffixIsPath
    <2>3. Sentinel(Path(h, Len(b))) \in bl.terminal
      BY <2>2
    <2>4. ASSUME NEW m \in 1..Len(b)
          PROVE  Path(h, m) \in bl.nodes
      <3>1. Path(h, m) = Path(b, m)
        BY <2>1, <2>2, PathPrefix
      <3> QED
        BY <3>1
    <2> QED
      BY <2>1, <2>3, <2>4
  <1> QED
    BY <1>1, <1>2 DEF wildcardBlocked

\* IsBlocked, on the blocklist built from a set of entries, is true of exactly
\* the hosts that an entry means: the blocklist refuses what the administrator
\* listed and nothing else, whatever else is in the trie.
THEOREM BlockedIffListed ==
  ASSUME NEW D \in SUBSET Domains, NEW name \in Domains
  PROVE  IsBlocked(NewBlocklist(D), name) <=> Listed(D, name)
  <1> DEFINE h == ToLower(name)
             lines == {d \in {ToLower(e) : e \in D} : ~IsBlank(d)}
             wild  == {e \in lines : IsWildcard(e)}
             bases == {Base(d) : d \in wild}
             bl    == NewBlocklist(D)
  <1>1. h \in Domains /\ h \in Seq(Labels) /\ lines \subseteq Domains
    BY LowerType DEF Domains
  <1>2. bases \in SUBSET Seq(Labels) /\ \A b \in bases : Len(b) >= 1
    BY <1>1, BaseType
  <1>3. /\ bl.exact = {d \in lines : ~IsWildcard(d)}
        /\ bl.terminal = {Sentinel(Path(b, Len(b))) : b \in bases}
        /\ bl.nodes = bl.terminal \cup UNION {{Path(b, n) : n \in 1..Len(b)} : b \in bases}
    BY DEF NewBlocklist
  <1>4. wildcardBlocked(bl, h) <=> \E b \in bases : IsProperSuffix(b, h)
    <2> HIDE DEF bl, bases, h
    <2> QED
      BY <1>1, <1>2, <1>3, WalkFindsBase
  <1>5. IsBlocked(bl, name)
          <=> \/ \E d \in lines : ~IsWildcard(d) /\ d = h
              \/ \E d \in lines : IsWildcard(d) /\ IsProperSuffix(Base(d), h)
    <2>1. IsBlocked(bl, name) <=> h \in bl.exact \/ wildcardBlocked(bl, h)
      BY DEF IsBlocked
    <2> HIDE DEF bl, h, lines
    <2> QED
      BY <2>1, <1>3, <1>4
  <1>6. Listed(D, name) <=> \E d \in lines : IF IsWildcard(d) THEN IsProperSuffix(Base(d), h)
                                             ELSE d = h
    BY DEF Listed, Matches
  <1> QED
    BY <1>5, <1>6

-----------------------------------------------------------------------------
(* Requests, their records and the shutdown. *)

Elements(s) == {s[i] : i \in 1..Len(s)}
Unique(s) == \A i, j \in 1..Len(s) : s[i] = s[j] => i = j

\* A request is looked up under a host that was asked for.
HostInv == \A r \in Reqs : at[r] = "route" => host[r] \in Hosts

Done == {r \in Reqs : at[r] = "done" /\ HasSender}

RecordInv ==
  /\ Unique(ch)
  /\ Done = Elements(ch) \cup held \cup written \cup lost \cup dropped
  /\ Elements(ch) \cap (held \cup written \cup lost \cup dropped) = {}
  /\ held \cap (written \cup lost \cup dropped) = {}
  /\ written \cap (lost \cup dropped) = {}
  /\ lost \cap dropped = {}
  /\ held # {} => drainAt \in {"write", "flushWrite"}

\* The requests whose record the flush must not miss.
Kept == {r \in Reqs : via[r] = "plain" /\ r \notin late}

FlushInv ==
  /\ mainAt \in {"close", "exit"} => \A r \in Kept : at[r] \in Ended
  /\ stop => mainAt \in {"close", "exit"}
  /\ drainAt \in {"flush", "flushWrite", "done"} => stop
  /\ drainAt = "done" => Kept \cap (Elements(ch) \cup held) = {}
  /\ mainAt = "exit" => drainAt \in {"done", "nil"}

IInv == TypeOK /\ HostInv /\ RecordInv /\ FlushInv

-----------------------------------------------------------------------------
(* The queue.                                                              *)

\* Appending adds one element, and keeps a queue of distinct elements so.
LEMMA AppendElements ==
  ASSUME NEW S, NEW s \in Seq(S), NEW e \in S
  PROVE  /\ Append(s, e) \in Seq(S) /\ Len(Append(s, e)) = Len(s) + 1
         /\ Elements(Append(s, e)) = Elements(s) \cup {e}
         /\ Unique(s) /\ e \notin Elements(s) => Unique(Append(s, e))
  <1> DEFINE t == Append(s, e)
  <1>1. t \in Seq(S) /\ Len(t) = Len(s) + 1
    OBVIOUS
  <1>2. /\ \A i \in 1..Len(s) : t[i] = s[i]
        /\ t[Len(s) + 1] = e
    OBVIOUS
  <1>3. 1..Len(t) = 1..Len(s) \cup {Len(s) + 1}
    BY <1>1
  <1> HIDE DEF t
  <1>4. Elements(t) = Elements(s) \cup {e}
    BY <1>2, <1>3 DEF Elements
  <1>5. ASSUME Unique(s), e \notin Elements(s) PROVE Unique(t)
    BY <1>1, <1>2, <1>3, <1>5 DEF Unique, Elements
  <1> QED
    BY <1>1, <1>4, <1>5 DEF t

\* Taking the head removes exactly that element.
LEMMA TailElements ==
  ASSUME NEW S, NEW s \in Seq(S), s # <<>>
  PROVE  /\ Tail(s) \in Seq(S) /\ Len(Tail(s)) = Len(s) - 1 /\ Head(s) \in S
         /\ Elements(s) = {Head(s)} \cup Elements(Tail(s))
         /\ Unique(s) => Unique(Tail(s)) /\ Head(s) \notin Elements(Tail(s))
  <1> DEFINE t == Tail(s)
  <1>1. t \in Seq(S) /\ Len(t) = Len(s) - 1 /\ Len(s) \in Nat \ {0}
    OBVIOUS
  <1>2. /\ \A i \in 1..Len(t) : t[i] = s[i + 1]
        /\ Head(s) = s[1] /\ Head(s) \in S
    OBVIOUS
  <1> HIDE DEF t
  <1>3. Elements(s) \subseteq {Head(s)} \cup Elements(t)
    <2> SUFFICES ASSUME NEW i \in 1..Len(s), i # 1 PROVE s[i] \in Elements(t)
      BY <1>2 DEF Elements
    <2>1. i - 1 \in 1..Len(t) /\ t[i - 1] = s[i]
      BY <1>1, <1>2
    <2> QED
      BY <2>1 DEF Elements
  <1>4. {Head(s)} \cup Elements(t) \subseteq Elements(s)
    <2>1. 1 \in 1..Len(s) /\ \A i \in 1..Len(t) : i + 1 \in 1..Len(s)
      BY <1>1
    <2> QED
      BY <2>1, <1>2 DEF Elements
  <1>5. ASSUME Unique(s) PROVE Unique(t) /\ Head(s) \notin Elements(t)
    <2>1. \A i \in 1..Len(t) : i + 1 \in 1..Len(s) /\ i + 1 # 1 /\ 1 \in 1..Len(s)
      BY <1>1
    <2>2. Unique(t)
      BY <2>1, <1>1, <1>2, <1>5 DEF Unique
    <2>3. Head(s) \notin Elements(t)
      BY <2>1, <1>2, <1>5 DEF Unique, Elements
    <2> QED
      BY <2>2, <2>3
  <1> QED
    BY <1>1, <1>2, <1>3, <1>4, <1>5 DEF t

-----------------------------------------------------------------------------
(* The steps that leave the sender alone, and those that leave the rest.   *)

ServerStep(r) ==
  \/ \E h \in Hosts : Arrive(r, "plain", h) \/ Arrive(r, "tunnel", h)
  \/ ServeLocal(r) \/ CheckBlocklist(r) \/ ProxyEnds(r) \/ Upgrade(r) \/ AbortHandler(r)

\* The initial state is as the invariant says.
LEMMA InitOK == Init => IInv
  <1> SUFFICES ASSUME Init PROVE IInv
    OBVIOUS
  <1>0. ch = <<>> /\ Len(ch) = 0 /\ ch \in Seq(Records) /\ 1..Len(ch) = {}
    BY DEF Init, SenderInit
  <1>1. TypeOK
    <2>1. SenderTypeOK
      <3>1. stop \in BOOLEAN /\ drainAt \in {"connect", "nil"}
        BY Zenon DEF Init, SenderInit
      <3>2. Len(ch) <= BufSize
        BY <1>0, SenderAssumption
      <3>3. held = {} /\ written = {} /\ lost = {} /\ dropped = {}
        BY DEF Init, SenderInit
      <3> QED
        BY <1>0, <3>1, <3>2, <3>3 DEF SenderTypeOK
    <2>2. /\ domains \in Lists \cup {{}} /\ late \in SUBSET Reqs
          /\ mainAt \in {"serve", "shutdown", "close", "exit"}
      BY DEF Init
    <2>3. via \in [Reqs -> {"none", "plain", "tunnel", "hijacked"}]
      BY DEF Init
    <2>4. at \in [Reqs -> {"new", "route", "proxy", "bridge", "emit"} \cup Ended]
      BY DEF Init
    <2>5. host \in [Reqs -> Hosts \cup {NoHost}]
      BY DEF Init
    <2> QED
      BY <2>1, <2>2, <2>3, <2>4, <2>5 DEF TypeOK
  <1>2. HostInv
    BY DEF Init, HostInv
  <1>3. RecordInv
    <2>1. Elements(ch) = {} /\ Unique(ch)
      BY <1>0 DEF Elements, Unique
    <2>2. Done = {}
      BY DEF Init, Done
    <2> QED
      BY <2>1, <2>2 DEF Init, SenderInit, RecordInv
  <1>4. FlushInv
    BY DEF Init, SenderInit, FlushInv
  <1> QED
    BY <1>1, <1>2, <1>3, <1>4 DEF IInv

\* What a request does before its record leaves sender, list and main alone; the
\* request moves on, never to "done", and ends where Ended says or is under way.
LEMMA ServerStepFrame ==
  ASSUME TypeOK, NEW r \in Reqs, ServerStep(r)
  PROVE  /\ UNCHANGED <<domains, mainAt, late, senderVars>>
         /\ \E there \in {"route", "proxy", "bridge", "emit", "local", "aborted", "opaque"} :
              at' = [at EXCEPT ![r] = there]
         /\ at[r] \in {"new", "route", "proxy", "bridge"}
         /\ \/ UNCHANGED via
            \/ at[r] = "new" /\ via' = [via EXCEPT ![r] = "tunnel"]
            \/ /\ at[r] = "new" /\ mainAt \in {"serve", "shutdown"}
               /\ via' = [via EXCEPT ![r] = "plain"]
            \/ via' = [via EXCEPT ![r] = "hijacked"]
         /\ \/ at'[r] # "route" /\ host' \in [Reqs -> Hosts \cup {NoHost}]
               /\ \A q \in Reqs \ {r} : host'[q] = host[q]
            \/ at'[r] = "route" /\ \E h \in Hosts : host' = [host EXCEPT ![r] = h]
  <1>1. CASE \E h \in Hosts : Arrive(r, "plain", h) \/ Arrive(r, "tunnel", h)
    BY <1>1 DEF Arrive, Step, IsNext, RequestFrame, TypeOK
  <1>2. CASE ServeLocal(r) \/ CheckBlocklist(r)
    BY <1>2 DEF ServeLocal, CheckBlocklist, Step, RequestFrame, TypeOK
  <1>3. CASE ProxyEnds(r) \/ Upgrade(r) \/ AbortHandler(r)
    BY <1>3 DEF ProxyEnds, Upgrade, AbortHandler, Step, RequestFrame, TypeOK
  <1> QED
    BY <1>1, <1>2, <1>3 DEF ServerStep

\* A request's own steps keep the invariant.
LEMMA ServerStepOK ==
  ASSUME IInv, NEW r \in Reqs, ServerStep(r)
  PROVE  IInv'
  <1>0. TypeOK /\ HostInv /\ RecordInv /\ FlushInv
    BY DEF IInv
  <1>1. /\ UNCHANGED <<domains, mainAt, late>>
        /\ UNCHANGED <<ch, stop, drainAt, held, written, lost, dropped>>
    BY <1>0, ServerStepFrame DEF senderVars
  <1>2. PICK there \in {"route", "proxy", "bridge", "emit", "local", "aborted", "opaque"} :
          at' = [at EXCEPT ![r] = there]
    BY <1>0, ServerStepFrame
  <1>3. at[r] \in {"new", "route", "proxy", "bridge"} /\ at \in [Reqs -> {"new", "route", "proxy", "bridge", "emit"} \cup Ended]
    BY <1>0, ServerStepFrame DEF TypeOK
  <1>4. \/ UNCHANGED via
        \/ at[r] = "new" /\ via' = [via EXCEPT ![r] = "tunnel"]
        \/ /\ at[r] = "new" /\ mainAt \in {"serve", "shutdown"}
           /\ via' = [via EXCEPT ![r] = "plain"]
        \/ via' = [via EXCEPT ![r] = "hijacked"]
    BY <1>0, ServerStepFrame
  <1>5. \/ at'[r] # "route" /\ host' \in [Reqs -> Hosts \cup {NoHost}]
           /\ \A q \in Reqs \ {r} : host'[q] = host[q]
        \/ at'[r] = "route" /\ \E h \in Hosts : host' = [host EXCEPT ![r] = h]
    BY <1>0, ServerStepFrame
  <1>6. TypeOK'
    BY <1>0, <1>1, <1>2, <1>4, <1>5 DEF TypeOK, SenderTypeOK, Ended
  <1>7. HostInv'
    BY <1>0, <1>2, <1>3, <1>5 DEF HostInv, TypeOK
  <1>8. RecordInv'
    <2>1. Done' = Done
      BY <1>1, <1>2, <1>3 DEF Done, HasSender
    <2> QED
      BY <1>0, <1>1, <2>1 DEF RecordInv, Elements, Unique
  <1>9. FlushInv'
    <2>1. Kept' \ {r} = Kept \ {r}
      BY <1>0, <1>1, <1>4 DEF Kept, TypeOK
    <2>2. at[r] \notin Ended /\ r \notin Done
      BY <1>3 DEF Ended, Done
    <2>3. r \notin Elements(ch) \cup held
      BY <2>2, <1>0 DEF RecordInv
    <2>4. mainAt \in {"close", "exit"} => r \notin Kept /\ r \notin Kept'
      BY <2>2, <1>0, <1>1, <1>4 DEF FlushInv, Kept, TypeOK
    <2>5. \A q \in Reqs \ {r} : at'[q] = at[q]
      BY <1>2, <1>3
    <2>6. Elements(ch)' = Elements(ch)
      BY <1>1 DEF Elements
    <2>7. Kept \subseteq Reqs /\ Kept' \subseteq Reqs
      BY DEF Kept
    <2> QED
      BY <1>0, <1>1, <2>1, <2>3, <2>4, <2>5, <2>6, <2>7 DEF FlushInv
  <1> QED
    BY <1>6, <1>7, <1>8, <1>9 DEF IInv

\* The record of a request enters the queue once, or is dropped; behind the end
\* of the flush it can only be one of a tunnel, an upgrade or a late request.
LEMMA EmitLogOK ==
  ASSUME IInv, NEW r \in Reqs, EmitLog(r)
  PROVE  IInv'
  <1>0. TypeOK /\ HostInv /\ RecordInv /\ FlushInv
    BY DEF IInv
  <1>1. /\ at[r] = "emit" /\ at' = [at EXCEPT ![r] = "done"]
        /\ UNCHANGED <<domains, mainAt, late, via, host, stop, drainAt, held, written, lost>>
    BY DEF EmitLog, Step, Send, RequestFrame, senderVars
  <1>2. /\ r \in Records /\ ch \in Seq(Records) /\ Len(ch) \in Nat /\ BufSize \in Nat
        /\ at \in [Reqs -> {"new", "route", "proxy", "bridge", "emit"} \cup Ended]
    BY <1>0, ProxyServerAssumption, SenderAssumption DEF TypeOK, SenderTypeOK, Reqs
  <1>3. /\ r \notin Done
        /\ Done' = IF HasSender THEN Done \cup {r} ELSE Done
    BY <1>1, <1>2 DEF Done, HasSender
  <1>4. \/ /\ HasSender
           /\ Len(ch) < BufSize /\ ch' = Append(ch, r) /\ dropped' = dropped
           /\ Elements(ch)' = Elements(ch) \cup {r}
        \/ /\ HasSender
           /\ ch' = ch /\ dropped' = dropped \cup {r} /\ Elements(ch)' = Elements(ch)
        \/ ~HasSender /\ ch' = ch /\ dropped' = dropped /\ Elements(ch)' = Elements(ch)
    BY <1>2, AppendElements DEF EmitLog, Send, Elements, senderVars
  <1>5. r \notin Elements(ch) \cup held \cup written \cup lost \cup dropped
    BY <1>0, <1>3 DEF RecordInv
  <1>6. ch' \in Seq(Records) /\ Len(ch') <= BufSize /\ Unique(ch')
    <2>1. CASE Len(ch) < BufSize /\ ch' = Append(ch, r)
      BY <2>1, <1>0, <1>2, <1>5, AppendElements DEF RecordInv
    <2>2. CASE ch' = ch
      BY <2>2, <1>0 DEF RecordInv, TypeOK, SenderTypeOK
    <2> QED
      BY <2>1, <2>2, <1>4
  <1>7. TypeOK'
    BY <1>0, <1>1, <1>2, <1>4, <1>6 DEF TypeOK, SenderTypeOK, Ended
  <1>8. HostInv'
    BY <1>0, <1>1, <1>2 DEF HostInv
  <1>9. RecordInv'
    <2>1. Unique(ch)'
      BY <1>6 DEF Unique
    <2> QED
      BY <1>0, <1>1, <1>3, <1>4, <1>5, <2>1 DEF RecordInv
  <1>10. FlushInv'
    <2>1. Kept' = Kept /\ Kept \subseteq Reqs
      BY <1>1 DEF Kept
    <2>2. \A q \in Reqs : at[q] \in Ended => at'[q] \in Ended
      BY <1>1, <1>2 DEF Ended
    <2>3. mainAt \in {"close", "exit"} => r \notin Kept
      BY <1>0, <1>1 DEF FlushInv, Ended
    <2>4. Elements(ch)' \subseteq Elements(ch) \cup {r}
      BY <1>4
    <2> QED
      BY <1>0, <1>1, <2>1, <2>2, <2>3, <2>4 DEF FlushInv
  <1> QED
    BY <1>7, <1>8, <1>9, <1>10 DEF IInv

\* What drain does keeps the invariant: it moves one record at a time, and ends
\* only with an empty queue and an empty hand.
LEMMA DrainOK ==
  ASSUME IInv, DrainStep
  PROVE  IInv'
  <1>0. TypeOK /\ HostInv /\ RecordInv /\ FlushInv
    BY DEF IInv
  <1>1. UNCHANGED <<domains, via, at, host, mainAt, late>>
    BY DEF DrainStep, serverVars
  <1>2. Done' = Done /\ Kept' = Kept /\ HostInv'
    <2>1. HasSender /\ HasSender'
      BY DEF DrainStep, Drain, FirstConnect, TakeRecord, WriteRecord, SeeStop, EndFlush,
             HasSender
    <2> QED
      BY <1>0, <1>1, <2>1 DEF Done, Kept, HostInv
  <1>3. ch \in Seq(Records) /\ Len(ch) <= BufSize /\ BufSize \in Nat /\ Len(ch) \in Nat
    BY <1>0, SenderAssumption DEF TypeOK, SenderTypeOK
  <1>4. CASE FirstConnect \/ SeeStop
    <2>1. UNCHANGED <<ch, stop, held, written, lost, dropped>>
      BY <1>4 DEF FirstConnect, SeeStop
    <2>2. /\ drainAt \in {"connect", "select"} /\ drainAt' \in {"select", "flush"}
          /\ drainAt' = "flush" => stop
      BY <1>4 DEF FirstConnect, SeeStop
    <2>3. Elements(ch)' = Elements(ch) /\ Unique(ch)' = Unique(ch)
      BY <2>1 DEF Elements, Unique
    <2>4. TypeOK'
      BY <1>0, <1>1, <2>1, <2>2 DEF TypeOK, SenderTypeOK
    <2>5. RecordInv'
      BY <1>0, <1>2, <2>1, <2>2, <2>3 DEF RecordInv
    <2>6. FlushInv'
      BY <1>0, <1>1, <1>2, <2>1, <2>2 DEF FlushInv
    <2> QED
      BY <1>2, <2>4, <2>5, <2>6 DEF IInv
  <1>5. CASE TakeRecord
    <2>1. /\ ch # <<>> /\ held' = {Head(ch)} /\ ch' = Tail(ch)
          /\ \/ drainAt = "select" /\ drainAt' = "write"
             \/ drainAt = "flush" /\ drainAt' = "flushWrite"
          /\ UNCHANGED <<stop, written, lost, dropped>>
      BY <1>5 DEF TakeRecord
    <2>2. /\ Tail(ch) \in Seq(Records) /\ Len(Tail(ch)) = Len(ch) - 1 /\ Head(ch) \in Records
          /\ Elements(ch) = {Head(ch)} \cup Elements(Tail(ch))
          /\ Unique(Tail(ch)) /\ Head(ch) \notin Elements(Tail(ch))
      BY <1>0, <1>3, <2>1, TailElements DEF RecordInv
    <2>3. Elements(ch)' = Elements(Tail(ch)) /\ Unique(ch)' /\ held = {}
      BY <1>0, <2>1, <2>2 DEF Elements, Unique, RecordInv
    <2>4. TypeOK'
      BY <1>0, <1>1, <1>3, <2>1, <2>2 DEF TypeOK, SenderTypeOK
    <2>5. RecordInv'
      BY <1>0, <1>2, <2>1, <2>2, <2>3 DEF RecordInv
    <2>6. FlushInv'
      BY <1>0, <1>1, <1>2, <2>1 DEF FlushInv
    <2> QED
      BY <1>2, <2>4, <2>5, <2>6 DEF IInv
  <1>6. CASE WriteRecord
    <2>1. /\ \/ written' = written \cup held /\ lost' = lost
             \/ lost' = lost \cup held /\ written' = written
          /\ held' = {}
          /\ \/ drainAt = "write" /\ drainAt' = "select"
             \/ drainAt = "flushWrite" /\ drainAt' = "flush"
          /\ UNCHANGED <<ch, stop, dropped>>
      BY <1>6 DEF WriteRecord
    <2>2. Elements(ch)' = Elements(ch) /\ Unique(ch)' = Unique(ch)
      BY <2>1 DEF Elements, Unique
    <2>3. TypeOK'
      BY <1>0, <1>1, <2>1 DEF TypeOK, SenderTypeOK
    <2>4. RecordInv'
      BY <1>0, <1>2, <2>1, <2>2 DEF RecordInv
    <2>5. FlushInv'
      BY <1>0, <1>1, <1>2, <2>1 DEF FlushInv
    <2> QED
      BY <1>2, <2>3, <2>4, <2>5 DEF IInv
  <1>7. CASE EndFlush
    <2>1. /\ drainAt = "flush" /\ drainAt' = "done" /\ ch = <<>>
          /\ UNCHANGED <<ch, stop, held, written, lost, dropped>>
      BY <1>7 DEF EndFlush
    <2>2. Elements(ch)' = Elements(ch) /\ Unique(ch)' = Unique(ch) /\ held = {}
      BY <1>0, <2>1 DEF Elements, Unique, RecordInv
    <2>3. Elements(ch) = {}
      BY <2>1 DEF Elements
    <2>4. TypeOK'
      BY <1>0, <1>1, <2>1 DEF TypeOK, SenderTypeOK
    <2>5. RecordInv'
      BY <1>0, <1>2, <2>1, <2>2 DEF RecordInv
    <2>6. FlushInv'
      BY <1>0, <1>1, <1>2, <2>1, <2>2, <2>3 DEF FlushInv
    <2> QED
      BY <1>2, <2>4, <2>5, <2>6 DEF IInv
  <1> QED
    BY <1>4, <1>5, <1>6, <1>7 DEF DrainStep, Drain

\* main keeps it: what Shutdown stops waiting for becomes late.
LEMMA MainOK ==
  ASSUME IInv, Main
  PROVE  IInv'
  <1>0. TypeOK /\ HostInv /\ RecordInv /\ FlushInv
    BY DEF IInv
  <1>1. UNCHANGED <<domains, via, at, host, ch, drainAt, held, written, lost, dropped>>
    BY DEF Main, Signal, Shutdown, CloseSender, Exit, CloseStop, CloseReturns, MainFrame,
           senderVars
  <1>2. HostInv' /\ Done' = Done /\ Elements(ch)' = Elements(ch) /\ Unique(ch)' = Unique(ch)
    BY <1>0, <1>1 DEF HostInv, Done, HasSender, Elements, Unique
  <1>3. RecordInv'
    BY <1>0, <1>1, <1>2 DEF RecordInv
  <1>4. TypeOK' /\ FlushInv'
    <2>1. CASE Signal
      <3>1. mainAt = "serve" /\ mainAt' = "shutdown" /\ UNCHANGED <<late, stop>>
        BY <2>1 DEF Signal, senderVars
      <3>2. Kept' = Kept
        BY <1>1, <3>1 DEF Kept
      <3> QED
        BY <1>0, <1>1, <1>2, <3>1, <3>2 DEF TypeOK, SenderTypeOK, FlushInv
    <2>2. CASE Shutdown
      <3>1. /\ mainAt = "shutdown" /\ mainAt' = "close" /\ stop' = stop
            /\ late' = {r \in Reqs : Waited(r)}
        BY <2>2 DEF Shutdown, senderVars
      <3>2. \A r \in Kept' : at[r] \in Ended
        BY <1>1, <3>1 DEF Kept, Waited
      <3>3. ~stop /\ drainAt # "done"
        BY <1>0, <3>1 DEF FlushInv
      <3>4. TypeOK'
        BY <1>0, <1>1, <3>1 DEF TypeOK, SenderTypeOK
      <3> QED
        BY <1>0, <1>1, <3>1, <3>2, <3>3, <3>4 DEF FlushInv
    <2>3. CASE CloseSender
      <3>1. mainAt = "close" /\ mainAt' = mainAt /\ stop' = TRUE /\ late' = late
        BY <2>3 DEF CloseSender, CloseStop
      <3>2. Kept' = Kept
        BY <1>1, <3>1 DEF Kept
      <3> QED
        BY <1>0, <1>1, <1>2, <3>1, <3>2 DEF TypeOK, SenderTypeOK, FlushInv
    <2>4. CASE Exit
      <3>1. /\ mainAt = "close" /\ mainAt' = "exit" /\ stop' = stop /\ late' = late
            /\ drainAt \in {"done", "nil"}
        BY <2>4 DEF Exit, CloseReturns, HasSender, senderVars
      <3>2. Kept' = Kept
        BY <1>1, <3>1 DEF Kept
      <3> QED
        BY <1>0, <1>1, <1>2, <3>1, <3>2 DEF TypeOK, SenderTypeOK, FlushInv
    <2> QED
      BY <2>1, <2>2, <2>3, <2>4 DEF Main
  <1> QED
    BY <1>2, <1>3, <1>4 DEF IInv

-----------------------------------------------------------------------------
(* The theorems.                                                           *)

\* The invariant holds in every reachable state.
THEOREM Invariance == Spec => []IInv
  <1>1. IInv /\ [Next]_vars => IInv'
    <2> SUFFICES ASSUME IInv, [Next]_vars PROVE IInv'
      OBVIOUS
    <2>1. CASE \E r \in Reqs : Request(r)
      <3>1. PICK r \in Reqs : ServerStep(r) \/ EmitLog(r)
        BY <2>1 DEF Request, ServerStep
      <3> QED
        BY <3>1, ServerStepOK, EmitLogOK
    <2>2. CASE LoadBlocklist
      <3>1. /\ domains' \in Lists
            /\ UNCHANGED <<via, at, host, mainAt, late, ch, stop, drainAt, held, written,
                           lost, dropped>>
        BY <2>2 DEF LoadBlocklist, senderVars
      <3> QED
        BY <3>1 DEF IInv, TypeOK, SenderTypeOK, HostInv, RecordInv, FlushInv, Done, Kept,
                    HasSender, Elements, Unique
    <2>3. CASE Main
      BY <2>3, MainOK
    <2>4. CASE DrainStep
      BY <2>4, DrainOK
    <2>5. CASE UNCHANGED vars
      <3>1. UNCHANGED <<domains, via, at, host, mainAt, late, ch, stop, drainAt, held,
                        written, lost, dropped>>
        BY <2>5 DEF vars, serverVars, senderVars
      <3> QED
        BY <3>1 DEF IInv, TypeOK, SenderTypeOK, HostInv, RecordInv, FlushInv, Done,
                    HasSender, Kept, Elements, Unique
    <2> QED
      BY <2>1, <2>2, <2>3, <2>4, <2>5 DEF Next
  <1> QED
    BY <1>1, InitOK, PTL DEF Spec

\* With a sender, every request whose handler came to its end has exactly one record
\* between Send and the syslog server; no request has two, or one too early.
THEOREM ExactlyOneRecord == Spec => []OneRecord
  <1>1. IInv => OneRecord
    <2> SUFFICES ASSUME IInv, NEW r \in Reqs
                 PROVE  /\ Copies(r) <= 1
                        /\ at[r] = "done" /\ HasSender => Copies(r) = 1
                        /\ at[r] \notin Ended \/ at[r] = "local" => Copies(r) = 0
      BY DEF OneRecord
    <2> DEFINE queued == {i \in 1..Len(ch) : ch[i] = r}
    <2>1. queued # {} <=> r \in Elements(ch)
      BY DEF Elements
    <2>2. ~ \E i, j \in queued : i # j
      BY DEF IInv, RecordInv, Unique
    <2>3. at[r] = "done" /\ HasSender <=> r \in Done
      BY DEF Done
    <2>4. Copies(r) = (IF r \in Elements(ch) THEN 1 ELSE 0) + (IF r \in held THEN 1 ELSE 0)
                      + (IF r \in written THEN 1 ELSE 0) + (IF r \in lost THEN 1 ELSE 0)
                      + (IF r \in dropped THEN 1 ELSE 0)
      BY <2>1, <2>2 DEF Copies
    <2>5. Copies(r) = IF r \in Done THEN 1 ELSE 0
      BY <2>4 DEF IInv, RecordInv
    <2>6. at[r] \notin Ended \/ at[r] = "local" => r \notin Done
      BY DEF Done, Ended
    <2> QED
      BY <2>3, <2>5, <2>6
  <1> QED
    BY <1>1, Invariance, PTL

\* The flush misses no record of a request that Shutdown waited for.
THEOREM FlushIsComplete == Spec => []ServedAreFlushed
  <1>1. IInv => ServedAreFlushed
    <2> SUFFICES ASSUME IInv, mainAt = "exit", HasSender, NEW r \in Reqs, at[r] = "done",
                        via[r] = "plain", r \notin late
                 PROVE  r \in written \cup lost \cup dropped
      BY DEF ServedAreFlushed
    <2>1. r \in Kept /\ r \in Done
      BY DEF Kept, Done
    <2>2. drainAt = "done"
      BY DEF IInv, FlushInv, HasSender
    <2> QED
      BY <2>1, <2>2 DEF IInv, RecordInv, FlushInv
  <1> QED
    BY <1>1, Invariance, PTL

\* A request is refused exactly if its host is on the list in force, for every
\* list and host: the walk of the trie is right (BlockedIffListed).
THEOREM RefusesTheListed == Spec => RefusedIffListed
  <1>1. IInv /\ [Next]_vars
          => [\A r \in Reqs : at[r] = "route" /\ at'[r] \in {"emit", "proxy"}
                => (at'[r] = "emit" <=> Listed(domains, host[r]))]_vars
    <2> SUFFICES ASSUME IInv, Next, NEW r \in Reqs, at[r] = "route",
                        at'[r] \in {"emit", "proxy"}
                 PROVE  at'[r] = "emit" <=> Listed(domains, host[r])
      OBVIOUS
    <2>0. at \in [Reqs -> {"new", "route", "proxy", "bridge", "emit"} \cup Ended]
      BY DEF IInv, TypeOK
    <2>1. at' # at
      BY <2>0
    <2>2. PICK q \in Reqs : Request(q)
      BY <2>1 DEF Next, LoadBlocklist, Main, Signal, Shutdown, CloseSender, Exit, MainFrame,
                  DrainStep, serverVars
    <2>3. q = r
      <3>1. \E there : at' = [at EXCEPT ![q] = there]
        BY <2>2 DEF Request, Arrive, ServeLocal, CheckBlocklist, ProxyEnds, Upgrade,
                    AbortHandler, EmitLog, Step
      <3> QED
        BY <3>1, <2>0
    <2>4. CheckBlocklist(r)
      BY <2>0, <2>2, <2>3 DEF Request, Arrive, ServeLocal, ProxyEnds, Upgrade, AbortHandler,
                              EmitLog, Step, IsNext
    <2>5. at'[r] = "emit" <=> Refused(r)
      BY <2>0, <2>4 DEF CheckBlocklist, Step
    <2>6. domains \in SUBSET Domains /\ host[r] \in Domains
      BY ProxyServerAssumption DEF IInv, TypeOK, HostInv
    <2> QED
      BY <2>5, <2>6, BlockedIffListed DEF Refused
  <1> QED
    BY <1>1, Invariance, PTL DEF Spec, RefusedIffListed

=============================================================================
