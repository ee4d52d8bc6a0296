----------------------------- MODULE Blocklist -----------------------------
(***************************************************************************)
(* Matching a host against the blocklist (internal/proxy/blocklist.go): a  *)
(* set of exact domains and a trie of wildcard patterns, walked from the   *)
(* top-level domain inward.  A domain is the sequence of its labels in     *)
(* written order, a node of the trie the path of labels that leads to it.  *)
(* Lower is strings.ToLower on one label.                                  *)
(***************************************************************************)
EXTENDS Integers, Sequences

CONSTANTS Labels,  \* the labels domains are made of, "*" and "" among them
          Lower    \* lower case of each

ASSUME BlocklistAssumption ==
  /\ {"*", ""} \subseteq Labels
  /\ Lower \in [Labels -> Labels]
  /\ \A l \in Labels : Lower[Lower[l]] = Lower[l]
  /\ Lower["*"] = "*" /\ Lower[""] = ""

\* strings.Split of a string never returns an empty slice.
Domains == Seq(Labels) \ {<<>>}

ToLower(d) == [i \in 1..Len(d) |-> Lower[d[i]]]

\* line == "" after trimming; HasPrefix(line, "*.") and what follows it.
IsBlank(d)    == d = <<"">>
IsWildcard(d) == d[1] = "*" /\ Len(d) > 1
Base(d)       == SubSeq(d, 2, Len(d))

\* The node reached by the first n labels of d, read from its last one.
Path(d, n) == [i \in 1..n |-> d[Len(d) + 1 - i]]

\* The "*" child of a node.
Sentinel(node) == Append(node, "*")

\* addEntry for each line: exact domains, the nodes getOrCreate leaves in the
\* trie and the ones marked terminal.  The order of the lines does not matter.
NewBlocklist(domains) ==
  LET lines == {d \in {ToLower(e) : e \in domains} : ~IsBlank(d)}
      bases == {Base(d) : d \in {e \in lines : IsWildcard(e)}}
      ends  == {Sentinel(Path(b, Len(b))) : b \in bases}
  IN  [exact    |-> {d \in lines : ~IsWildcard(d)},
       nodes    |-> ends \cup UNION {{Path(b, n) : n \in 1..Len(b)} : b \in bases},
       terminal |-> ends]

\* Variant: a wildcard covers one level of subdomains only.
wildcardBlockedOneLevel(bl, h) ==
  /\ Len(h) > 1 /\ Path(h, Len(h) - 1) \in bl.nodes
  /\ Sentinel(Path(h, Len(h) - 1)) \in bl.terminal

\* The walk stops at the first label without a node; a terminal "*" below the
\* n-th node matches if at least one label is left (i > 0).
wildcardBlocked(bl, h) ==
  \E n \in 1..(Len(h) - 1) :
    /\ \A m \in 1..n : Path(h, m) \in bl.nodes
    /\ Sentinel(Path(h, n)) \in bl.terminal

\* host without its port: SplitHostPort is applied before this.
IsBlocked(bl, host) ==
  LET h == ToLower(host) IN h \in bl.exact \/ wildcardBlocked(bl, h)

-----------------------------------------------------------------------------
(* What an entry of the list means, without the trie.                      *)

IsProperSuffix(b, h) ==
  Len(b) < Len(h) /\ b = SubSeq(h, Len(h) - Len(b) + 1, Len(h))

Matches(entry, host) ==
  LET e == ToLower(entry)
      h == ToLower(host)
  IN  /\ ~IsBlank(e)
      /\ IF IsWildcard(e) THEN IsProperSuffix(Base(e), h) ELSE e = h

Listed(domains, host) == \E e \in domains : Matches(e, host)

=============================================================================
