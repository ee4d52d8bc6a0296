---------------------------- MODULE VerdictStore ----------------------------
(***************************************************************************)
(* What the result cache promises to its callers (scan/cache.go), without  *)
(* saying how: it remembers verdicts it was given for a URL and a content  *)
(* hash, may forget any of them at any time, and answers a lookup either   *)
(* with "miss" or with a verdict recorded for the very key asked, less     *)
(* than two lifetimes ago.  (Two: a verdict may be copied from Redis to    *)
(* memory just before it expires, and the copy gets a full lifetime.)      *)
(***************************************************************************)
EXTENDS Integers

CONSTANTS Keys,  \* keys of each of the two maps
          TTL    \* lifetime of the entries of each map

VARIABLES known,   \* the verdicts that can still be answered
          now,     \* the clock
          answer   \* what the last step answered, Miss if it answered nothing

Verdicts == {"clean", "infected"}
Maps == {"url", "hash"}

\* A verdict v known for key k of map m since time b.
Fact(m, k, v, b) == [map |-> m, key |-> k, verdict |-> v, born |-> b]

Miss == [map |-> "url", key |-> "none", verdict |-> "miss", born |-> 0]

Init == known = {} /\ now = 0 /\ answer = Miss

\* What is known once verdict v is recorded for URL u and content hash h.
Facts(u, h, v) == {Fact("url", u, v, now), Fact("hash", h, v, now)}

\* What a lookup of key k in map m may answer.
Answers(m, k) ==
  {Miss} \cup {f \in known : f.map = m /\ f.key = k /\ now - f.born < 2 * TTL[m]}

Record(u, h, v) ==
  /\ known' = known \cup Facts(u, h, v)
  /\ answer' = Miss /\ UNCHANGED now

Forget ==
  /\ known' \subseteq known
  /\ answer' = Miss /\ UNCHANGED now

Lookup ==
  /\ known' \subseteq known
  /\ answer' \in UNION {Answers(m, k) : m \in Maps, k \in Keys}
  /\ UNCHANGED now

Advance == now' = now + 1 /\ answer' = Miss /\ UNCHANGED known

Next == \/ \E u, h \in Keys, v \in Verdicts : Record(u, h, v)
        \/ Forget \/ Lookup \/ Advance

Spec == Init /\ [][Next]_<<known, now, answer>>

=============================================================================
