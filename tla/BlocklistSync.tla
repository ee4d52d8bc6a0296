--------------------------- MODULE BlocklistSync ---------------------------
(***************************************************************************)
(* How a change of the blocklist reaches the proxy.  The API server        *)
(* commits it to PostgreSQL, then updates a Redis set and publishes a      *)
(* notification (internal/api/blocklist.go); the proxy loads the set,      *)
(* subscribes, and loads it again at each notification                     *)
(* (internal/proxy/blocklist_sync.go).  The three stores are updated one   *)
(* after the other and nothing undoes a step when the next one fails.      *)
(*                                                                         *)
(* Two history variables record every event after which a store may stay   *)
(* behind: skew for Redis against PostgreSQL, stale for the proxy's list   *)
(* against Redis.  The audit rows, written in the same transaction as the  *)
(* entry, are left out.                                                    *)
(***************************************************************************)
EXTENDS Integers

CONSTANTS Domains,  \* the domains of the blocklist
          Reqs,     \* API requests under way at once
          MaxOps    \* bound: changes, crashes and disconnections

ASSUME BlocklistSyncAssumption == MaxOps \in Nat

VARIABLES
  pg,     \* blocklist_entries: each domain absent, enabled or disabled
  rset,   \* the Redis set blocklist:domains
  apc,    \* the API server: down, in syncToRedis, or serving
  snap,   \* the enabled domains syncToRedis has read
  qpc,    \* where each request is
  qdom,   \* its domain
  qadd,   \* it does SADD (SREM otherwise)
  ppc,    \* the proxy's sync goroutine
  list,   \* Server.blocklist, as the set it was built from
  note,   \* a notification waits in the subscription's channel
  skew,   \* history: domains whose update of Redis failed or may be reordered
  stale,  \* history: a change was not announced to the proxy since its last load
  ops

pgVars    == <<pg>>
apiVars   == <<apc, snap, qpc, qdom, qadd>>
proxyVars == <<ppc, list, note>>
vars == <<pgVars, rset, apiVars, proxyVars, skew, stale, ops>>

Enabled == {d \in Domains : pg[d] = "enabled"}

\* The API server and the proxy start, Redis holding whatever was left in it.
Init ==
  /\ pg \in [Domains -> {"absent", "enabled", "disabled"}]
  /\ rset \in SUBSET Domains
  /\ apc = "down" /\ snap = {}
  /\ qpc = [q \in Reqs |-> "idle"]
  /\ qdom \in [Reqs -> Domains] /\ qadd = [q \in Reqs |-> FALSE]
  /\ ppc = "load" /\ list = {} /\ note = FALSE
  /\ skew = {d \in Domains : ~(d \in rset <=> pg[d] = "enabled")}
  /\ stale = FALSE /\ ops = 0

Count == ops < MaxOps /\ ops' = ops + 1

-----------------------------------------------------------------------------
(* Publish: delivered if the proxy is subscribed, lost otherwise.          *)
Subscribed == ppc \in {"loop", "reload"}

Publish == IF Subscribed THEN note' = TRUE /\ UNCHANGED stale
                         ELSE stale' = TRUE /\ UNCHANGED note

-----------------------------------------------------------------------------
(* Requests.  The transaction of Add, Update and Remove commits in one     *)
(* step; a request on an unknown or duplicate domain, or that only changes *)
(* a comment, leaves all stores as they are.                               *)

\* Another request on d has committed and not yet reached Redis.
Overtaken(q, d) == \E r \in Reqs \ {q} : qpc[r] = "push" /\ qdom[r] = d

Commit(q, d, row, add) ==
  /\ apc = "serving" /\ qpc[q] = "idle"
  /\ pg' = [pg EXCEPT ![d] = row]
  /\ qpc' = [qpc EXCEPT ![q] = "push"]
  /\ qdom' = [qdom EXCEPT ![q] = d] /\ qadd' = [qadd EXCEPT ![q] = add]
  /\ skew' = IF Overtaken(q, d) THEN skew \cup {d} ELSE skew
  /\ Count
  /\ UNCHANGED <<rset, apc, snap, proxyVars, stale>>

Add(q, d)     == pg[d] = "absent" /\ Commit(q, d, "enabled", TRUE)
Enable(q, d)  == pg[d] # "absent" /\ Commit(q, d, "enabled", TRUE)

\* Variant: disabling an entry adds it to the Redis set like enabling it.
DisableAdds(q, d) == pg[d] # "absent" /\ Commit(q, d, "disabled", TRUE)

Disable(q, d) == pg[d] # "absent" /\ Commit(q, d, "disabled", FALSE)
Remove(q, d)  == pg[d] # "absent" /\ Commit(q, d, "absent", FALSE)

\* Variant: a domain already in the set is taken for announced.
PushQuietly(q) ==
  /\ qpc[q] = "push"
  /\ rset' = IF qadd[q] THEN rset \cup {qdom[q]} ELSE rset \ {qdom[q]}
  /\ qpc' = [qpc EXCEPT ![q] = IF qadd[q] THEN "idle" ELSE "announce"]
  /\ UNCHANGED <<pgVars, apc, snap, qdom, qadd, proxyVars, skew, stale, ops>>

\* The pipeline: SADD or SREM, then PUBLISH.
Push(q) ==
  /\ qpc[q] = "push"
  /\ rset' = IF qadd[q] THEN rset \cup {qdom[q]} ELSE rset \ {qdom[q]}
  /\ qpc' = [qpc EXCEPT ![q] = "announce"]
  /\ UNCHANGED <<pgVars, apc, snap, qdom, qadd, proxyVars, skew, stale, ops>>

Announce(q) ==
  /\ qpc[q] = "announce"
  /\ qpc' = [qpc EXCEPT ![q] = "idle"]
  /\ Publish
  /\ UNCHANGED <<pgVars, rset, apc, snap, qdom, qadd, ppc, list, skew, ops>>

\* The pipeline fails before its first or its second command: the request
\* succeeds all the same, with a warning in the log.
PipelineFails(q) ==
  /\ qpc[q] \in {"push", "announce"}
  /\ qpc' = [qpc EXCEPT ![q] = "idle"]
  /\ skew' = IF qpc[q] = "push" THEN skew \cup {qdom[q]} ELSE skew
  /\ stale' = (stale \/ qpc[q] = "announce")
  /\ Count
  /\ UNCHANGED <<pgVars, rset, apc, snap, qdom, qadd, proxyVars>>

-----------------------------------------------------------------------------
(* The API server starts, and syncToRedis rebuilds the set.                *)
SyncRead ==
  /\ apc = "down"
  /\ snap' = Enabled
  /\ apc' = "del"
  /\ UNCHANGED <<pgVars, rset, qpc, qdom, qadd, proxyVars, skew, stale, ops>>

SyncDel ==
  /\ apc = "del"
  /\ rset' = {} /\ apc' = "sadd"
  /\ UNCHANGED <<pgVars, snap, qpc, qdom, qadd, proxyVars, skew, stale, ops>>

SyncAdd ==
  /\ apc = "sadd"
  /\ rset' = rset \cup snap /\ skew' = {}
  /\ apc' = "publish"
  /\ UNCHANGED <<pgVars, snap, qpc, qdom, qadd, proxyVars, stale, ops>>

SyncPublish ==
  /\ apc = "publish"
  /\ Publish
  /\ apc' = "serving"
  /\ UNCHANGED <<pgVars, rset, snap, qpc, qdom, qadd, ppc, list, skew, ops>>

\* The query or a command of the sync fails: "non-fatal", the server serves.
SyncFails ==
  /\ apc \in {"down", "del", "sadd", "publish"}
  /\ apc' = "serving"
  /\ skew' = IF apc = "sadd" THEN Domains ELSE skew
  /\ stale' = (stale \/ apc \in {"sadd", "publish"})
  /\ Count
  /\ UNCHANGED <<pgVars, rset, snap, qpc, qdom, qadd, proxyVars>>

\* The server stops anywhere; what was under way never reaches Redis.
ApiCrash ==
  /\ apc # "down"
  /\ apc' = "down"
  /\ qpc' = [q \in Reqs |-> "idle"]
  /\ skew' = skew \cup (IF apc = "sadd" THEN Domains ELSE {})
                  \cup {qdom[q] : q \in {r \in Reqs : qpc[r] = "push"}}
  /\ stale' = (stale \/ apc \in {"sadd", "publish"} \/ \E q \in Reqs : qpc[q] = "announce")
  /\ Count
  /\ UNCHANGED <<pgVars, rset, snap, qdom, qadd, proxyVars>>

-----------------------------------------------------------------------------
(* The proxy.                                                              *)

\* load: SMEMBERS and the swap of the list, or a warning and the old list.
Load ==
  \/ list' = rset /\ stale' = FALSE /\ UNCHANGED ops
  \/ Count /\ stale' = TRUE /\ UNCHANGED list

\* The load that precedes each Subscribe, at start and after a backoff.
FirstLoad ==
  /\ ppc = "load"
  /\ Load
  /\ ppc' = "subscribe"
  /\ UNCHANGED <<pgVars, rset, apiVars, note, skew>>

Subscribe ==
  /\ ppc = "subscribe"
  /\ ppc' = "loop"
  /\ UNCHANGED <<pgVars, rset, apiVars, list, note, skew, stale, ops>>

TakeNote ==
  /\ ppc = "loop" /\ note
  /\ note' = FALSE /\ ppc' = "reload"
  /\ UNCHANGED <<pgVars, rset, apiVars, list, skew, stale, ops>>

Reload ==
  /\ ppc = "reload"
  /\ Load
  /\ ppc' = "loop"
  /\ UNCHANGED <<pgVars, rset, apiVars, note, skew>>

\* The channel closes: back off, load, subscribe anew.
Disconnect ==
  /\ ppc = "loop"
  /\ ppc' = "load" /\ note' = FALSE
  /\ Count
  /\ UNCHANGED <<pgVars, rset, apiVars, list, skew, stale>>

ProxyRestart ==
  /\ ppc' = "load" /\ note' = FALSE /\ list' = {}
  /\ Count
  /\ UNCHANGED <<pgVars, rset, apiVars, skew, stale>>

-----------------------------------------------------------------------------
ApiStep   == SyncRead \/ SyncDel \/ SyncAdd \/ SyncPublish
ReqStep(q) == Push(q) \/ Announce(q)
ProxyStep == FirstLoad \/ Subscribe \/ TakeNote \/ Reload

Next ==
  \/ \E q \in Reqs, d \in Domains : Add(q, d) \/ Enable(q, d) \/ Disable(q, d) \/ Remove(q, d)
  \/ \E q \in Reqs : ReqStep(q) \/ PipelineFails(q)
  \/ ApiStep \/ SyncFails \/ ApiCrash
  \/ ProxyStep \/ Disconnect \/ ProxyRestart

\* The servers keep running what they have begun: no fairness on requests
\* arriving, on failures or on restarts.
Fairness == /\ WF_vars(ApiStep) /\ WF_vars(ProxyStep)
            /\ \A q \in Reqs : WF_vars(ReqStep(q))

Spec == Init /\ [][Next]_vars /\ Fairness

-----------------------------------------------------------------------------
(* Properties.                                                             *)

\* Redis holds exactly the enabled domains of PostgreSQL, up to the requests
\* under way on a domain, the rebuild at start, and the domains for which a
\* pipeline failed, a crash intervened or two requests overlapped.
RedisFollowsPG ==
  \A d \in Domains \ skew :
    \/ \E q \in Reqs : qpc[q] = "push" /\ qdom[q] = d
    \/ apc = "sadd"
    \/ d \in rset <=> pg[d] = "enabled"

\* A change that Redis holds is being announced.
Announcing == apc \in {"sadd", "publish"} \/ \E q \in Reqs : qpc[q] = "announce"

\* A subscribed proxy never enforces an outdated list silently: a notification
\* waits, one is about to be published, or an announcement or a load was lost.
NoSilentStaleness ==
  ppc = "loop" /\ list # rset => note \/ Announcing \/ stale

\* Unless an announcement is lost, the proxy comes to enforce what Redis holds.
ListCatchesUp == (list # rset /\ ~stale) ~> (list = rset \/ stale)

=============================================================================
