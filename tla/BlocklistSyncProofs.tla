------------------------- MODULE BlocklistSyncProofs -------------------------
(***************************************************************************)
(* Theorems about BlocklistSync, for any domains, requests and bound.      *)
(***************************************************************************)
EXTENDS BlocklistSync, TLAPS

RangeInv ==
  /\ pg \in [Domains -> {"absent", "enabled", "disabled"}]
  /\ rset \subseteq Domains /\ snap \subseteq Domains /\ skew \subseteq Domains
  /\ qpc \in [Reqs -> {"idle", "push", "announce"}]
  /\ qdom \in [Reqs -> Domains] /\ qadd \in [Reqs -> BOOLEAN]

\* Only a serving API has requests under way, and what syncToRedis has read
\* stays true until it is written.
SyncInv ==
  /\ apc # "serving" => \A q \in Reqs : qpc[q] = "idle"
  /\ apc \in {"del", "sadd"} => snap = Enabled
  /\ apc = "sadd" => rset = {}

\* A request that is the only one on its domain carries what PostgreSQL holds.
PushInv ==
  \A q \in Reqs : qpc[q] = "push" /\ qdom[q] \notin skew =>
    /\ qadd[q] <=> pg[qdom[q]] = "enabled"
    /\ \A r \in Reqs : qpc[r] = "push" /\ qdom[r] = qdom[q] => r = q

\* NoSilentStaleness already before the subscription.
LoadInv == ppc \in {"subscribe", "loop"} /\ list # rset => note \/ Announcing \/ stale

IInv == RangeInv /\ SyncInv /\ PushInv /\ RedisFollowsPG /\ LoadInv

-----------------------------------------------------------------------------
\* The initial states satisfy the invariant.
LEMMA InitIInv == Init => IInv
<1> SUFFICES ASSUME Init PROVE IInv
  OBVIOUS
<1>1. RangeInv /\ SyncInv
  BY DEF Init, RangeInv, SyncInv
<1>2. PushInv /\ RedisFollowsPG /\ LoadInv
  BY DEF Init, PushInv, RedisFollowsPG, LoadInv
<1> QED BY <1>1, <1>2 DEF IInv

\* A commit: the domain's other requests, if any, are in skew from now on.
LEMMA CommitKeeps ==
  ASSUME IInv, NEW q \in Reqs, NEW d \in Domains, NEW row \in {"absent", "enabled", "disabled"},
         NEW add \in BOOLEAN, add <=> row = "enabled", Commit(q, d, row, add)
  PROVE  IInv'
<1> USE DEF IInv, Commit
<1>1. RangeInv'
  BY DEF RangeInv
<1>2. SyncInv'
  BY DEF SyncInv
<1>3. PushInv'
  <2> SUFFICES ASSUME NEW r \in Reqs, qpc'[r] = "push", qdom'[r] \notin skew'
               PROVE  /\ qadd'[r] <=> pg'[qdom'[r]] = "enabled"
                      /\ \A s \in Reqs : qpc'[s] = "push" /\ qdom'[s] = qdom'[r] => s = r
    BY DEF PushInv
  <2>1. CASE r = q
    <3>1. qdom'[r] = d /\ (qadd'[r] <=> add) /\ pg'[d] = row /\ ~Overtaken(q, d)
      BY <2>1 DEF RangeInv
    <3>2. \A s \in Reqs : qpc'[s] = "push" /\ qdom'[s] = d => s = q
      BY <3>1 DEF RangeInv, Overtaken
    <3> QED BY <2>1, <3>1, <3>2
  <2>2. CASE r # q
    <3>1. qpc[r] = "push" /\ qdom'[r] = qdom[r] /\ (qadd'[r] <=> qadd[r]) /\ qdom[r] \notin skew
      BY <2>2 DEF RangeInv
    <3>2. qdom[r] # d
      BY <2>2, <3>1 DEF Overtaken
    <3>3. pg'[qdom[r]] = pg[qdom[r]]
      BY <3>2 DEF RangeInv
    <3>4. \A s \in Reqs : qpc'[s] = "push" /\ qdom'[s] = qdom[r] => s # q /\ qpc[s] = "push" /\ qdom[s] = qdom[r]
      BY <3>2 DEF RangeInv
    <3> QED BY <3>1, <3>3, <3>4 DEF PushInv
  <2> QED BY <2>1, <2>2
<1>4. RedisFollowsPG'
  <2> SUFFICES ASSUME NEW e \in Domains, e \notin skew'
               PROVE  \/ \E r \in Reqs : qpc'[r] = "push" /\ qdom'[r] = e
                      \/ e \in rset' <=> pg'[e] = "enabled"
    BY DEF RedisFollowsPG
  <2>1. CASE e = d
    BY <2>1 DEF RangeInv
  <2>2. CASE e # d
    <3>1. e \notin skew /\ pg'[e] = pg[e]
      BY <2>2 DEF RangeInv
    <3>2. ASSUME NEW r \in Reqs, qpc[r] = "push", qdom[r] = e
          PROVE  qpc'[r] = "push" /\ qdom'[r] = e
      BY <3>2, <2>2 DEF RangeInv
    <3> QED BY <3>1, <3>2 DEF RedisFollowsPG
  <2> QED BY <2>1, <2>2
<1>5. LoadInv'
  <2>1. Announcing => Announcing'
    BY DEF Announcing, RangeInv
  <2> QED BY <2>1 DEF LoadInv, proxyVars
<1> QED BY <1>1, <1>2, <1>3, <1>4, <1>5

\* The write of a request to Redis.
LEMMA PushKeeps ==
  ASSUME IInv, NEW q \in Reqs, Push(q)
  PROVE  IInv'
<1> USE DEF IInv, Push, pgVars
<1>0. qpc'[q] = "announce" /\ \A r \in Reqs : r # q => qpc'[r] = qpc[r]
  BY DEF RangeInv
<1>1. RangeInv'
  BY DEF RangeInv
<1>2. SyncInv'
  BY DEF SyncInv, RangeInv
<1>3. PushInv'
  BY <1>0 DEF PushInv
<1>4. RedisFollowsPG'
  <2> SUFFICES ASSUME NEW e \in Domains, e \notin skew
               PROVE  \/ \E r \in Reqs : qpc'[r] = "push" /\ qdom[r] = e
                      \/ e \in rset' <=> pg[e] = "enabled"
    BY DEF RedisFollowsPG
  <2>0. apc # "sadd"
    BY DEF SyncInv
  <2>1. CASE e = qdom[q]
    <3>1. qadd[q] <=> pg[e] = "enabled"
      BY <2>1 DEF PushInv
    <3>2. e \in rset' <=> qadd[q]
      BY <2>1
    <3> QED BY <3>1, <3>2
  <2>2. CASE e # qdom[q]
    <3>1. e \in rset' <=> e \in rset
      BY <2>2
    <3> QED BY <1>0, <2>0, <2>2, <3>1 DEF RedisFollowsPG
  <2> QED BY <2>1, <2>2
<1>5. LoadInv'
  BY <1>0 DEF LoadInv, Announcing
<1> QED BY <1>1, <1>2, <1>3, <1>4, <1>5

\* The other steps of the API server.
LEMMA ApiStepKeeps ==
  ASSUME IInv, \/ ApiStep \/ SyncFails \/ ApiCrash
               \/ \E q \in Reqs : Announce(q) \/ PipelineFails(q)
  PROVE  IInv'
<1> USE DEF IInv
<1>1. CASE SyncRead
  BY <1>1 DEF SyncRead, RangeInv, SyncInv, PushInv, RedisFollowsPG, LoadInv, Announcing,
              Enabled, pgVars, proxyVars
<1>2. CASE SyncDel
  BY <1>2 DEF SyncDel, RangeInv, SyncInv, PushInv, RedisFollowsPG, LoadInv, Announcing,
              Enabled, pgVars, proxyVars
<1>3. CASE SyncAdd
  <2> USE <1>3 DEF SyncAdd, pgVars, proxyVars
  <2>1. rset' = Enabled
    BY DEF SyncInv
  <2>2. RangeInv' /\ SyncInv' /\ PushInv'
    BY DEF RangeInv, SyncInv, PushInv
  <2>3. RedisFollowsPG'
    BY <2>1 DEF RedisFollowsPG, Enabled
  <2>4. LoadInv'
    BY DEF LoadInv, Announcing
  <2> QED BY <2>2, <2>3, <2>4
<1>4. CASE SyncPublish
  <2> USE <1>4 DEF SyncPublish, pgVars
  <2>1. RangeInv' /\ SyncInv' /\ PushInv'
    BY DEF RangeInv, SyncInv, PushInv
  <2>2. RedisFollowsPG'
    BY DEF RedisFollowsPG
  <2>3. LoadInv'
    BY DEF LoadInv, Publish
  <2> QED BY <2>1, <2>2, <2>3
<1>5. CASE SyncFails
  <2> USE <1>5 DEF SyncFails, pgVars, proxyVars
  <2>1. RangeInv' /\ SyncInv' /\ PushInv'
    BY DEF RangeInv, SyncInv, PushInv
  <2>2. RedisFollowsPG'
    BY DEF RedisFollowsPG
  <2>3. LoadInv'
    BY DEF LoadInv, Announcing
  <2> QED BY <2>1, <2>2, <2>3
<1>6. CASE ApiCrash
  <2> USE <1>6 DEF ApiCrash, pgVars, proxyVars
  <2>1. RangeInv'
    BY DEF RangeInv
  <2>2. SyncInv' /\ PushInv'
    BY DEF SyncInv, PushInv
  <2>3. RedisFollowsPG'
    BY DEF RedisFollowsPG
  <2>4. LoadInv'
    BY DEF LoadInv, Announcing
  <2> QED BY <2>1, <2>2, <2>3, <2>4
<1>7. ASSUME NEW q \in Reqs, Announce(q) PROVE IInv'
  <2> USE <1>7 DEF Announce, pgVars
  <2>1. RangeInv' /\ SyncInv'
    BY DEF RangeInv, SyncInv, Enabled
  <2>2. PushInv'
    BY DEF PushInv, RangeInv
  <2>3. RedisFollowsPG'
    BY DEF RedisFollowsPG, RangeInv
  <2>4. LoadInv'
    BY DEF LoadInv, Publish
  <2> QED BY <2>1, <2>2, <2>3, <2>4
<1>8. ASSUME NEW q \in Reqs, PipelineFails(q) PROVE IInv'
  <2> USE <1>8 DEF PipelineFails, pgVars, proxyVars
  <2>1. RangeInv' /\ SyncInv'
    BY DEF RangeInv, SyncInv, Enabled
  <2>2. PushInv'
    BY DEF PushInv, RangeInv
  <2>3. RedisFollowsPG'
    BY DEF RedisFollowsPG, RangeInv
  <2>4. LoadInv'
    BY DEF LoadInv, Announcing, RangeInv
  <2> QED BY <2>1, <2>2, <2>3, <2>4
<1> QED BY <1>1, <1>2, <1>3, <1>4, <1>5, <1>6, <1>7, <1>8 DEF ApiStep

\* The steps of the proxy, which change neither PostgreSQL nor Redis.
LEMMA ProxyStepKeeps ==
  ASSUME IInv, ProxyStep \/ Disconnect \/ ProxyRestart
  PROVE  IInv'
<1> USE DEF IInv
<1>1. UNCHANGED <<pgVars, rset, apiVars, skew>>
  BY DEF ProxyStep, FirstLoad, Subscribe, TakeNote, Reload, Disconnect, ProxyRestart
<1>2. RangeInv' /\ SyncInv' /\ PushInv' /\ RedisFollowsPG'
  BY <1>1 DEF pgVars, apiVars, RangeInv, SyncInv, Enabled, PushInv, RedisFollowsPG
<1>3. LoadInv'
  BY <1>1 DEF apiVars, LoadInv, Announcing, ProxyStep, FirstLoad, Subscribe, TakeNote, Reload,
              Load, Disconnect, ProxyRestart
<1> QED BY <1>2, <1>3

\* The inductive invariant holds throughout.
THEOREM ListInvariance == Spec => []IInv
<1>1. IInv /\ [Next]_vars => IInv'
  <2> SUFFICES ASSUME IInv, [Next]_vars PROVE IInv'
    OBVIOUS
  <2>1. ASSUME NEW q \in Reqs, NEW d \in Domains,
               Add(q, d) \/ Enable(q, d) \/ Disable(q, d) \/ Remove(q, d)
        PROVE  IInv'
    BY <2>1, CommitKeeps DEF Add, Enable, Disable, Remove
  <2>2. ASSUME NEW q \in Reqs, ReqStep(q) \/ PipelineFails(q) PROVE IInv'
    BY <2>2, PushKeeps, ApiStepKeeps DEF ReqStep
  <2>3. CASE ApiStep \/ SyncFails \/ ApiCrash
    BY <2>3, ApiStepKeeps
  <2>4. CASE ProxyStep \/ Disconnect \/ ProxyRestart
    BY <2>4, ProxyStepKeeps
  <2>5. CASE UNCHANGED vars
    BY <2>5 DEF vars, pgVars, apiVars, proxyVars, IInv, RangeInv, SyncInv, Enabled, PushInv,
                RedisFollowsPG, LoadInv, Announcing
  <2> QED BY <2>1, <2>2, <2>3, <2>4, <2>5 DEF Next
<1> QED BY InitIInv, <1>1, PTL DEF Spec

\* Redis holds exactly the enabled domains, but for requests under way, the
\* rebuild at start, and domains whose pipeline failed or was overtaken.
THEOREM RedisFollows == Spec => []RedisFollowsPG
<1>1. IInv => RedisFollowsPG
  BY DEF IInv
<1> QED BY ListInvariance, <1>1, PTL

\* A subscribed proxy never enforces an outdated list silently.
THEOREM StalenessKnown == Spec => []NoSilentStaleness
<1>1. IInv => NoSilentStaleness
  BY DEF IInv, LoadInv, NoSilentStaleness
<1> QED BY ListInvariance, <1>1, PTL

=============================================================================
