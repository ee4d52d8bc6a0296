------------------------ MODULE ScanConfigSyncProofs ------------------------
(***************************************************************************)
(* Theorems about ScanConfigSync, for any set of requests and any bound.   *)
(***************************************************************************)
EXTENDS ScanConfigSync, TLAPS

\* Versions grow only with the counted operations.
RangeInv ==
  /\ pg \in [settings : Nat, rules : Nat] /\ rkey \in [settings : Nat, rules : Nat]
  /\ loaded \in [settings : Nat, rules : Nat]
  /\ built \in [Writers -> [settings : Nat, rules : Nat]]
  /\ mgr \in [config : [settings : Nat, rules : Nat], maxSize : Nat]
  /\ wpc \in [Writers -> {"idle", "settings", "rules", "set", "publish"}]
  /\ ppc \in {"get", "config", "limit", "subscribe", "loop", "reget", "config2", "limit2"}
  /\ tpc \in {"idle", "config"}
  /\ late \subseteq Writers

\* What a writer that no commit has overtaken has read is what PostgreSQL holds.
BuiltInv ==
  \A w \in Writers : w \notin late =>
    /\ wpc[w] \in {"rules", "set"} => built[w].settings = pg.settings
    /\ wpc[w] = "set" => built[w].rules = pg.rules

Pending == note \/ missed \/ \E w \in Writers : wpc[w] = "publish"

\* The policy the proxy has decoded or applied is the one of Redis, or something
\* is still to come, or known to be lost.
LoadInv ==
  /\ ppc \in {"config", "config2"} /\ loaded # rkey => Pending
  /\ ppc \in {"limit", "limit2", "subscribe", "loop"} /\ mgr.config # rkey => Pending

\* The two atomics of the manager differ only inside SetConfig.
MgrInv ==
  /\ ppc \in {"limit", "limit2"} => mgr.config = loaded
  /\ ppc \notin {"limit", "limit2"} => mgr.maxSize = mgr.config.settings
  /\ tpc = "config" /\ ~torn => mgr.maxSize = rules
  /\ tpc = "config" /\ ~torn => ppc \notin {"limit", "limit2"}

IInv == RangeInv /\ BuiltInv /\ KeyFollowsPG /\ LoadInv /\ MgrInv

-----------------------------------------------------------------------------
\* The initial states satisfy the invariant.
LEMMA InitIInv == Init => IInv
<1> SUFFICES ASSUME Init PROVE IInv
  OBVIOUS
<1>1. RangeInv
  BY ScanConfigSyncAssumption DEF Init, RangeInv, Default, Writers
<1>2. BuiltInv
  BY DEF Init, BuiltInv, Writers
<1>3. KeyFollowsPG
  BY DEF Init, KeyFollowsPG, Building, Writers
<1>4. LoadInv /\ MgrInv
  BY DEF Init, LoadInv, MgrInv, Default
<1> QED
  BY <1>1, <1>2, <1>3, <1>4 DEF IInv

\* Every step of the API server keeps it.
LEMMA ApiStepKeeps ==
  ASSUME IInv, NEW w \in Writers,
         \/ (w \in Reqs /\ (UpdateScanSetting(w) \/ UpdateMimeType(w)))
         \/ WriterStep(w) \/ SyncFails(w) \/ ApiRestart
  PROVE  IInv'
<1> USE DEF IInv, Writers
<1>1. CASE w \in Reqs /\ UpdateScanSetting(w)
  <2>0. /\ wpc[w] = "idle"
        /\ pg' = [pg EXCEPT !["settings"] = @ + 1]
        /\ wpc' = [wpc EXCEPT ![w] = "settings"] /\ late' = late \cup HaveRead("settings")
        /\ UNCHANGED <<rkey, built, proxyVars, tripVars, behind, missed>>
    BY <1>1 DEF UpdateScanSetting, Commit
  <2>1. RangeInv'
    BY <2>0 DEF RangeInv, HaveRead, proxyVars, tripVars
  <2>2. BuiltInv'
    BY <2>0 DEF RangeInv, BuiltInv, HaveRead
  <2>3. KeyFollowsPG'
    BY <2>0 DEF RangeInv, KeyFollowsPG, Building
  <2>4. LoadInv' /\ MgrInv'
    BY <2>0 DEF RangeInv, LoadInv, Pending, MgrInv, proxyVars, tripVars
  <2> QED BY <2>1, <2>2, <2>3, <2>4
<1>2. CASE w \in Reqs /\ UpdateMimeType(w)
  <2>0. /\ wpc[w] = "idle"
        /\ pg' = [pg EXCEPT !["rules"] = @ + 1]
        /\ wpc' = [wpc EXCEPT ![w] = "settings"] /\ late' = late \cup HaveRead("rules")
        /\ UNCHANGED <<rkey, built, proxyVars, tripVars, behind, missed>>
    BY <1>2 DEF UpdateMimeType, Commit
  <2>1. RangeInv'
    BY <2>0 DEF RangeInv, HaveRead, proxyVars, tripVars
  <2>2. BuiltInv'
    BY <2>0 DEF RangeInv, BuiltInv, HaveRead
  <2>3. KeyFollowsPG'
    BY <2>0 DEF RangeInv, KeyFollowsPG, Building
  <2>4. LoadInv' /\ MgrInv'
    BY <2>0 DEF RangeInv, LoadInv, Pending, MgrInv, proxyVars, tripVars
  <2> QED BY <2>1, <2>2, <2>3, <2>4
<1>3. CASE ReadSettings(w)
  <2> USE <1>3 DEF ReadSettings, pgVars, proxyVars, tripVars
  <2>1. RangeInv'
    BY DEF RangeInv
  <2>2. BuiltInv'
    BY DEF RangeInv, BuiltInv
  <2>3. KeyFollowsPG'
    BY DEF RangeInv, KeyFollowsPG, Building
  <2>4. LoadInv' /\ MgrInv'
    BY DEF RangeInv, LoadInv, Pending, MgrInv
  <2> QED BY <2>1, <2>2, <2>3, <2>4
<1>4. CASE ReadRules(w)
  <2> USE <1>4 DEF ReadRules, pgVars, proxyVars, tripVars
  <2>1. RangeInv'
    BY DEF RangeInv
  <2>2. BuiltInv'
    BY DEF RangeInv, BuiltInv
  <2>3. KeyFollowsPG'
    BY DEF RangeInv, KeyFollowsPG, Building
  <2>4. LoadInv' /\ MgrInv'
    BY DEF RangeInv, LoadInv, Pending, MgrInv
  <2> QED BY <2>1, <2>2, <2>3, <2>4
<1>5. CASE SetKey(w)
  <2> USE <1>5 DEF SetKey, pgVars, proxyVars, tripVars
  <2>1. RangeInv'
    BY DEF RangeInv
  <2>2. BuiltInv'
    BY DEF RangeInv, BuiltInv
  <2>3. w \notin late => built[w] = pg
    BY DEF RangeInv, BuiltInv
  <2>4. KeyFollowsPG'
    BY <2>3 DEF KeyFollowsPG
  <2>5. wpc'[w] = "publish"
    BY DEF RangeInv
  <2>6. LoadInv' /\ MgrInv'
    BY <2>5 DEF LoadInv, Pending, MgrInv
  <2> QED BY <2>1, <2>2, <2>4, <2>6
<1>6. CASE PublishConfig(w)
  <2> USE <1>6 DEF PublishConfig, pgVars, tripVars
  <2>1. RangeInv'
    BY DEF RangeInv
  <2>2. BuiltInv'
    BY DEF RangeInv, BuiltInv
  <2>3. KeyFollowsPG'
    BY DEF RangeInv, KeyFollowsPG, Building
  <2>4. Pending'
    BY DEF Pending
  <2>5. LoadInv' /\ MgrInv'
    BY <2>4 DEF LoadInv, MgrInv
  <2> QED BY <2>1, <2>2, <2>3, <2>5
<1>7. CASE SyncFails(w)
  <2> USE <1>7 DEF SyncFails, pgVars, proxyVars, tripVars
  <2>1. RangeInv'
    BY DEF RangeInv
  <2>2. BuiltInv'
    BY DEF RangeInv, BuiltInv
  <2>3. KeyFollowsPG'
    BY DEF KeyFollowsPG
  <2>4. LoadInv' /\ MgrInv'
    BY DEF RangeInv, LoadInv, Pending, MgrInv
  <2> QED BY <2>1, <2>2, <2>3, <2>4
<1>8. CASE ApiRestart
  <2> USE <1>8 DEF ApiRestart, pgVars, proxyVars, tripVars
  <2>1. RangeInv'
    BY DEF RangeInv
  <2>2. BuiltInv'
    BY DEF RangeInv, BuiltInv
  <2>3. wpc'[Boot] = "settings"
    BY DEF RangeInv
  <2>4. KeyFollowsPG'
    BY <2>3 DEF KeyFollowsPG, Building
  <2>5. Pending => Pending'
    BY DEF Pending
  <2>6. LoadInv' /\ MgrInv'
    BY <2>5 DEF LoadInv, MgrInv
  <2> QED BY <2>1, <2>2, <2>4, <2>6
<1> QED
  BY <1>1, <1>2, <1>3, <1>4, <1>5, <1>6, <1>7, <1>8 DEF WriterStep

\* Every step of the proxy keeps it.
LEMMA ProxyStepKeeps ==
  ASSUME IInv, \/ ProxyStep \/ Disconnect \/ ProxyRestart \/ TripConfig \/ TripLimit
  PROVE  IInv'
<1> USE DEF IInv
<1>0. ASSUME UNCHANGED <<pgVars, rkey, apiVars, behind>> PROVE BuiltInv' /\ KeyFollowsPG'
  BY <1>0 DEF BuiltInv, KeyFollowsPG, Building, pgVars, apiVars
<1>1. CASE Get
  <2>1. BuiltInv' /\ KeyFollowsPG'
    BY <1>0, <1>1 DEF Get
  <2> USE <1>1 DEF Get, Step2, pgVars, apiVars, tripVars
  <2>2. RangeInv'
    BY DEF RangeInv
  <2>3. LoadInv'
    BY DEF LoadInv, Pending
  <2>4. MgrInv'
    BY DEF MgrInv
  <2> QED BY <2>1, <2>2, <2>3, <2>4
<1>2. CASE StoreConfig
  <2>1. BuiltInv' /\ KeyFollowsPG'
    BY <1>0, <1>2 DEF StoreConfig
  <2> USE <1>2 DEF StoreConfig, Step2, pgVars, apiVars, tripVars
  <2>2. RangeInv'
    BY DEF RangeInv
  <2>3. LoadInv'
    BY DEF LoadInv, Pending, RangeInv
  <2>4. MgrInv'
    BY DEF MgrInv, RangeInv
  <2> QED BY <2>1, <2>2, <2>3, <2>4
<1>3. CASE StoreLimit
  <2>1. BuiltInv' /\ KeyFollowsPG'
    BY <1>0, <1>3 DEF StoreLimit
  <2> USE <1>3 DEF StoreLimit, Step2, pgVars, apiVars, tripVars
  <2>2. RangeInv'
    BY DEF RangeInv
  <2>3. LoadInv'
    BY DEF LoadInv, Pending, RangeInv
  <2>4. MgrInv'
    BY DEF MgrInv, RangeInv
  <2> QED BY <2>1, <2>2, <2>3, <2>4
<1>4. CASE Subscribe \/ TakeNote
  <2>1. BuiltInv' /\ KeyFollowsPG'
    BY <1>0, <1>4 DEF Subscribe, TakeNote
  <2> USE <1>4 DEF Subscribe, TakeNote, pgVars, apiVars, tripVars
  <2>2. RangeInv'
    BY DEF RangeInv
  <2>3. LoadInv'
    BY DEF LoadInv, Pending
  <2>4. MgrInv'
    BY DEF MgrInv
  <2> QED BY <2>1, <2>2, <2>3, <2>4
<1>5. CASE Disconnect \/ ProxyRestart
  <2>1. BuiltInv' /\ KeyFollowsPG'
    BY <1>0, <1>5 DEF Disconnect, ProxyRestart
  <2> USE <1>5 DEF Disconnect, ProxyRestart, pgVars, apiVars, tripVars
  <2>2. RangeInv'
    BY DEF RangeInv, Default
  <2>3. LoadInv'
    BY DEF LoadInv
  <2>4. MgrInv'
    BY DEF MgrInv, Default
  <2> QED BY <2>1, <2>2, <2>3, <2>4
<1>6. CASE TripConfig \/ TripLimit
  <2>1. BuiltInv' /\ KeyFollowsPG'
    BY <1>0, <1>6 DEF TripConfig, TripLimit
  <2> USE <1>6 DEF TripConfig, TripLimit, pgVars, apiVars, proxyVars
  <2>2. RangeInv'
    BY DEF RangeInv
  <2>3. LoadInv'
    BY DEF LoadInv, Pending
  <2>4. MgrInv'
    BY DEF MgrInv
  <2> QED BY <2>1, <2>2, <2>3, <2>4
<1> QED
  BY <1>1, <1>2, <1>3, <1>4, <1>5, <1>6 DEF ProxyStep

\* The inductive invariant holds throughout.
THEOREM PolicyInvariance == Spec => []IInv
<1>1. IInv /\ [Next]_vars => IInv'
  <2> SUFFICES ASSUME IInv, [Next]_vars PROVE IInv'
    OBVIOUS
  <2>1. CASE Next
    BY <2>1, ApiStepKeeps, ProxyStepKeeps DEF Next, Writers
  <2>2. CASE UNCHANGED vars
    BY <2>2 DEF vars, pgVars, apiVars, proxyVars, tripVars, IInv, RangeInv, BuiltInv,
                KeyFollowsPG, Building, LoadInv, Pending, MgrInv
  <2> QED BY <2>1, <2>2
<1> QED BY InitIInv, <1>1, PTL DEF Spec

\* Redis holds PostgreSQL's policy whenever no writer is at work, unless a
\* synchronisation failed or was overtaken (syncScanConfigToRedis).
THEOREM KeyFollows == Spec => []KeyFollowsPG
<1>1. IInv => KeyFollowsPG
  BY DEF IInv
<1> QED BY PolicyInvariance, <1>1, PTL

\* A subscribed proxy is behind Redis only while a notification is on its way or
\* after one was lost (StartScanConfigSync).
THEOREM StalenessKnown == Spec => []NoSilentStaleness
<1>1. IInv => NoSilentStaleness
  BY DEF IInv, LoadInv, Pending, NoSilentStaleness
<1> QED BY PolicyInvariance, <1>1, PTL

\* RoundTrip uses one policy unless SetConfig overlaps its two reads.
THEOREM OnePolicyPerDecision == Spec => []DecisionNotTorn
<1>1. IInv => DecisionNotTorn
  BY DEF IInv, MgrInv, DecisionNotTorn
<1> QED BY PolicyInvariance, <1>1, PTL

=============================================================================
