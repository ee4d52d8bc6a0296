--------------------------- MODULE ScanConfigSync ---------------------------
(***************************************************************************)
(* How a change of the scan policy reaches the scan manager.  The API      *)
(* server commits a setting or a MIME rule to PostgreSQL, then reads the   *)
(* whole policy back with two queries, writes it to one Redis key and      *)
(* publishes a notification (internal/api/scanconfig.go); the proxy loads  *)
(* the key, at start and at each notification, and hands the policy to the *)
(* manager, which keeps it in two atomics (proxy/scanconfig_sync.go,       *)
(* scan/manager.go).  RoundTrip reads the two one after the other.         *)
(*                                                                         *)
(* A policy is a pair of version numbers: of scan_settings (from which the *)
(* size limit comes) and of scan_mime_types.                               *)
(***************************************************************************)
EXTENDS Integers

CONSTANTS Reqs,    \* API requests under way at once
          Boot,    \* the synchronisation of NewStore
          MaxOps   \* bound: changes, failures, crashes and disconnections

ASSUME ScanConfigSyncAssumption == MaxOps \in Nat /\ Boot \notin Reqs

Writers == Reqs \cup {Boot}

VARIABLES
  pg,       \* scan_settings and scan_mime_types
  rkey,     \* the Redis key scan:config
  wpc,      \* where each writer is
  built,    \* what its buildScanConfig has read so far
  ppc,      \* the proxy's sync goroutine
  loaded,   \* the policy it has decoded
  mgr,      \* Manager.config, and the version Manager.maxSize comes from
  note,     \* a notification waits in the subscription's channel
  tpc,      \* a RoundTrip: idle, or between Config() and MaxSize()
  rules,    \* the version of the settings its Config() came with
  late,     \* history: writers whose reads a later commit has made outdated
  behind,   \* history: the last write of Redis failed or was a late writer's
  missed,   \* history: a change was not announced to the proxy since its last load
  torn,     \* history: a reload has overlapped the RoundTrip
  ops

pgVars  == <<pg>>
apiVars == <<wpc, built, late>>
proxyVars == <<ppc, loaded, mgr, note>>
tripVars == <<tpc, rules, torn>>
vars == <<pgVars, rkey, apiVars, proxyVars, tripVars, behind, missed, ops>>

\* Version 0 is DefaultScanConfig, which differs from what the migration seeds;
\* in Redis it stands for the missing key, which load leaves alone.
Default == [settings |-> 0, rules |-> 0]

Init ==
  /\ pg = [settings |-> 1, rules |-> 1]
  /\ rkey \in {Default, pg}
  /\ wpc = [w \in Writers |-> IF w = Boot THEN "settings" ELSE "idle"]
  /\ built = [w \in Writers |-> Default]
  /\ ppc = "get" /\ loaded = Default
  /\ mgr = [config |-> Default, maxSize |-> 0]
  /\ note = FALSE
  /\ tpc = "idle" /\ rules = 0 /\ torn = FALSE
  /\ late = {} /\ behind = (rkey # pg) /\ missed = FALSE /\ ops = 0

Count == ops < MaxOps /\ ops' = ops + 1

-----------------------------------------------------------------------------
(* The API server.  A request is served once NewStore has returned.        *)

\* The writers that have already read the part that a commit changes.
HaveRead(part) == {w \in Writers : wpc[w] = "set" \/ (part = "settings" /\ wpc[w] = "rules")}

Commit(q, part) ==
  /\ wpc[q] = "idle" /\ wpc[Boot] = "idle"
  /\ pg' = [pg EXCEPT ![part] = @ + 1]
  /\ wpc' = [wpc EXCEPT ![q] = "settings"]
  /\ late' = late \cup HaveRead(part)
  /\ Count
  /\ UNCHANGED <<rkey, built, proxyVars, tripVars, behind, missed>>

UpdateScanSetting(q) == Commit(q, "settings")
UpdateMimeType(q)    == Commit(q, "rules")

\* The two queries of buildScanConfig.
ReadSettings(w) ==
  /\ wpc[w] = "settings"
  /\ built' = [built EXCEPT ![w].settings = pg.settings]
  /\ wpc' = [wpc EXCEPT ![w] = "rules"]
  /\ late' = late \ {w}
  /\ UNCHANGED <<pgVars, rkey, proxyVars, tripVars, behind, missed, ops>>

\* Variant: the rules are taken from the version in Redis.
ReadRulesFromRedis(w) ==
  /\ wpc[w] = "rules"
  /\ built' = [built EXCEPT ![w].rules = rkey.rules]
  /\ wpc' = [wpc EXCEPT ![w] = "set"]
  /\ UNCHANGED <<pgVars, rkey, late, proxyVars, tripVars, behind, missed, ops>>

ReadRules(w) ==
  /\ wpc[w] = "rules"
  /\ built' = [built EXCEPT ![w].rules = pg.rules]
  /\ wpc' = [wpc EXCEPT ![w] = "set"]
  /\ UNCHANGED <<pgVars, rkey, late, proxyVars, tripVars, behind, missed, ops>>

SetKey(w) ==
  /\ wpc[w] = "set"
  /\ rkey' = built[w]
  /\ wpc' = [wpc EXCEPT ![w] = "publish"]
  /\ behind' = (w \in late)
  /\ UNCHANGED <<pgVars, built, late, proxyVars, tripVars, missed, ops>>

Subscribed == ppc \in {"loop", "reget", "config2", "limit2"}

\* PUBLISH reaches a subscribed proxy; its own error is ignored.
PublishConfig(w) ==
  /\ wpc[w] = "publish"
  /\ wpc' = [wpc EXCEPT ![w] = "idle"]
  /\ \/ Subscribed /\ note' = TRUE /\ UNCHANGED <<missed, ops>>
     \/ ~Subscribed /\ missed' = TRUE /\ UNCHANGED <<note, ops>>
     \/ Count /\ missed' = TRUE /\ UNCHANGED note
  /\ UNCHANGED <<pgVars, rkey, built, late, ppc, loaded, mgr, tripVars, behind>>

\* A query or the SET fails, or the request's context is cancelled: the caller
\* gets an error although PostgreSQL holds the change (NewStore only warns).
SyncFails(w) ==
  /\ wpc[w] \in {"settings", "rules", "set"}
  /\ wpc' = [wpc EXCEPT ![w] = "idle"]
  /\ behind' = TRUE
  /\ Count
  /\ UNCHANGED <<pgVars, rkey, built, late, proxyVars, tripVars, missed>>

\* The server stops and starts again: what was under way is lost.
ApiRestart ==
  /\ wpc' = [w \in Writers |-> IF w = Boot THEN "settings" ELSE "idle"]
  /\ behind' = (behind \/ \E w \in Writers : wpc[w] \in {"settings", "rules", "set"})
  /\ missed' = (missed \/ \E w \in Writers : wpc[w] = "publish")
  /\ Count
  /\ UNCHANGED <<pgVars, rkey, built, late, proxyVars, tripVars>>

-----------------------------------------------------------------------------
(* The proxy: load is GET, then SetConfig, which is two stores.            *)
Step2(l) == IF ppc \in {"reget", "config2", "limit2"} THEN l[2] ELSE l[1]

Get ==
  /\ ppc \in {"get", "reget"}
  /\ \/ /\ loaded' = rkey /\ missed' = FALSE
        /\ ppc' = Step2(<<"config", "config2">>) /\ UNCHANGED ops
     \/ /\ missed' = TRUE /\ Count
        /\ ppc' = Step2(<<"subscribe", "loop">>) /\ UNCHANGED loaded
  /\ UNCHANGED <<pgVars, rkey, apiVars, mgr, note, tripVars, behind>>

StoreConfig ==
  /\ ppc \in {"config", "config2"}
  /\ mgr' = [mgr EXCEPT !.config = loaded]
  /\ ppc' = Step2(<<"limit", "limit2">>)
  /\ torn' = (torn \/ tpc = "config")
  /\ UNCHANGED <<pgVars, rkey, apiVars, loaded, note, tpc, rules, behind, missed, ops>>

\* Variant: the limit is taken before the new policy is stored.
StoreLimitOld ==
  /\ ppc \in {"limit", "limit2"}
  /\ ppc' = Step2(<<"subscribe", "loop">>)
  /\ torn' = (torn \/ tpc = "config")
  /\ UNCHANGED <<pgVars, rkey, apiVars, loaded, mgr, note, tpc, rules, behind, missed, ops>>

StoreLimit ==
  /\ ppc \in {"limit", "limit2"}
  /\ mgr' = [mgr EXCEPT !.maxSize = loaded.settings]
  /\ ppc' = Step2(<<"subscribe", "loop">>)
  /\ torn' = (torn \/ tpc = "config")
  /\ UNCHANGED <<pgVars, rkey, apiVars, loaded, note, tpc, rules, behind, missed, ops>>

Subscribe ==
  /\ ppc = "subscribe"
  /\ ppc' = "loop"
  /\ UNCHANGED <<pgVars, rkey, apiVars, loaded, mgr, note, tripVars, behind, missed, ops>>

\* Variant: only the first notification causes a reload.
TakeNoteOnce ==
  /\ ppc = "loop" /\ note
  /\ note' = FALSE /\ ppc' = IF mgr.config = Default THEN "reget" ELSE "loop"
  /\ UNCHANGED <<pgVars, rkey, apiVars, loaded, mgr, tripVars, behind, missed, ops>>

TakeNote ==
  /\ ppc = "loop" /\ note
  /\ note' = FALSE /\ ppc' = "reget"
  /\ UNCHANGED <<pgVars, rkey, apiVars, loaded, mgr, tripVars, behind, missed, ops>>

Disconnect ==
  /\ ppc = "loop"
  /\ ppc' = "get" /\ note' = FALSE
  /\ Count
  /\ UNCHANGED <<pgVars, rkey, apiVars, loaded, mgr, tripVars, behind, missed>>

ProxyRestart ==
  /\ ppc' = "get" /\ note' = FALSE
  /\ mgr' = [config |-> Default, maxSize |-> 0]
  /\ tpc' = "idle" /\ rules' = 0 /\ torn' = FALSE
  /\ Count
  /\ UNCHANGED <<pgVars, rkey, apiVars, loaded, behind, missed>>

-----------------------------------------------------------------------------
(* RoundTrip: IsScannable on Config(), then the length against MaxSize().  *)
TripConfig ==
  /\ tpc = "idle"
  /\ tpc' = "config" /\ rules' = mgr.config.settings
  /\ torn' = (ppc \in {"limit", "limit2"})
  /\ UNCHANGED <<pgVars, rkey, apiVars, proxyVars, behind, missed, ops>>

TripLimit ==
  /\ tpc = "config"
  /\ tpc' = "idle" /\ rules' = 0 /\ torn' = FALSE
  /\ UNCHANGED <<pgVars, rkey, apiVars, proxyVars, behind, missed, ops>>

-----------------------------------------------------------------------------
WriterStep(w) == ReadSettings(w) \/ ReadRules(w) \/ SetKey(w) \/ PublishConfig(w)
ProxyStep == Get \/ StoreConfig \/ StoreLimit \/ Subscribe \/ TakeNote

Next ==
  \/ \E q \in Reqs : UpdateScanSetting(q) \/ UpdateMimeType(q)
  \/ \E w \in Writers : WriterStep(w) \/ SyncFails(w)
  \/ ApiRestart \/ ProxyStep \/ Disconnect \/ ProxyRestart
  \/ TripConfig \/ TripLimit

\* What a server has begun it goes on with; nothing else is forced to happen.
Fairness == (\A w \in Writers : WF_vars(WriterStep(w))) /\ WF_vars(ProxyStep)

Spec == Init /\ [][Next]_vars /\ Fairness

-----------------------------------------------------------------------------
(* Properties.                                                             *)
Building == \E w \in Writers : wpc[w] \in {"settings", "rules", "set"}

\* Redis holds the policy of PostgreSQL as soon as no writer is at work, unless
\* a synchronisation failed or the last one was overtaken by a commit.
KeyFollowsPG == ~behind /\ ~Building => rkey = pg

\* The policy a subscribed proxy applies is the one in Redis, or a notification
\* waits or is about to be sent, or an announcement or a load was lost.
NoSilentStaleness ==
  ppc = "loop" /\ mgr.config # rkey
    => note \/ missed \/ \E w \in Writers : wpc[w] = "publish"

\* RoundTrip applies the size limit and the rules of one policy, unless a reload
\* overlapped its two reads.
DecisionNotTorn == tpc = "config" /\ ~torn => mgr.maxSize = rules

\* Unless an announcement is lost, the manager comes to apply what Redis holds.
PolicyCatchesUp ==
  (mgr.config # rkey /\ ~missed) ~> ((mgr.config = rkey /\ mgr.maxSize = rkey.settings) \/ missed)

-----------------------------------------------------------------------------
\* scanconfig.go: syncScanConfigToRedis "writes the current scan config to
\* Redis": once every writer is done, Redis is up to date (here, when all that
\* was counted are commits: no failure, crash or restart).
CurrentConfigInRedis ==
  (\A w \in Writers : wpc[w] = "idle") /\ ops = pg.settings + pg.rules - 2 => rkey = pg

=============================================================================
