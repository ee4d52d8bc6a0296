# A TLA+ verification project for the filtering proxy

The repository is a filtering HTTP(S) proxy in Go: it intercepts TLS
connections, refuses the domains of a blocklist, sends downloads through ClamAV
before it lets them go, and writes access records to syslog. An API server with
PostgreSQL and a web frontend administers the blocklist and the scan policy;
Redis carries both to the proxy and caches scan verdicts and certificates.

This directory holds models of the parts where order, concurrency or failure
matters, the TLC runs that check them on small instances, and TLAPS proofs about
all of them: every safety property that a passing run checks is also a theorem, for every
value of the constants. `PROJECT.json` maps every definition to the lines it models.

## 1. Inventory

| Component (source) | State | Operations | Interacts with | Hard about it | Correct when |
|---|---|---|---|---|---|
| scan job (`internal/scan/manager.go`, `trickle.go`, `clamd.go`) | `Job` (status, counter, `newBytes`, `uploadDone`, `resultCh`, `tailBody`), temp file, upstream body | `StartBrowserJob`, `StartCLIJob`, `NewPresetJob`, `runScan`, `TrickleBody.Read`/`Close`, `ServeFile`, `SetConfig`, cleanup | transport, clamd, verdict cache, endpoint | two goroutines share file, channels and the upstream body; the limit changes under way; clamd, disk, upstream or client fail | no infected file is released; the client gets the body whole and in order; nobody hangs; the body is closed once and not read afterwards; cached verdicts are about whole bodies |
| verdict cache (`scan/cache.go`) | two `sync.Map`s with counters, Redis keys with TTL | `get`, `Store`, `storeMem`, `evict` | scan job, transport, Redis | map and counter are not changed together; Redis fails; TTLs in two places | an answer is a verdict recorded for that key and not too old; the counter does not run ahead of the map |
| blocklist synchronisation (`api/blocklist.go`, `api/store.go`, `proxy/blocklist_sync.go`) | PG table, Redis set, pub/sub, `Server.blocklist` | `Add`, `Update`, `Remove`, `syncToRedis`, `load`, subscription loop | API handlers, PG, Redis, proxy | commit, then pipeline, then publish; concurrent requests; crash between; lost announcements | Redis follows PG, the proxy follows Redis, and what is lost is known |
| scan policy synchronisation (`api/scanconfig.go`, `proxy/scanconfig_sync.go`, `scan/config.go`) | two PG tables, one Redis key, two atomics | `UpdateScanSetting`, `UpdateMimeType`, `buildScanConfig`, `syncScanConfigToRedis`, `load`, `SetConfig` | as above, and `RoundTrip` | read-modify-write over two queries and a SET without a lock; two atomics | Redis and manager come to hold the policy of PG; one decision uses one policy |
| intercepted connection (`proxy/connect.go`, `tunnel.go`) | the connection, the response being written, a bridge | `handleConnect`, `serveConnLoop`, `loopWriteHead`/`Body`, `loopBridge` | certificate cache, blocklist, scanning transport, client, upstream | own HTTP framing over kept connections; the host asked for and the host asked about differ; two goroutines end each other | client and loop agree where a message ends; each request meets the current blocklist; a bridge ends |
| scanning transport (`proxy/scantransport.go`) | none | `RoundTrip`, `handleBrowser`, `handleCLI` | scan manager, policy, verdict cache | policy and cache change between its reads and the scan; an overflowing limit | what passes at once passes by the policy or by an earlier verdict on the URL, the rest waits for the end of its scan |
| result endpoint (`scan/endpoint.go`) | the page in the browser, which polls | status, download, page | scan manager | polls across clean-up and restarts | a file is served only by its verdict, whenever it is asked for; what the page says stays true while the job exists; polling ends |
| matching (`proxy/blocklist.go`, `scan/config.go`) | trie, rules | `NewBlocklist`, `IsBlocked`, `IsScannable`, `MaxSizeBytes` | all of the proxy | boundary of wildcards, shared nodes; overflow | equals its reference definition |
| leaf certificate cache, CA (`cert/leaf.go`, `cert/ca.go`) | memory map and counter, Redis, two files | `GetCert`, `evictExpired`, `LoadOrCreate` | handshakes, Redis, disk | counter drift; certificates of an old CA; crash between two writes | a served certificate is valid under the CA in force |
| access log sender (`logger/sender.go`) | bounded channel, `stop`, connection | `Send`, `Close`, `drain` | every request, `main` | full queue, syslog away, flush against handlers still running | one record for each request whose handler ends; the flush misses none that `Shutdown` waited for |
| plain HTTP proxying, main (`proxy/handler.go`, `magichost.go`, `cmd/proxy/main.go`) | requests under way, the shutdown | `ServeHTTP`, `handlePlain`, signal, `Shutdown`, exit | `ReverseProxy`, blocklist, sender | panics and hijacked connections pass by the log and the shutdown | the process exits; a request is refused exactly if listed |
| API handlers, syslog format, frontend | (none) | decoding, formatting, display | | | |

The hazards of each part, with the line where each bites and the properties that
would catch it, are listed in `PROJECT.json`.

## 2. Modules

| Module | Models |
|---|---|
| `ScanPromise` | abstract: what a scan job promises to whoever waits for it |
| `ScanJob` | one scan job with all its actors; implements `ScanPromise` |
| `ScanJobProofs` | its inductive invariant and theorems |
| `VerdictStore` | abstract: what the verdict cache promises |
| `ResultCache`, `ResultCacheProofs` | the cache itself; implements `VerdictStore`; theorems |
| `BlocklistSync`, `BlocklistSyncProofs` | the blocklist from PostgreSQL to the proxy; theorems |
| `ScanConfigSync`, `ScanConfigSyncProofs` | the scan policy from PostgreSQL to a round trip; theorems |
| `ConnLoop`, `ConnLoopProofs` | one intercepted connection; theorems |
| `CertCache`, `CertCacheProofs` | the CA files and the leaf certificate cache; theorems |
| `Blocklist` | the matching of a host, as operators, and what an entry means |
| `Sender` | the access log queue and its goroutine |
| `ProxyServer`, `ProxyServerProofs` | requests, blocklist, log and shutdown; extends `Blocklist` and `Sender`; theorems about them and about the matching |
| `ScanService`, `ScanServiceProofs` | the transport, several jobs over one `VerdictStore`, the result page, clean-up and restart; theorems |
| `MC...` | each of them for TLC; the `.cfg` files give the constants |

A definition whose comment says *Variant* is a plausible bug: `PROJECT.json`
names, for every property, the variant under which TLC finds it violated. No
specification uses a variant.

### ScanJob

`spc` is where `runScan` is, `rpc` where `TrickleBody.Read` is, `dpc` where
`ServeFile` is; the other variables are the fields of `Job` and `TrickleBody`, the
upstream body and the locals of `runScan`. Bytes are counted, not valued: the
properties are about how many bytes went where and in which order. The counter
and the token of `countWriter.Write` are separate steps (`owed` says that a token
is due), since the reader runs between them. `limit` is `MaxSize()` as the
`LimitReader` took it (which passes one byte more) and `seen` the one the
truncation check reads later. Clamd, cache, disk, upstream and client answer
nondeterministically, errors included. `TrickleBody.Close` reads `tailBody`
without synchronisation while `runScan` may be writing it: while the job still
trickles, the model lets it see either value. Cleanup of a job comes long after
its start (the job TTL is in minutes), so it does not precede the creation of the
file. The manager has a cache, as `cmd/proxy` always gives it one.

### VerdictStore and ResultCache

`VerdictStore` remembers facts (map, key, verdict, time), may forget any of them,
and answers a miss or a fact younger than two lifetimes: two, because a verdict may
be copied from Redis into memory at the end of its life and then lives a full
TTL there. `ResultCache` makes each access to the map, to the counter and to Redis
a step; `Rdb` says whether Redis is absent, up, or may fail at each call. Its
refinement mapping (`Known`) collects what memory and Redis hold and what a running
operation carries. The clock does not advance while an operation carries a
verdict, because the code tests an expiry and uses the entry within microseconds
and TTLs are at least minutes.

### BlocklistSync and ScanConfigSync

A request is a process that commits, writes Redis and publishes, with the
failures and crashes the code handles between them. In `BlocklistSync` the table
is the set of enabled domains besides the disabled ones; audit rows, comments and
listings are left out. In `ScanConfigSync` a policy is a pair of versions, of
the settings and of the MIME rules; version 0 is `DefaultScanConfig`, in Redis
the missing key. The proxy's `load` and `SetConfig` are a read and two stores.
A few variables are history: they record that a write to Redis failed or was
overtaken (`skew`, `late`, `behind`), that an announcement was lost (`stale`,
`missed`) or that a reload overlapped a round trip (`torn`). The properties say
that these are the *only* ways to fall behind; `ScanConfigSyncLost` shows that the
code has such a way without any failure.

### ConnLoop

`lpc` follows `handleConnect` and `serveConnLoop`; `client` is the parser of an
HTTP/1.1 client (external), fed with what the loop writes: a head with its
framing, raw bytes, chunks, the last chunk, the end of the connection. A response
has its `ContentLength`, `Close`, what its body yields and how that ends (EOF, an
error, or the error of an infected download). `target` is the host that CONNECT
named, to which every request of the connection is sent; `req.host` is the Host of the
request, or `target` if it has none, and the only one the blocklist is asked about.
The bridge has its two goroutines,
two connections, the deadline of the client's and what the peers do. An expired
deadline stays expired: the reads and writes that would move it fail. Access
records, header contents and the text of answers are left out.

### CertCache

The start of the proxy (`LoadOrCreate`: both files, or a new pair if one is missing or
cannot be read, certificate written before key) and `GetCert`, one step for each access to the memory map, its
counter and Redis, with the sweep of expired entries. A crash leaves the file
being written as it was or cut short; a cut file keeps the proxy from starting
until it is removed, a pair of two generations starts and cannot sign. Files and
Redis survive a crash, memory does not, so a new CA meets leaves of the old one.
The day is the unit of time, since every test in the code is about 24 hours; none
passes during a handshake. Redis may drop a key later than the proxy's clock says.

### ScanPromise and ScanService

`ScanPromise` has a job's status and whether its download is held, released or
refused; a release needs a final status other than "infected" (`ServeFile` serves
"clean" and "error", the trickling reader "toolarge" too), and a scan that began ends. `ScanJob` implements it (`ImplementsPromise`; released is a reader in
its flushing mode, a download being served, or bytes passed through by a job
without a file). `ScanService` is one level up: it takes the steps of that promise for the
scan goroutine of each download, so that it can say nothing new about them, `VerdictStore` for the cache and one step for the
policy, and adds what the others leave out: the decision of `RoundTrip` with the
MIME rules and the size limit in integers of `Width` bits, the jobs map, the temp
directory, the page with its polling, a download that may be asked for at any time with or
without the page's link (`Download`, `ServeFile`), clean-up (file first, then job, one job
after the other) and restarts. A content stands for its hash; what clamd sees of a body cut
at the limit is a part, on which it may find nothing, and parts of different
contents may be equal. `leaked` is history: a file left by a restart, by a failed
`os.Remove` or by a scan that began after its job had been cleaned up. `FilesAccounted`
says these are the only ones.

### Blocklist, Sender and ProxyServer

A domain is the sequence of its labels, a node of the trie the path that leads to
it; `NewBlocklist` and `wildcardBlocked` follow the code's insertion and walk, and
`Listed` says without a trie what an entry means. Port and surrounding spaces are
stripped before the model begins. `Sender` has `Send`, `drain` with its select, write
and flush, and `Close`; without a `SYSLOG_ADDR` there is no sender (`HasSender`), and both
initial states are part of the specification. `ProxyServer` composes both with the handlers: a request is
routed, checked, proxied and recorded; a plain one may abort
(`http.ErrAbortHandler` passes through `handlePlain`, so there is no record) or be
upgraded (its connection is hijacked, and `Shutdown` no longer knows it); a request
of a tunnel is never waited for. `main` waits in `Shutdown` for at most its 10
seconds, then the deferred `Close` stops and flushes the sender, and the process ends.

## 3. Runs

| Run | Expectation | Shows |
|---|---|---|
| `ScanJob` | pass | all safety properties of a job, that scanner and reader finish, and the refinement of `ScanPromise` |
| `ResultCache` | pass | refinement of `VerdictStore`; counter bound |
| `BlocklistSync` | pass | Redis follows PG, no silent staleness, the list catches up |
| `ScanConfigSync` | pass | the same for the policy; a decision is torn only by an overlapping reload |
| `ConnLoop` | pass | client and loop stay in step; a request whose Host is blocked is not sent; the two directions of a bridge end each other, unless upstream never takes a write |
| `CertCache` | pass | served leaves have a day left; those of an earlier CA die out; crashes leave a usable CA; memory is bounded |
| `ProxyServer` | pass | refused exactly if listed; one record for each request whose handler ends, if there is a sender; the flush is complete for what `Shutdown` waited for; the process exits |
| `ScanService` | pass | a download reaches its client at once only by policy or an earlier verdict, else only by the end of its job; what was served was judged; wrong verdicts have a reason; the page is truthful and ends; no file is forgotten |
| `ScanConfigSyncLost` | violation | `scanconfig.go:87`: overlapping changes leave the older policy in Redis |
| `ConnLoopInfected` | violation | `README.md:112`: an infected download is not cut but ended properly |
| `ConnLoopFraming` | violation | `tunnel.go:195`: chunks are written under a head that announced none |
| `ConnLoopTarget` | violation | `blocklist.go:15`: a listed host that CONNECT named is contacted for a request with another Host |

Bounds. `MaxBody = 3` with `Limits = {1, 2}`: bodies below, at, one above and two
above a limit, and a limit raised or lowered during the scan; the one-byte margin of
the `LimitReader` makes three bytes the first body with a byte left for the
tail. `ResultCache`: two callers and the janitor on the same entries, a capacity
of one, two stores and two ticks of the clock, so that an entry is replaced,
expires and is evicted under way; callers are symmetric. One key for each of the two
maps: keys of a map meet only in its counter, and two of them exceed TLC's reach. The synchronisation runs: two
concurrent requests besides the start of the server and three commits, failures,
crashes or disconnections in all (`MaxOps`), the fewest in which a failure meets two
overlapping changes. `ConnLoop`: two requests (the second meets what the first
left behind), two hosts, each as the target and as the Host, bodies of up to two
bytes, one reload of the blocklist, one byte over a bridge. `CertCache`: room for one entry and two handshakes at once over three
names (so that the limit can be exceeded by more than the race allows), leaves of three
days over four days (so that one expires while the proxy runs), two faults.
`ProxyServer`: three requests over a queue of one record (one held by `drain`, one
queued, one dropped), hosts at and one and two labels below a wildcard's base, two
lists besides the empty one, with differing case and a blank line. `ScanService`: two
downloads of one URL (the first leaves a verdict the second meets before or during its
scan), contents below and above a limit, policies with a wildcard rule, with that
rule disabled, and with a limit that overflows at the scaled-down width of four bits.

Deadlock checking is off where the system may stop: a job that ended, a
connection that closed, bounded changes all made.

Fairness. `ScanJob`: weak fairness of the scanner and of the reader, two
goroutines that are scheduled whenever they can run; a client that keeps reading
calls `Read` again, clamd has a deadline, upstream answers or fails. Nothing forces
downloads, configuration changes or cleanup. The synchronisation modules: a
server goes on with what it began; changes, failures and restarts are not
forced. `ConnLoop`: only the bridge is fair. `serveConnLoop` itself has no timeouts: the
transport sets none for the response head, the hijacked connection has no deadline, so
`RoundTrip`, the drain, the copy of a body and every write may wait for ever, and
nothing says that a request ends. The two goroutines of a bridge run when they can and the
deadline of an idle one passes. Nothing is assumed of upstream: a goroutine blocked in a
write to it is woken each time it reads (strong fairness), which may be never;
`BridgeEnds` names that wait, which the timeout does not end, as its one exception. Nothing makes a client send a request or leave. `ProxyServer`: `drain`
goes on (its dials and writes have deadlines of 5 and 3 seconds), `Shutdown` returns at
its timeout, `Close` and the exit follow; requests need not ever end. `ShutdownEnds`
rests on the number of requests being finite: `drain` flushes until the queue is empty,
so tunnels that keep sending records could hold it. `ScanService`: a scan goes on
(what `ScanFinishes` and `ImplementsPromise` show of `ScanJob`), and the page's timer
calls `poll` again. Downloads, changes, clean-up and restarts are not forced.

## 4. Proofs

`ScanJobProofs` proves for every `MaxBody` and every nonempty set of limits that
`ScanJob` satisfies `TypeOK`, `VerdictBeforeDone`, `InfectedNeverDelivered`,
`TailContinuesFile`, `NoLostWakeup`, `DeliveredWhole`, `CachedCoversBody`,
`ConsumedBodyIsClosed` and the action property `NoReadAfterClose`. The only
assumption is `ScanJobAssumption` (the bound is a natural number, the limits are).

None of these is inductive alone. `IInv` is their strengthening:

- `FlagsOK`, `RangesOK`: types;
- `KindInv`: what a job of each kind has and has not (a fallback or preset job has
  no scanner, a browser job no reader);
- `StageInv`: what is known at each place of `runScan` about result, limit and
  verdicts;
- `VerdictInv`: how result channel, status, mode and the published verdict go together;
- `PosInv`: `readPos <= written <= bodyPos` and where the tail stands;
- `WholeInv`: when the file holds the whole body, by stage and limit;
- `EndInv`: who owns the body, and that an ended reader has what its mode allows;
- `NoLostWakeup`, which is inductive relative to them.

The lemmas `ScanStepKeeps`, `ReaderStepKeeps` and `OtherStepsKeep` take the actions
one by one; `FlagsStep` treats the Boolean variables apart, because Zenon handles
those and the SMT solver the arithmetic.

`ScanConfigSyncProofs`, for any set of requests and any number of operations
(`ScanConfigSyncAssumption`: the bound is a natural number, the start of the server is
not a request), proves `KeyFollowsPG`, `NoSilentStaleness` and `DecisionNotTorn` from
an invariant of five parts: `RangeInv` (types); `BuiltInv` (a writer that no commit has
overtaken read what PostgreSQL still holds, which is what makes its SET harmless);
`KeyFollowsPG` itself; `LoadInv` (the policy decoded or applied is the one of Redis or
something is still to come, already before the subscription); `MgrInv` (the two
atomics differ only inside `SetConfig`).

`BlocklistSyncProofs`, for any domains and requests and without assumptions, proves
`RedisFollowsPG` and `NoSilentStaleness`. Besides `RangeInv`, `RedisFollowsPG` and
`LoadInv` the invariant has `SyncInv` (no request runs while the server synchronises
at start, so its snapshot stays true) and `PushInv` (a request that is alone on its
domain carries what PostgreSQL holds).

`ConnLoopProofs`, for any nonempty set of hosts and any bounds (`ConnLoopAssumption`),
proves `TypeOK`, `RequestInStep`, `BlockedNotForwarded` (of the Host of a request; the host it
is sent to is another matter, see `ConnLoopTarget`) and `InStep`. The first two
follow from `DrainInv` (outside the round trip nothing of a request body is left) and
`ListInv` (while a request is checked, what was blocked since it was read is blocked
now). `InStep` speaks only of the end of a response; `FrameInv` adds where the
client's parser is at every byte: nothing seen before the head (`BeforeInv`), then as
much as was copied, in the state the framing of the head calls for (`BodyInv`), and that the
response is one `RoundTrip` can return (`KindInv`). The lemmas `HeadSeen`, `ByteSeen`
and `EndSeen` say what the parser makes of each thing written. `TypeOK` bounds what the
client has got by `MaxLen`, which no step says by itself: `CountInv` has it that the
client never gets a byte that was not copied (`GotGrows`), and that a byte of a request
body is either still to be read, sent upstream or drained.

`ScanJobProofs` also proves `PromiseKept`: every behaviour of `ScanJob` satisfies the
safety part of `ScanPromise` under the mapping of `ImplementsPromise`. It needs
`StatusInv` (the status is "pending" before the temp file is opened and "scanning"
from there to `setResult`) besides `IInv`, and shows action by action that a step is
a step of the promise or a stutter.

`ProxyServerProofs` proves first `BlockedIffListed` for every set of labels with a lower-case
function (`BlocklistAssumption`), every list and every host: `IsBlocked` of the trie
equals `Listed`. The core, `WalkFindsBase`, is that the walk of a host reaches the
sentinel of a base with a label left exactly if the base is a proper suffix of the
host (`SuffixIsPath`), whatever other patterns share nodes with it (`PathPrefix`,
`SentinelInjective`).

The rest of `ProxyServerProofs`, for any number of requests, any capacity, hosts and lists
(`ProxyServerAssumption`, `SenderAssumption`), proves `OneRecord`, `ServedAreFlushed`
and the action property `RefusedIffListed`, with or without a sender. `RecordInv` says that the records of
finished requests are spread without overlap over queue, hand, written, lost and
dropped; `FlushInv` that once `Shutdown` has returned a plain request that is not late
has ended, that `drain` flushes only after `stop`, and that behind the end of the
flush only records of others can be queued. `RefusedIffListed` follows from
`BlockedIffListed` and `HostInv`.

`ScanServiceProofs`, for any number of downloads, any contents, URLs and policies
(`ScanServiceAssumption`), proves `VerdictsHaveEvidence`, `ServedWasJudged`, `FilesAccounted`,
`PageTruthful` and the action property `PassedByPolicy`. `PowersOfTwo` states two
facts of arithmetic that the provers do not know, since they take `^` for any function;
that `"part"` is not a content says only that the hash of a truncated body is nobody's
own. None of the properties is inductive, and `IInv` adds

- `StageInv`: a download that has not begun has no job, and only a redirected browser has a
  page or a file from it;
- `FileInv`: a job in its scan or found clean has its file until clean-up comes, and what
  clean-up has visited has no file that is not leaked;
- `PageInv`: the page shows the final status of its job, listed or not, and what a client
  was given, it was given by that status;
- `CacheInv`, `HitInv`: every verdict of the cache, and every one a scan found there, has a
  scan behind it. They are what `VerdictsHaveEvidence` needs, because a job takes a verdict
  it did not reach from a cache that was filled long before.

`PassedByPolicy` rests on `LimitIsMeant`: a limit that fits the width is the one the
administrator set. Three ways to the client without a verdict are part of it, as they are of
the code: no temp file for a CLI job, clamd away or failing (both "error": the scan
fails open), and a body that turns out too large.

`CertCacheProofs`, for any finite sets of domains and handshakes, any limit and life of
leaves (`CertCacheAssumption`; there is at least one handshake, without which
`MemBounded` would count -1), proves `UsableCA`, `ServedHasADay`, `OldLeavesDieOut` and
`MemBounded`:

- `FilesInv` follows `LoadOrCreate`: the certificate is written before the key, so
  a key without its certificate is only there if somebody removed a file, or a start
  could not read a pair and began to replace it (`alone`), and when
  both files are whole the certificate is of the last generation, and the key too unless
  `alone`;
- `LeafInv` (with `Aged`): a leaf, wherever it is kept, ends within its life from the birth of
  every CA younger than the one that signed it; `OldLeavesDieOut` is the case of the CA in
  force;
- `FreshInv`: a leaf that is going to be served was tested, and no day passes under way;
- `CountInv`: the counter bounds the entries but for the updates still to come and the
  deletions that removed nothing, and whoever passed the test of the limit has room
  within the overshoot.

`ResultCacheProofs`, for any finite nonempty set of keys, any finite set of callers, any
capacity and lifetimes, with or without Redis (`ResultCacheAssumption`), proves
`CounterNeverOvercounts` and the refinement `ImplementsVerdictStore`. `AgeInv` bounds the
age of what is stored (one lifetime in Redis, two in memory) and `ActorInv` what an actor
holds at each stage (a verdict of `Store` is of this moment, one of `get` was live when it
was read); the counter's inequality is inductive relative to the types. The refinement
takes the facts of `Known` place by place (`KnownParts`: memory, Redis, hands): an
operation of the cache moves a fact between the three, forgets some, or records what `Store`
was given, and an answer is a fact known at that moment (`AnswersAreKnown`).

Only model-checked: liveness (`ScanFinishes`, `ReaderFinishes`, `ListCatchesUp`,
`PolicyCatchesUp`, `BridgeEnds`, `ShutdownEnds`, `PageEnds`, and the fairness in
`ImplementsPromise`, whose safety part is `PromiseKept`): it rests on fairness and
`ENABLED`, which are out of the prover's reach. The runs that expect a violation have
nothing to prove.

## 5. Not modelled, and why

What `httputil.ReverseProxy` does to headers and bodies is the library's;
`timed_transport.go` only measures. The API handlers decode, validate and call the
store, whose operations are modelled; listings, pagination and audit rows are read by
nobody else. The syslog format and the frontend have no state of their own that a
property here is about. A failing `ListenAndServe` and a second signal end the
process at once. Go's HTTP
transport is modelled by what `serveConnLoop` sees of it; in particular the race
of `drainBody` with the transport's own reader of the request body is one step
per byte by either. What Redis holds for a domain was written by `saveToRedis`: the errors
of `decodeCachedCert` and `toTLS` (`leaf.go:114`, `119`) are left out.

Met while reading, without a run of their own:

- a client that leaves while the job trickles may leave the upstream body open
  (`trickle.go:65`);
- a limit raised during a scan lets the verdict on a truncated prefix pass for the
  body's (`manager.go:265`, against the comment at 290; `CachedCoversBody` and
  `VerdictsHaveEvidence` name the exception);
- with clamd's verdict known from the URL, an upstream error is ignored and a short
  file served (`manager.go:229`);
- an answer to HEAD without a length gets a last chunk the client does not expect
  (`tunnel.go:250`), a body that fails under a `Content-Length` leaves the client
  waiting on a kept connection (`tunnel.go:243`); `InStep` excludes both;
- with clamd down, a body beyond the limit reaches a CLI client cut off at the limit, as if it
  were whole (`manager.go:284`, against the comment at 282);
- an idle bridge whose upstream stopped reading is kept for ever, since only the
  client's side has a deadline (`tunnel.go:272`, against the comment at 270;
  `BridgeEnds` names the exception);
- a plain request whose copy fails leaves no access record (`handler.go:178`, against the
  comment at 157; `OneRecord` says nothing of it);
- `README.md:91` says `*.example.com` blocks everything, subdomains included; the
  comment and the code of `wildcardBlocked` leave `example.com` itself open
  (`blocklist.go:100`), and so does what `RefusedIffListed` takes an entry to mean;
- `RoundTrip`, the copy of a body and the writes to the client of an intercepted
  connection have no timeout (`tunnel.go:96`, `handler.go:48`): a silent upstream or a stalled
  client keeps connection and goroutine;
- a tunnelled upgrade that cannot be bridged leaves no access record (`tunnel.go:117`);
- a CA whose files are there and cannot be read is replaced (`ca.go:30`), and a crash between
  the two writes then leaves a pair that does not match;
- `MaxSizeMB << 20` is not checked for overflow (`config.go:24`): a huge setting
  lets every response of known length pass unscanned;
- after clean-up or a restart a waiting page polls for ever (`endpoint.go:194`), and
  temp files of an earlier process are never removed (`main.go:56`).

## 6. Plan

Done, in this order: `ScanJob` and its proofs, `ResultCache` under `VerdictStore`,
`BlocklistSync`, `ConnLoop`, `ScanConfigSync`, `CertCache`, the proofs for
`BlocklistSync`, `ScanConfigSync` and `ConnLoop`; then `Blocklist`, `Sender`,
`ProxyServer`, `ScanPromise` and `ScanService`, with the proofs of the first three and
of the promise; then the proofs for `ScanService`, `CertCache`, `ResultCache` with its
refinement, and the types of `ConnLoop`; then the CONNECT host, the proxy without a sender
and downloads asked for at any time. Every safety property of the passing runs is proved. Next:

1. The step lemmas behind liveness that are safety themselves: that a scan's stages only
   advance (`ScanJob`), that a bridge with one direction ended has woken the other
   (`ConnLoop`), that a page never leaves its answer (`ScanService`).
2. Mapping `ScanService`'s cache to the one of `ResultCache`: both are stated against
   `VerdictStore`, and the composition is by reading so far.
