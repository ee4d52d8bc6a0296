---------------------------- MODULE ScanService ----------------------------
(***************************************************************************)
(* The scan service as its users see it: scanTransport.RoundTrip decides   *)
(* under the policy and the verdict cache what to do with a response       *)
(* (proxy/scantransport.go, scan/config.go), scan.Manager keeps a job and  *)
(* a temp file for each download it takes (scan/manager.go), the result    *)
(* page polls the job and offers the file (scan/endpoint.go), and clean-up *)
(* and restarts take jobs away under all of them.                          *)
(*                                                                         *)
(* It composes what other modules describe in detail: a job does here what *)
(* ScanPromise promises (ScanJob shows the manager does), the verdict      *)
(* cache is VerdictStore (ResultCache shows it is), and the policy arrives *)
(* in one step (ScanConfigSync splits it).  Download d's job has id d.     *)
(***************************************************************************)
EXTENDS Integers, Sequences, SequencesExt

CONSTANTS
  MaxDownloads,\* bound: downloads of the run
  URLs,        \* where they come from
  Contents,    \* what a URL may serve; content and hash are one to one
  Size,        \* bytes of each content
  MimeType,    \* its Content-Type without parameters, in lower case, in parts
  Bad,         \* the contents clamd finds a threat in
  Configs,     \* the policies (ScanConfig) of the run
  Width, Shift \* of int64 and of MaxSizeMB << 20, scaled down

ASSUME ScanServiceAssumption ==
  /\ MaxDownloads \in Nat
  /\ Size \in [Contents -> Nat] /\ Bad \subseteq Contents
  /\ "part" \notin Contents
  /\ \A c \in Configs : c.mb \in Int
  /\ Width \in Nat \ {0} /\ Shift \in Nat

\* Arithmetic that the provers do not know: they take ^ for any function.
ASSUME PowersOfTwo ==
  /\ 2^(Width - 1) \in Nat \ {0} /\ 2^Width = 2 * 2^(Width - 1)
  /\ 2^Shift \in Nat \ {0}

VARIABLES
  cfg,      \* Manager.config; Manager.maxSize is MaxSizeBytes of it
  at,       \* what became of download d
  url,      \* its URL
  content,  \* what the URL served
  job,      \* its job
  files,    \* downloads with a file in the temp directory
  page,     \* the result page in d's browser
  got,      \* downloads whose file the proxy served from its own page
  known,    \* the verdicts of the cache
  scans,    \* history: what clamd was asked about
  leaked    \* history: files that are there though clean-up or a restart took the job

Downloads == 1..MaxDownloads

dlVars == <<at, url, content>>
storeVars == <<known, scans>>
pageVars == <<page, got>>
vars == <<cfg, dlVars, job, files, pageVars, storeVars, leaked>>

\* Time is left to VerdictStore: here any verdict recorded so far may be the
\* answer, and so may a miss.
Cache == INSTANCE VerdictStore
           WITH Keys <- URLs \cup Contents, TTL <- [url |-> 1, hash |-> 1],
                now <- 0, answer <- [verdict |-> "miss"]

\* A job: its status, whether it is in Manager.jobs and whether clean-up has begun
\* with it, whether its goroutine runs, and that one's locals.
Job(status, listed, expired, alive) ==
  [status |-> status, listed |-> listed, expired |-> expired, alive |-> alive,
   limit |-> 0, hit |-> "miss"]

NoJob == Job("none", FALSE, FALSE, FALSE)

Final == {"clean", "infected", "error", "toolarge"}

-----------------------------------------------------------------------------
(* The policy.                                                             *)

\* x as a signed integer of Width bits.
Wrap(x) == ((x + 2^(Width - 1)) % 2^Width) - 2^(Width - 1)

MaxSizeBytes(c) == Wrap(c.mb * 2^Shift)

IsScannable(c, ct) ==
  /\ c.enabled
  /\ \E r \in c.rules :
       r.enabled /\ IF r.isPrefix THEN IsPrefix(r.pattern, ct) ELSE r.pattern = ct

MaxSize == MaxSizeBytes(cfg)

-----------------------------------------------------------------------------
Init ==
  /\ cfg \in Configs
  /\ at = [d \in Downloads |-> "new"]
  /\ url = [d \in Downloads |-> "none"] /\ content = [d \in Downloads |-> "none"]
  /\ job = [d \in Downloads |-> NoJob] /\ files = {}
  /\ page = [d \in Downloads |-> "none"] /\ got = {}
  /\ known = {} /\ scans = {} /\ leaked = {}

-----------------------------------------------------------------------------
(* scanTransport.RoundTrip, after upstream has answered with content c.    *)

Becomes(d, there) == at' = [at EXCEPT ![d] = there]
NewJob(d, j) == job' = [job EXCEPT ![d] = j]
Fresh(status, alive) == Job(status, TRUE, FALSE, alive)

\* The response goes to the client as it is.
PassThrough(d) == Becomes(d, "through") /\ UNCHANGED <<job, files>>

\* A cached infection: the body is closed, the job has its verdict and no file.
Preset(d) ==
  /\ Becomes(d, "redirected")
  /\ NewJob(d, Fresh("infected", FALSE))
  /\ UNCHANGED files

\* newJob may fail to create the file without noticing; the scan opens it again.
StartBrowserJob(d) ==
  /\ Becomes(d, "redirected") /\ NewJob(d, Fresh("pending", TRUE))
  /\ files' \in {files, files \cup {d}}

\* A CLI download opens the file at once; without it the body is passed through.
StartCLIJob(d) ==
  /\ Becomes(d, "waiting")
  /\ \/ NewJob(d, Fresh("pending", TRUE)) /\ files' = files \cup {d}
     \/ NewJob(d, Fresh("error", FALSE)) /\ files' \in {files, files \cup {d}}

\* Variant: a response of exactly the limit is taken for too large.
TooLargeAtLimit(c, lengthKnown) == lengthKnown /\ Size[c] >= MaxSize

\* ContentLength is -1 when upstream does not announce it.
TooLarge(c, lengthKnown) == (IF lengthKnown THEN Size[c] ELSE -1) > MaxSize

RoundTrip(d, u, c, lengthKnown, browser) ==
  /\ at[d] = "new" /\ \A e \in 1..(d - 1) : at[e] # "new"
  /\ url' = [url EXCEPT ![d] = u] /\ content' = [content EXCEPT ![d] = c]
  /\ IF ~IsScannable(cfg, MimeType[c]) \/ TooLarge(c, lengthKnown)
     THEN PassThrough(d)
     ELSE \E a \in Cache!Answers("url", u) :
            CASE a.verdict = "clean"    -> PassThrough(d)
              [] a.verdict = "infected" -> Preset(d)
              [] OTHER -> IF browser THEN StartBrowserJob(d) ELSE StartCLIJob(d)
  /\ UNCHANGED <<cfg, pageVars, storeVars, leaked>>

-----------------------------------------------------------------------------
(* The scan goroutine of job d, in the steps ScanPromise has.              *)

\* The status is set and the goroutine ends, its locals with it.
Publish(d, s) ==
  NewJob(d, Job(s, job[d].listed, job[d].expired, FALSE))

\* The file is opened (created again, should clean-up have been there before the
\* goroutine), MaxSize() read for the LimitReader, the URL looked up.
OpenTemp(d) ==
  /\ job[d].alive /\ job[d].status = "pending"
  /\ \/ /\ \E a \in Cache!Answers("url", url[d]) :
             NewJob(d, [job[d] EXCEPT !.status = "scanning", !.limit = MaxSize,
                                      !.hit = a.verdict])
        /\ files' = files \cup {d}
        /\ leaked' = IF job[d].listed /\ ~job[d].expired THEN leaked ELSE leaked \cup {d}
     \/ Publish(d, "error") /\ UNCHANGED <<files, leaked>>
  /\ UNCHANGED <<cfg, dlVars, pageVars, storeVars>>

\* Bytes in the temp file once the LimitReader has ended (it passes limit + 1).
Written(d) ==
  LET n == IF job[d].limit < 0 THEN 0 ELSE job[d].limit + 1
  IN  IF Size[content[d]] < n THEN Size[content[d]] ELSE n

Whole(d) == Written(d) = Size[content[d]]

\* clamd's answer: a threat is found in the whole of it, and perhaps in a part.
ClamdVerdicts(d) ==
  IF content[d] \notin Bad THEN {"clean"}
  ELSE IF Whole(d) THEN {"infected"} ELSE {"clean", "infected"}

\* The hash of n bytes; different contents may begin alike.
Hash(d, n) == IF n = Size[content[d]] THEN content[d] ELSE "part"

\* What GetByHash may answer.
HashAnswers(d, n) == {a.verdict : a \in Cache!Answers("hash", Hash(d, n))}

mergeResults(a, b) == IF a = "infected" \/ b = "infected" THEN "infected" ELSE a

Scanning(d) == job[d].alive /\ job[d].status = "scanning"

\* Variant: the verdict is stored before the error of clamd is looked at.
ScanFailsStoring(d) ==
  /\ Scanning(d) /\ 0 <= MaxSize /\ job[d].hit = "miss"
  /\ Publish(d, "error")
  /\ known' = known \cup Cache!Facts(url[d], content[d], "clean")
  /\ UNCHANGED <<cfg, dlVars, files, pageVars, scans, leaked>>

\* MaxSize() is read again: with the limit of now the file is too large.
ScanTooLarge(d) ==
  /\ Scanning(d) /\ Written(d) > MaxSize
  /\ Publish(d, "toolarge")
  /\ UNCHANGED <<cfg, dlVars, files, pageVars, storeVars, leaked>>

\* clamd is not there, or clamd, the disk or upstream fails when no more than
\* MaxSize() bytes were written, which may be none.
ScanFails(d) ==
  /\ Scanning(d) /\ 0 <= MaxSize /\ job[d].hit = "miss"
  /\ Publish(d, "error")
  /\ UNCHANGED <<cfg, dlVars, files, pageVars, storeVars, leaked>>

\* The fast path of a URL known since RoundTrip asked: nothing is stored, and an
\* error of io.Copy, which leaves n bytes, goes unnoticed.
ScanKnown(d) ==
  /\ Scanning(d) /\ job[d].hit # "miss"
  /\ \E n \in 0..Written(d) :
       /\ n <= MaxSize
       /\ \E h \in HashAnswers(d, n) : Publish(d, mergeResults(job[d].hit, h))
  /\ UNCHANGED <<cfg, dlVars, files, pageVars, storeVars, leaked>>

ScanAnswered(d) ==
  /\ Scanning(d) /\ Written(d) <= MaxSize /\ job[d].hit = "miss"
  /\ \E v \in ClamdVerdicts(d), h \in HashAnswers(d, Written(d)) :
       LET final == mergeResults(v, h)
       IN  /\ Publish(d, final)
           /\ known' = known \cup Cache!Facts(url[d], Hash(d, Written(d)), final)
  /\ scans' = scans \cup {[url |-> url[d], content |-> content[d], whole |-> Whole(d)]}
  /\ UNCHANGED <<cfg, dlVars, files, pageVars, leaked>>

\* A waiting CLI client is served, or cut off, once there is a verdict.
ServeCLI(d) ==
  /\ at[d] = "waiting" /\ job[d].status \in Final
  /\ Becomes(d, IF job[d].status = "infected" THEN "cut" ELSE "got")
  /\ UNCHANGED <<cfg, url, content, job, files, pageVars, storeVars, leaked>>

Scan(d) == OpenTemp(d) \/ ScanTooLarge(d) \/ ScanFails(d) \/ ScanKnown(d) \/ ScanAnswered(d)

-----------------------------------------------------------------------------
(* The result page.                                                        *)
PageFrame == UNCHANGED <<cfg, dlVars, job, files, storeVars, leaked>>

Shows(d, p) == page' = [page EXCEPT ![d] = p]

\* The redirect is followed: handleResult finds the job or answers 404.
LoadPage(d) ==
  /\ at[d] = "redirected" /\ page[d] = "none"
  /\ Shows(d, IF job[d].listed THEN "polling" ELSE "notfound")
  /\ PageFrame /\ UNCHANGED got

\* Variant: handleStatus has no case for StatusTooLarge and writes its name.
statusNameRaw(s) == s

\* The strings of handleStatus.
statusName(s) == IF s = "toolarge" THEN "toobig" ELSE s

\* What poll() makes of them; an unknown string, and an answer that is not JSON
\* (the 404 of a job that is gone), make it ask again.
Shown(s) == CASE s \in {"clean", "error"} -> "link"
              [] s = "infected" -> "threat"
              [] s = "toobig" -> "toobig"
              [] OTHER -> "polling"

Poll(d) ==
  /\ page[d] = "polling" /\ job[d].listed
  /\ Shows(d, Shown(statusName(job[d].status)))
  /\ PageFrame /\ UNCHANGED got

\* Variant: any file that is there is served.
ServeFileUnchecked(d) == d \in files

\* ServeFile: by the status first, then by the file.
ServeFile(d) == job[d].status \in {"clean", "error"} /\ d \in files

\* handleDownload.  The id is in the redirect, and whoever has it may ask at any
\* time, the page's link or not: 404 if the job is gone, 403 if ServeFile returns
\* false (either replaces a page whose link was followed), else the file.
Download(d) ==
  /\ at[d] = "redirected"
  /\ \/ job[d].listed /\ ServeFile(d) /\ got' = got \cup {d} /\ UNCHANGED page
     \/ /\ ~(job[d].listed /\ ServeFile(d)) /\ UNCHANGED got
        /\ page[d] = "link"
        /\ Shows(d, IF job[d].listed THEN "forbidden" ELSE "notfound")
  /\ PageFrame

-----------------------------------------------------------------------------
(* The rest of the proxy.                                                  *)
SetConfig ==
  /\ cfg' \in Configs \ {cfg}
  /\ UNCHANGED <<dlVars, job, files, pageVars, storeVars, leaked>>

\* Variant: the file is left behind.
RemoveFileNot(d) ==
  /\ job[d].listed /\ \A e \in Downloads : ~job[e].expired
  /\ NewJob(d, [job[d] EXCEPT !.expired = TRUE])
  /\ UNCHANGED <<cfg, dlVars, files, pageVars, storeVars, leaked>>

\* A tick of clean-up visits one job after the other.  The TTL of d is over, for a
\* slow upstream in the middle of its scan; an error of os.Remove is ignored.
RemoveFile(d) ==
  /\ job[d].listed /\ \A e \in Downloads : ~job[e].expired
  /\ NewJob(d, [job[d] EXCEPT !.expired = TRUE])
  /\ \/ files' = files \ {d} /\ UNCHANGED leaked
     \/ leaked' = leaked \cup ({d} \cap files) /\ UNCHANGED files
  /\ UNCHANGED <<cfg, dlVars, pageVars, storeVars>>

\* Variant: the job is kept.
DeleteJobNot(d) ==
  /\ job[d].expired
  /\ NewJob(d, [job[d] EXCEPT !.expired = FALSE])
  /\ UNCHANGED <<cfg, dlVars, files, pageVars, storeVars, leaked>>

DeleteJob(d) ==
  /\ job[d].expired
  /\ NewJob(d, [job[d] EXCEPT !.expired = FALSE, !.listed = FALSE])
  /\ UNCHANGED <<cfg, dlVars, files, pageVars, storeVars, leaked>>

\* The proxy stops and starts: jobs and goroutines are gone, the temp directory
\* is not emptied, Redis has the verdicts and the policy.
Restart ==
  /\ job' = [d \in Downloads |-> Job(job[d].status, FALSE, FALSE, FALSE)]
  /\ at' = [d \in Downloads |-> IF at[d] = "waiting" THEN "lost" ELSE at[d]]
  /\ leaked' = leaked \cup files
  /\ UNCHANGED <<cfg, url, content, files, pageVars, storeVars>>

-----------------------------------------------------------------------------
Next ==
  \/ \E d \in Downloads :
       \/ \E u \in URLs, c \in Contents, l, b \in BOOLEAN : RoundTrip(d, u, c, l, b)
       \/ Scan(d) \/ ServeCLI(d) \/ LoadPage(d) \/ Poll(d) \/ Download(d)
       \/ RemoveFile(d) \/ DeleteJob(d)
  \/ SetConfig \/ Restart

\* A scan that began ends (ScanPromise, proved of ScanJob by its run), and the
\* page's timer calls poll again and again.
Fairness == \A d \in Downloads : WF_vars(Scan(d)) /\ WF_vars(Poll(d))

Spec == Init /\ [][Next]_vars /\ Fairness

-----------------------------------------------------------------------------
(* Properties.                                                             *)

\* The policy's limit in bytes, and the settings whose MaxSizeMB << 20 is not it.
LimitMeant(c) == c.mb * 2^Shift
Overflows(c) == LimitMeant(c) >= 2^(Width - 1)

FoundClean(u) == \E f \in known : f.map = "url" /\ f.key = u /\ f.verdict = "clean"

\* The client has the download: as it came, from its waiting job, or from the page.
Delivered(d) == at[d] \in {"through", "got"} \/ d \in got

\* The ways a download reaches its client: at once, if the policy in force names no
\* rule for it, it is longer than the limit the administrator set or its URL was
\* found clean before; or from its job, found clean, too large, or with an error, as
\* the scan fails open (no temp file, clamd away).  A limit whose MaxSizeMB << 20
\* overflows is excepted: it lets anything pass at once.
PassedByPolicy ==
  [][\A d \in Downloads :
       ~Delivered(d) /\ Delivered(d)' =>
         \/ /\ at'[d] = "through"
            /\ \/ Overflows(cfg)
               \/ ~IsScannable(cfg, MimeType[content'[d]])
               \/ Size[content'[d]] > LimitMeant(cfg)
               \/ FoundClean(url[d]')
         \/ job[d].status \in {"clean", "toolarge", "error"}]_vars

\* Some scan, of clean content from the URL of d or of a part, answered "clean".
CleanElsewhere(d) == \E s \in scans : ~s.whole \/ (s.url = url[d] /\ s.content \notin Bad)

\* A verdict that is wrong about the content of a download comes from another
\* scan, of the same URL or of a part: of clean content or of a part for "clean",
\* of bad content for "infected".  A failed, oversized or interrupted
\* scan leaves no verdict anybody else can get.
VerdictsHaveEvidence ==
  \A d \in Downloads :
    /\ job[d].status = "clean" /\ content[d] \in Bad
         => CleanElsewhere(d)
    /\ job[d].status = "infected" /\ content[d] \notin Bad
         => \E s \in scans : (~s.whole \/ s.url = url[d]) /\ s.content \in Bad

\* What the page has told the user stays true as long as the job exists: a link
\* it shows leads to a file that ServeFile serves (a job that failed to open its
\* file aside) until clean-up comes for it, and a refusal is never taken back.
PageTruthful ==
  \A d \in Downloads : job[d].listed =>
    /\ page[d] = "link" /\ ~job[d].expired
         => \/ job[d].status = "clean" /\ d \in files
            \/ job[d].status = "error"
    /\ page[d] = "threat" => job[d].status = "infected"
    /\ page[d] = "toobig" => job[d].status = "toolarge"

\* A temp file without a job is there because the proxy was restarted, could not
\* remove it, or began a scan after its job had expired; clean-up leaves no other,
\* not even of a job in the middle of its scan.
FilesAccounted == files \subseteq {d \in Downloads : job[d].listed} \cup leaked

\* The page stops polling, with an answer, unless its job is taken away first
\* (its 404 is no JSON, and the page asks again for ever).
PageEnds ==
  \A d \in Downloads :
    page[d] = "polling" ~> (page[d] # "polling" \/ ~job[d].listed)

\* Whoever asks, whenever: what a job gave to its client was judged, and no later
\* verdict says otherwise.  A threat among it was found clean because of another scan,
\* or its own scan failed or, for a CLI client, hit the limit.  Clean-up, restarts and
\* new policies do not open another way.
ServedWasJudged ==
  \A d \in Downloads :
    LET judged == job[d].status = "clean" /\ (content[d] \in Bad => CleanElsewhere(d))
    IN  /\ d \in got => judged \/ job[d].status = "error"
        /\ at[d] = "got" => judged \/ job[d].status \in {"error", "toolarge"}

=============================================================================
