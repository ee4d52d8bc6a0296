------------------------- MODULE ScanServiceProofs -------------------------
(***************************************************************************)
(* Proofs about ScanService, for any number of downloads, any contents and *)
(* any policies.  The inductive invariant relates a job to its file, its   *)
(* page and to the scans that its verdict, and every verdict of the cache, *)
(* go back to.                                                             *)
(***************************************************************************)
EXTENDS ScanService, TLAPS

-----------------------------------------------------------------------------
(* The inductive invariant.                                                *)
Statuses == {"none", "pending", "scanning"} \cup Final
Verdicts == {"clean", "infected"}

JobRec == [status : Statuses, listed : BOOLEAN, expired : BOOLEAN, alive : BOOLEAN,
           limit : Int, hit : {"miss"} \cup Verdicts]

Types ==
  /\ cfg \in Configs
  /\ at \in [Downloads -> {"new", "through", "redirected", "waiting", "got", "cut", "lost"}]
  /\ url \in [Downloads -> URLs \cup {"none"}]
  /\ content \in [Downloads -> Contents \cup {"none"}]
  /\ job \in [Downloads -> JobRec]
  /\ page \in [Downloads -> {"none", "polling", "notfound", "link", "threat", "toobig",
                             "forbidden"}]
  /\ got \subseteq Downloads
  /\ \A f \in known : f.verdict \in Verdicts

\* A download that has not begun has neither job nor page, and only a redirected
\* browser has a page.
StageInv ==
  \A d \in Downloads :
    /\ at[d] = "new" => job[d] = NoJob
    /\ page[d] # "none" \/ d \in got => at[d] = "redirected"
    /\ job[d].status # "none" => content[d] \in Contents

\* A job in the middle of its scan, or found clean, has its file until clean-up
\* comes; what clean-up has been to has none that is not leaked.
FileInv ==
  \A d \in Downloads :
    /\ job[d].listed /\ ~job[d].expired /\ job[d].status \in {"scanning", "clean"} => d \in files
    /\ job[d].expired => job[d].listed /\ (d \in files => d \in leaked)

\* What a page shows, and what a client was given, is by the final status of the job.
PageInv ==
  \A d \in Downloads :
    /\ page[d] = "link" => job[d].status \in {"clean", "error"}
    /\ page[d] = "threat" => job[d].status = "infected"
    /\ page[d] = "toobig" => job[d].status = "toolarge"
    /\ d \in got => job[d].status \in {"clean", "error"}
    /\ at[d] = "got" => job[d].status \in {"clean", "error", "toolarge"}

CleanEvidence(u) == \E s \in scans : ~s.whole \/ (s.url = u /\ s.content \notin Bad)
BadEvidence(u)   == \E s \in scans : (~s.whole \/ s.url = u) /\ s.content \in Bad
PartEvidence     == \E s \in scans : ~s.whole /\ s.content \in Bad

\* Every verdict of the cache has its evidence, and so has every one that a
\* goroutine found there.
CacheInv ==
  \A f \in known :
    /\ f.map = "url" /\ f.verdict = "clean" => CleanEvidence(f.key)
    /\ f.map = "url" /\ f.verdict = "infected" => BadEvidence(f.key)
    /\ f.map = "hash" /\ f.verdict = "infected"
         => f.key \in Bad \/ (f.key = "part" /\ PartEvidence)

HitInv ==
  \A d \in Downloads :
    /\ job[d].hit = "clean" => CleanEvidence(url[d])
    /\ job[d].hit = "infected" => BadEvidence(url[d])

IInv == /\ Types /\ StageInv /\ FileInv /\ FilesAccounted /\ PageInv
        /\ CacheInv /\ HitInv /\ VerdictsHaveEvidence

-----------------------------------------------------------------------------
(* The arithmetic of the limit.                                            *)

\* A number below the modulus is its own remainder.
LEMMA SmallRemainder == ASSUME NEW a \in Nat, NEW b \in Nat, a < b PROVE a % b = a
  BY SMT

\* The limit is an integer.
LEMMA LimitType == ASSUME NEW c \in Configs PROVE MaxSizeBytes(c) \in Int
<1>1. c.mb * 2^Shift \in Int
  BY ScanServiceAssumption, PowersOfTwo
<1>2. ASSUME NEW x \in Int, NEW h \in Nat \ {0} PROVE ((x + h) % (2 * h)) - h \in Int
  BY SMT
<1> QED
  BY <1>1, <1>2, PowersOfTwo DEF MaxSizeBytes, Wrap

\* A limit that is not negative and does not overflow is the one in force.
LEMMA LimitIsMeant ==
  ASSUME NEW c \in Configs, ~Overflows(c), LimitMeant(c) >= 0
  PROVE  MaxSizeBytes(c) = LimitMeant(c)
<1> DEFINE x == c.mb * 2^Shift
           h == 2^(Width - 1)
<1>1. x \in Nat /\ h \in Nat \ {0} /\ x < h
  BY ScanServiceAssumption, PowersOfTwo DEF Overflows, LimitMeant
<1>2. MaxSizeBytes(c) = ((x + h) % (2 * h)) - h
  BY PowersOfTwo DEF MaxSizeBytes, Wrap
<1> HIDE DEF x, h
<1>3. (x + h) % (2 * h) = x + h
  BY <1>1, SmallRemainder
<1> QED
  BY <1>1, <1>2, <1>3 DEF LimitMeant, x

-----------------------------------------------------------------------------
(* What the cache answers.                                                 *)
\* A lookup answers a miss or a verdict recorded for the key asked.
LEMMA CacheAnswer ==
  ASSUME NEW m, NEW k, NEW a \in Cache!Answers(m, k)
  PROVE  \/ a.verdict = "miss"
         \/ a \in known /\ a.map = m /\ a.key = k
  BY DEF Cache!Answers, Cache!Miss

-----------------------------------------------------------------------------
(* What the steps do, in the terms of the invariant.                       *)

\* A verdict of the cache for the URL is in hand.
Found(u, v) == v \in Verdicts /\ \E f \in known : f.map = "url" /\ f.key = u /\ f.verdict = v

\* RoundTrip passes the response on, takes a cached infection, or starts a job.
LEMMA RoundTripEffect ==
  ASSUME Types, NEW d \in Downloads, NEW u, NEW c, NEW l, NEW b, RoundTrip(d, u, c, l, b)
  PROVE  /\ at[d] = "new" /\ UNCHANGED <<cfg, page, got, known, scans, leaked>>
         /\ url' = [url EXCEPT ![d] = u] /\ content' = [content EXCEPT ![d] = c]
         /\ \/ at' = [at EXCEPT ![d] = "through"] /\ UNCHANGED <<job, files>>
            \/ /\ at' = [at EXCEPT ![d] = "redirected"] /\ Found(u, "infected")
               /\ job' = [job EXCEPT ![d] = Fresh("infected", FALSE)] /\ UNCHANGED files
            \/ /\ at' = [at EXCEPT ![d] = "redirected"]
               /\ job' = [job EXCEPT ![d] = Fresh("pending", TRUE)]
               /\ files' \in {files, files \cup {d}}
            \/ /\ at' = [at EXCEPT ![d] = "waiting"]
               /\ \/ job' = [job EXCEPT ![d] = Fresh("pending", TRUE)]
                  \/ job' = [job EXCEPT ![d] = Fresh("error", FALSE)]
               /\ files' \in {files, files \cup {d}}
<1>1. /\ at[d] = "new" /\ UNCHANGED <<cfg, page, got, known, scans, leaked>>
      /\ url' = [url EXCEPT ![d] = u] /\ content' = [content EXCEPT ![d] = c]
  BY DEF RoundTrip, storeVars, pageVars
<1>2. CASE ~IsScannable(cfg, MimeType[c]) \/ TooLarge(c, l)
  BY <1>1, <1>2 DEF RoundTrip, PassThrough, Becomes
<1>3. CASE ~(~IsScannable(cfg, MimeType[c]) \/ TooLarge(c, l))
  <2>1. PICK a \in Cache!Answers("url", u) :
          CASE a.verdict = "clean"    -> PassThrough(d)
            [] a.verdict = "infected" -> Preset(d)
            [] OTHER -> IF b THEN StartBrowserJob(d) ELSE StartCLIJob(d)
    BY <1>3 DEF RoundTrip
  <2>2. CASE a.verdict = "clean"
    BY <1>1, <2>1, <2>2 DEF PassThrough, Becomes
  <2>3. CASE a.verdict = "infected"
    <3>1. Preset(d)
      BY <2>1, <2>3
    <3>2. Found(u, "infected")
      BY <2>3, CacheAnswer DEF Found, Verdicts
    <3> QED
      BY <1>1, <3>1, <3>2 DEF Preset, Becomes, NewJob
  <2>4. CASE a.verdict # "clean" /\ a.verdict # "infected"
    <3>1. StartBrowserJob(d) \/ StartCLIJob(d)
      BY <2>1, <2>4
    <3> QED
      BY <1>1, <3>1 DEF StartBrowserJob, StartCLIJob, Becomes, NewJob
  <2> QED
    BY <2>2, <2>3, <2>4
<1> QED
  BY <1>2, <1>3

\* The job as Publish(d, s) leaves it.
Ended(d, s) == Job(s, job[d].listed, job[d].expired, FALSE)

\* The evidence for a verdict on download d that is wrong about its content.
Sound(d, s) ==
  /\ s = "clean" /\ content[d] \in Bad => CleanEvidence(url[d])
  /\ s = "infected" /\ content[d] \notin Bad => BadEvidence(url[d])

\* What a hash lookup that answers "infected" shows about the download.
LEMMA HashEvidence ==
  ASSUME CacheInv, NEW d, NEW n, "infected" \in HashAnswers(d, n), content[d] \notin Bad
  PROVE  PartEvidence
<1>1. PICK a \in Cache!Answers("hash", Hash(d, n)) : a.verdict = "infected"
  BY DEF HashAnswers
<1>2. a \in known /\ a.map = "hash" /\ a.key = Hash(d, n)
  BY <1>1, CacheAnswer
<1>3. Hash(d, n) \notin Bad
  BY ScanServiceAssumption DEF Hash
<1> QED
  BY <1>1, <1>2, <1>3 DEF CacheInv

\* The goroutine begins the scan with what the cache says of the URL, or gives up.
LEMMA OpenTempEffect ==
  ASSUME NEW d \in Downloads, OpenTemp(d), Types
  PROVE  /\ job[d].status = "pending"
         /\ UNCHANGED <<cfg, at, url, content, page, got, known, scans>>
         /\ \/ /\ files' = files \cup {d}
               /\ leaked' = IF job[d].listed /\ ~job[d].expired THEN leaked ELSE leaked \cup {d}
               /\ \E h : /\ h = "miss" \/ Found(url[d], h)
                         /\ job' = [job EXCEPT ![d] = [job[d] EXCEPT !.status = "scanning",
                                                     !.limit = MaxSize, !.hit = h]]
            \/ /\ job' = [job EXCEPT ![d] = Ended(d, "error")]
               /\ UNCHANGED <<files, leaked>>
<1>1. job[d].status = "pending" /\ UNCHANGED <<cfg, at, url, content, page, got, known, scans>>
  BY DEF OpenTemp, dlVars, storeVars, pageVars
<1>2. CASE Publish(d, "error") /\ UNCHANGED <<files, leaked>>
  BY <1>1, <1>2 DEF Publish, NewJob, Ended
<1>3. ASSUME NEW a \in Cache!Answers("url", url[d])
      PROVE  a.verdict = "miss" \/ Found(url[d], a.verdict)
  BY CacheAnswer DEF Found, Types
<1> QED
  BY <1>1, <1>2, <1>3 DEF OpenTemp, NewJob

\* A scan that ends publishes a final status; a verdict has its evidence, in the
\* cache too.
LEMMA VerdictEffect ==
  ASSUME NEW d \in Downloads, IInv,
         ScanTooLarge(d) \/ ScanFails(d) \/ ScanKnown(d) \/ ScanAnswered(d)
  PROVE  /\ job[d].status = "scanning"
         /\ UNCHANGED <<cfg, at, url, content, page, got, files, leaked>> /\ scans \subseteq scans'
         /\ \E s \in Final : job' = [job EXCEPT ![d] = Ended(d, s)] /\ Sound(d, s)'
         /\ CacheInv' /\ \A f \in known' : f.verdict \in Verdicts
<1> USE DEF IInv, Scanning
<1>1. CASE ScanTooLarge(d)
  BY <1>1 DEF ScanTooLarge, Publish, NewJob, Ended, Final, dlVars, storeVars, pageVars, Sound, CacheInv,
     CleanEvidence, BadEvidence, PartEvidence, Types
<1>2. CASE ScanFails(d)
  BY <1>2 DEF ScanFails, Publish, NewJob, Ended, Final, dlVars, storeVars, pageVars, Sound, CacheInv,
     CleanEvidence, BadEvidence, PartEvidence, Types
<1>3. CASE ScanKnown(d)
  <2>0. PICK n \in 0..Written(d) :
          \E g \in HashAnswers(d, n) : Publish(d, mergeResults(job[d].hit, g))
    BY <1>3 DEF ScanKnown
  <2>1. PICK h \in HashAnswers(d, n) : Publish(d, mergeResults(job[d].hit, h))
    BY <2>0
  <2>2. job[d].status = "scanning" /\ job[d].hit \in Verdicts
        /\ UNCHANGED <<cfg, at, url, content, page, got, files, leaked, known, scans>>
    BY <1>3 DEF ScanKnown, dlVars, storeVars, pageVars, Types, JobRec
  <2>3. CacheInv' /\ \A f \in known' : f.verdict \in Verdicts
    BY <2>2 DEF CacheInv, CleanEvidence, BadEvidence, PartEvidence, Types
  <2>4. PICK s \in {"clean", "infected"} :
          /\ s = mergeResults(job[d].hit, h)
          /\ s = "clean" => job[d].hit = "clean"
          /\ s = "infected" => job[d].hit = "infected" \/ h = "infected"
    BY <2>2 DEF mergeResults, Verdicts
  <2>5. Sound(d, s)
    <3>1. s = "clean" => CleanEvidence(url[d])
      BY <2>4 DEF HitInv
    <3>2. ASSUME s = "infected", content[d] \notin Bad PROVE BadEvidence(url[d])
      <4>1. CASE job[d].hit = "infected"
        BY <4>1 DEF HitInv
      <4>2. CASE h = "infected"
        BY <4>2, <3>2, HashEvidence DEF PartEvidence, BadEvidence
      <4> QED
        BY <2>4, <3>2, <4>1, <4>2
    <3> QED
      BY <3>1, <3>2 DEF Sound
  <2>6. Sound(d, s)'
    BY <2>2, <2>4, <2>5 DEF Sound, CleanEvidence, BadEvidence
  <2> QED
    BY <2>1, <2>2, <2>3, <2>4, <2>6 DEF Publish, NewJob, Ended, Final
<1>4. CASE ScanAnswered(d)
  <2>1. PICK v \in ClamdVerdicts(d), h \in HashAnswers(d, Written(d)) :
          /\ Publish(d, mergeResults(v, h))
          /\ known' = known \cup Cache!Facts(url[d], Hash(d, Written(d)), mergeResults(v, h))
    BY <1>4 DEF ScanAnswered
  <2> DEFINE s == mergeResults(v, h)
             x == [url |-> url[d], content |-> content[d], whole |-> Whole(d)]
             k == Hash(d, Written(d))
  <2>2. /\ job[d].status = "scanning" /\ scans' = scans \cup {x}
        /\ UNCHANGED <<cfg, at, url, content, page, got, files, leaked>>
    BY <1>4 DEF ScanAnswered, Scanning, dlVars, pageVars
  <2>x. x \in scans' /\ x.url = url[d] /\ x.content = content[d] /\ (x.whole <=> Whole(d))
    BY <2>2
  <2> HIDE DEF x
  <2>3. /\ v \in {"clean", "infected"}
        /\ v = "clean" => content[d] \notin Bad \/ ~Whole(d)
        /\ v = "infected" => content[d] \in Bad
    BY DEF ClamdVerdicts
  <2>4. s \in {"clean", "infected"} /\ (s = "clean" => v = "clean")
        /\ (s = "infected" => v = "infected" \/ h = "infected")
    BY <2>3 DEF mergeResults
  <2>5. CleanEvidence(url[d])' \/ s = "infected"
    BY <2>2, <2>x, <2>3, <2>4 DEF CleanEvidence
  <2>6. s = "infected" => BadEvidence(url[d])'
    <3>1. CASE v = "infected"
      BY <2>2, <2>x, <2>3, <3>1 DEF BadEvidence
    <3>2. CASE v # "infected" /\ h = "infected" /\ content[d] \notin Bad
      BY <2>2, <3>2, HashEvidence DEF PartEvidence, BadEvidence
    <3>3. CASE content[d] \in Bad
      BY <2>2, <2>x, <3>3 DEF BadEvidence
    <3> QED
      BY <2>4, <3>1, <3>2, <3>3
  <2>7. s = "infected" => k \in Bad \/ (k = "part" /\ PartEvidence')
    <3>1. CASE content[d] \in Bad
      BY <2>2, <2>x, <3>1 DEF Hash, PartEvidence, Whole
    <3>2. CASE content[d] \notin Bad /\ h = "infected"
      <4>1. PICK a \in Cache!Answers("hash", k) : a.verdict = "infected"
        BY <3>2 DEF HashAnswers
      <4>2. k \in Bad \/ (k = "part" /\ PartEvidence)
        BY <4>1, CacheAnswer DEF CacheInv
      <4> QED
        BY <2>2, <4>2 DEF PartEvidence
    <3> QED
      BY <2>3, <2>4, <3>1, <3>2
  <2>8. CacheInv' /\ \A f \in known' : f.verdict \in Verdicts
    <3> HIDE DEF s, k
    <3>1. /\ \A u : CleanEvidence(u) => CleanEvidence(u)'
          /\ \A u : BadEvidence(u) => BadEvidence(u)'
          /\ PartEvidence => PartEvidence'
      BY <2>2 DEF CleanEvidence, BadEvidence, PartEvidence
    <3>2. known' = known \cup {Cache!Fact("url", url[d], s, 0), Cache!Fact("hash", k, s, 0)}
      BY <2>1 DEF Cache!Facts, s, k
    <3>3. \A f \in known' : \/ f \in known
                            \/ f.map = "url" /\ f.key = url[d] /\ f.verdict = s
                            \/ f.map = "hash" /\ f.key = k /\ f.verdict = s
      BY <3>2 DEF Cache!Fact
    <3>4. CleanEvidence(url[d])' \/ s = "infected"
      BY <2>5 DEF s
    <3> QED
      BY <3>1, <3>3, <3>4, <2>2, <2>4, <2>6, <2>7 DEF CacheInv, Types, Verdicts
  <2>9. Sound(d, s)'
    BY <2>2, <2>4, <2>5, <2>6 DEF Sound
  <2> QED
    BY <2>1, <2>2, <2>4, <2>8, <2>9 DEF Publish, NewJob, Ended, Final
<1> QED
  BY <1>1, <1>2, <1>3, <1>4

-----------------------------------------------------------------------------
(* IInv is inductive.                                                      *)

\* The fields of a job as the actions make or update it: before there is one.
LEMMA NoJobFields ==
  /\ NoJob \in JobRec /\ NoJob.status = "none" /\ NoJob.hit = "miss"
  /\ ~NoJob.listed /\ ~NoJob.expired
  BY DEF NoJob, Job, JobRec, Statuses

\* The jobs of RoundTrip.
LEMMA FreshFields ==
  ASSUME NEW s \in Statuses, NEW a \in BOOLEAN
  PROVE  /\ Fresh(s, a) \in JobRec /\ Fresh(s, a).status = s /\ Fresh(s, a).hit = "miss"
         /\ Fresh(s, a).listed /\ ~Fresh(s, a).expired
  BY DEF Fresh, Job, JobRec

\* The job after Publish.
LEMMA EndedFields ==
  ASSUME Types, NEW d \in Downloads, NEW s \in Final
  PROVE  /\ Ended(d, s) \in JobRec /\ Ended(d, s).status = s /\ Ended(d, s).hit = "miss"
         /\ Ended(d, s).listed = job[d].listed /\ Ended(d, s).expired = job[d].expired
  BY DEF Types, Ended, Job, JobRec, Statuses

\* The job after RemoveFile.
LEMMA ExpiredFields ==
  ASSUME Types, NEW d \in Downloads
  PROVE  LET r == [job[d] EXCEPT !.expired = TRUE]
         IN  /\ r \in JobRec /\ r.status = job[d].status /\ r.hit = job[d].hit
             /\ r.listed = job[d].listed /\ r.expired
  BY DEF Types, JobRec

\* The job after DeleteJob.
LEMMA DeletedFields ==
  ASSUME Types, NEW d \in Downloads
  PROVE  LET r == [job[d] EXCEPT !.expired = FALSE, !.listed = FALSE]
         IN  /\ r \in JobRec /\ r.status = job[d].status /\ r.hit = job[d].hit
             /\ ~r.listed /\ ~r.expired
<1>1. job[d] \in JobRec
  BY DEF Types
<1>2. [job[d] EXCEPT !.expired = FALSE, !.listed = FALSE] \in JobRec
  BY <1>1 DEF JobRec
<1> QED
  BY <1>1, <1>2 DEF JobRec

\* The initial states satisfy the invariant.
LEMMA InitIInv == Init => IInv
<1> SUFFICES ASSUME Init PROVE IInv
  OBVIOUS
<1>1. Types
  BY NoJobFields DEF Init, Types
<1>2. StageInv /\ FileInv /\ FilesAccounted /\ PageInv
  BY NoJobFields DEF Init, StageInv, FileInv, FilesAccounted, PageInv
<1>3. CacheInv /\ HitInv /\ VerdictsHaveEvidence
  BY NoJobFields DEF Init, CacheInv, HitInv, VerdictsHaveEvidence
<1> QED
  BY <1>1, <1>2, <1>3 DEF IInv

\* A response that arrives keeps the invariant, whatever RoundTrip does with it.
LEMMA RoundTripStep ==
  ASSUME IInv, NEW d \in Downloads, NEW u \in URLs, NEW c \in Contents, NEW l, NEW b,
         RoundTrip(d, u, c, l, b)
  PROVE  IInv'
<1> USE DEF IInv
<1>1. /\ at[d] = "new" /\ UNCHANGED <<cfg, page, got, known, scans, leaked>>
      /\ url' = [url EXCEPT ![d] = u] /\ content' = [content EXCEPT ![d] = c]
  BY DEF RoundTrip, storeVars, pageVars
<1>0. job[d] = NoJob /\ page[d] = "none" /\ d \notin got
  BY <1>1 DEF StageInv
<1>2. \E a \in {"through", "redirected", "waiting"} : at' = [at EXCEPT ![d] = a]
  BY RoundTripEffect
<1>3. CASE UNCHANGED <<job, files>>
  <2>1. Types'
    BY <1>1, <1>0, <1>2, <1>3 DEF Types
  <2>4. StageInv' /\ PageInv'
    BY <1>1, <1>0, <1>2, <1>3, NoJobFields DEF Types, StageInv, PageInv
  <2>2. FileInv' /\ FilesAccounted'
    BY <1>1, <1>0, <1>3 DEF FileInv, FilesAccounted
  <2>3. CacheInv' /\ HitInv' /\ VerdictsHaveEvidence'
    BY <1>1, <1>0, <1>3, NoJobFields DEF Types, CacheInv, HitInv, VerdictsHaveEvidence, CleanElsewhere, CleanEvidence,
       BadEvidence, PartEvidence
  <2> QED
    BY <2>1, <2>2, <2>3, <2>4
<1>4. ASSUME NEW s \in {"infected", "pending", "error"}, NEW a \in BOOLEAN,
             job' = [job EXCEPT ![d] = Fresh(s, a)], s = "infected" => Found(u, "infected"),
             files' \in {files, files \cup {d}}
      PROVE  IInv'
  <2>0. /\ Fresh(s, a) \in JobRec
        /\ Fresh(s, a).status = s /\ Fresh(s, a).listed /\ ~Fresh(s, a).expired
        /\ Fresh(s, a).hit = "miss"
    BY FreshFields DEF Statuses, Final
  <2>1. job' \in [Downloads -> JobRec]
    BY <1>4, <2>0 DEF Types
  <2>8. /\ job'[d].status = s /\ job'[d].listed /\ ~job'[d].expired /\ job'[d].hit = "miss"
        /\ \A e \in Downloads : e # d => job'[e] = job[e]
    <3>1. job'[d] = Fresh(s, a) /\ \A e \in Downloads : e # d => job'[e] = job[e]
      BY <1>4 DEF Types
    <3> QED
      BY <2>0, <3>1, Zenon
  <2>2. Types'
    <3>1. at' \in [Downloads -> {"new", "through", "redirected", "waiting", "got", "cut", "lost"}]
      BY <1>1, <1>2, <1>4 DEF Types
    <3> QED
      BY <1>1, <1>2, <2>1, <3>1 DEF Types
  <2>6. StageInv'
    BY <1>1, <1>0, <1>2, <2>8 DEF Types, StageInv
  <2>7. PageInv'
    <3>1. /\ at'[d] # "got" /\ \A e \in Downloads : e # d => at'[e] = at[e]
      BY <1>2 DEF Types
    <3> QED
      BY <1>1, <1>0, <2>8, <3>1 DEF PageInv
  <2>3. FileInv' /\ FilesAccounted'
    BY <1>1, <1>0, <1>4, <2>8 DEF FileInv, FilesAccounted
  <2>4. CacheInv' /\ HitInv'
    BY <1>1, <1>0, <2>8 DEF Types, CacheInv, HitInv, CleanEvidence, BadEvidence, PartEvidence
  <2>5. VerdictsHaveEvidence'
    BY <1>1, <1>0, <1>4, <2>8 DEF Types, CacheInv, VerdictsHaveEvidence, CleanElsewhere, BadEvidence, Found
  <2> QED
    BY <2>2, <2>3, <2>4, <2>5, <2>6, <2>7
<1> QED
  BY <1>3, <1>4, RoundTripEffect

\* The invariant's parts about verdicts depend only on these variables.
LEMMA CacheFrame ==
  ASSUME UNCHANGED <<known, scans>>, CacheInv
  PROVE  CacheInv'
  BY DEF CacheInv, CleanEvidence, BadEvidence, PartEvidence

\* A scan that begins keeps the invariant: its file is there or is known to be leaked.
LEMMA OpenTempStep == ASSUME IInv, NEW d \in Downloads, OpenTemp(d) PROVE IInv'
<1> USE DEF IInv
<1>1. job[d].status = "pending" /\ UNCHANGED <<cfg, at, url, content, page, got, known, scans>>
  BY DEF OpenTemp, dlVars, storeVars, pageVars
<1>2. job[d] \in JobRec
  BY DEF Types
<1>3. CacheInv'
  BY <1>1, CacheFrame
<1>4. ASSUME NEW h, h = "miss" \/ Found(url[d], h),
             files' = files \cup {d},
             leaked' = IF job[d].listed /\ ~job[d].expired THEN leaked ELSE leaked \cup {d},
             job' = [job EXCEPT ![d] = [job[d] EXCEPT !.status = "scanning",
                                          !.limit = MaxSize, !.hit = h]]
      PROVE  IInv'
  <2> DEFINE r == [job[d] EXCEPT !.status = "scanning", !.limit = MaxSize, !.hit = h]
  <2>1. /\ r \in JobRec /\ r.status = "scanning" /\ r.hit = h
        /\ r.listed = job[d].listed /\ r.expired = job[d].expired
    <3>1. MaxSize \in Int /\ h \in {"miss"} \cup Verdicts
      BY <1>4, LimitType DEF MaxSize, Found, Types
    <3>2. PICK n \in Int : n = MaxSize
      BY <3>1
    <3> QED
      BY <1>2, <3>1, <3>2 DEF JobRec, Statuses
  <2>2. job' = [job EXCEPT ![d] = r]
    BY <1>4
  <2> HIDE DEF r
  <2>3. job' \in [Downloads -> JobRec]
    BY <2>1, <2>2 DEF Types
  <2>4. /\ job'[d].status = "scanning" /\ job'[d].hit = h
        /\ job'[d].listed = job[d].listed /\ job'[d].expired = job[d].expired
        /\ \A e \in Downloads : e # d => job'[e] = job[e]
    <3>1. job'[d] = r /\ \A e \in Downloads : e # d => job'[e] = job[e]
      BY <2>2 DEF Types
    <3> QED
      BY <2>1, <3>1
  <2>5. Types'
    BY <1>1, <2>3 DEF Types
  <2>6. StageInv' /\ PageInv'
    BY <1>1, <2>4, NoJobFields DEF StageInv, PageInv
  <2>7. FileInv' /\ FilesAccounted'
    BY <1>4, <2>4 DEF FileInv, FilesAccounted
  <2>8. HitInv' /\ VerdictsHaveEvidence'
    BY <1>1, <1>4, <2>4 DEF HitInv, VerdictsHaveEvidence, CleanElsewhere, CacheInv, Found,
       CleanEvidence, BadEvidence
  <2> QED
    BY <1>3, <2>5, <2>6, <2>7, <2>8
<1>5. CASE job' = [job EXCEPT ![d] = Ended(d, "error")] /\ UNCHANGED <<files, leaked>>
  <2>1. /\ Ended(d, "error") \in JobRec /\ Ended(d, "error").status = "error"
        /\ Ended(d, "error").hit = "miss"
        /\ Ended(d, "error").listed = job[d].listed /\ Ended(d, "error").expired = job[d].expired
    <3>1. "error" \in Final
      BY DEF Final
    <3> QED
      BY <3>1, EndedFields, Zenon
  <2>2. job' \in [Downloads -> JobRec]
    BY <1>5, <2>1 DEF Types
  <2>3. /\ job'[d].status = "error" /\ job'[d].hit = "miss"
        /\ job'[d].listed = job[d].listed /\ job'[d].expired = job[d].expired
        /\ \A e \in Downloads : e # d => job'[e] = job[e]
    <3>1. job'[d] = Ended(d, "error") /\ \A e \in Downloads : e # d => job'[e] = job[e]
      BY <1>5 DEF Types
    <3> QED
      BY <2>1, <3>1
  <2>4. Types'
    BY <1>1, <2>2 DEF Types
  <2>5. StageInv' /\ PageInv'
    BY <1>1, <2>3, NoJobFields DEF StageInv, PageInv
  <2>6. FileInv' /\ FilesAccounted'
    BY <1>5, <2>3 DEF FileInv, FilesAccounted
  <2>7. HitInv' /\ VerdictsHaveEvidence'
    BY <1>1, <2>3 DEF HitInv, VerdictsHaveEvidence, CleanElsewhere, CleanEvidence, BadEvidence
  <2> QED
    BY <1>3, <2>4, <2>5, <2>6, <2>7
<1> QED
  BY <1>4, <1>5, OpenTempEffect

\* A scan that ends keeps it, by VerdictEffect.
LEMMA VerdictStep ==
  ASSUME IInv, NEW d \in Downloads,
         ScanTooLarge(d) \/ ScanFails(d) \/ ScanKnown(d) \/ ScanAnswered(d)
  PROVE  IInv'
<1> USE DEF IInv
<1>1. /\ job[d].status = "scanning" /\ scans \subseteq scans'
      /\ UNCHANGED <<cfg, at, url, content, page, got, files, leaked>>
      /\ CacheInv' /\ \A f \in known' : f.verdict \in Verdicts
  BY VerdictEffect
<1>2. PICK s \in Final : job' = [job EXCEPT ![d] = Ended(d, s)] /\ Sound(d, s)'
  BY VerdictEffect
<1>3. /\ Ended(d, s) \in JobRec /\ Ended(d, s).status = s /\ Ended(d, s).hit = "miss"
      /\ Ended(d, s).listed = job[d].listed /\ Ended(d, s).expired = job[d].expired
  BY EndedFields, Zenon
<1>4. job' \in [Downloads -> JobRec]
  BY <1>2, <1>3 DEF Types
<1>5. /\ job'[d].status = s /\ job'[d].hit = "miss"
      /\ job'[d].listed = job[d].listed /\ job'[d].expired = job[d].expired
      /\ \A e \in Downloads : e # d => job'[e] = job[e]
  <2>1. job'[d] = Ended(d, s) /\ \A e \in Downloads : e # d => job'[e] = job[e]
    BY <1>2 DEF Types
  <2> QED
    BY <1>3, <2>1
<1>6. Types'
  BY <1>1, <1>4 DEF Types
<1>7. StageInv' /\ PageInv'
  BY <1>1, <1>5, NoJobFields DEF StageInv, PageInv
<1>8. FileInv' /\ FilesAccounted'
  BY <1>1, <1>5 DEF FileInv, FilesAccounted
<1>9. HitInv' /\ VerdictsHaveEvidence'
  BY <1>1, <1>2, <1>5 DEF HitInv, VerdictsHaveEvidence, CleanElsewhere, CleanEvidence, BadEvidence, Sound
<1> QED
  BY <1>1, <1>6, <1>7, <1>8, <1>9

\* A step of a client or of a page: no job and no file changes.
LEMMA ClientStep ==
  ASSUME IInv, NEW d \in Downloads, ServeCLI(d) \/ LoadPage(d) \/ Poll(d) \/ Download(d)
  PROVE  IInv'
<1> USE DEF IInv
<1>1. UNCHANGED <<cfg, url, content, job, files, known, scans, leaked>>
  BY DEF ServeCLI, LoadPage, Poll, Download, PageFrame, dlVars, storeVars
<1>2. FileInv' /\ FilesAccounted' /\ CacheInv' /\ HitInv' /\ VerdictsHaveEvidence'
  BY <1>1, CacheFrame DEF FileInv, FilesAccounted, HitInv, VerdictsHaveEvidence,
     CleanElsewhere, CleanEvidence, BadEvidence
<1>3. CASE ServeCLI(d)
  <2>1. /\ at[d] = "waiting" /\ UNCHANGED <<page, got>> /\ job[d].status \in Final
        /\ at' = [at EXCEPT ![d] = IF job[d].status = "infected" THEN "cut" ELSE "got"]
    BY <1>3 DEF ServeCLI, Becomes, pageVars
  <2>2. /\ at'[d] \in {"cut", "got"} /\ at'[d] = "got" => job[d].status # "infected"
        /\ \A e \in Downloads : e # d => at'[e] = at[e]
    BY <2>1 DEF Types
  <2>3. Types' /\ StageInv'
    BY <1>1, <2>1, <2>2 DEF Types, StageInv
  <2>4. PageInv'
    BY <1>1, <2>1, <2>2 DEF PageInv, Final
  <2> QED
    BY <1>2, <2>3, <2>4
<1>4. ASSUME NEW p, page' = [page EXCEPT ![d] = p], UNCHANGED <<at, got>>, at[d] = "redirected",
             p \in {"polling", "notfound", "link", "threat", "toobig", "forbidden"},
             p = "link" => job[d].status \in {"clean", "error"},
             p = "threat" => job[d].status = "infected",
             p = "toobig" => job[d].status = "toolarge"
      PROVE  IInv'
  BY <1>1, <1>2, <1>4 DEF Types, StageInv, PageInv
<1>5. CASE LoadPage(d)
  <2>1. /\ at[d] = "redirected" /\ UNCHANGED <<at, got>>
        /\ \E p \in {"polling", "notfound"} : page' = [page EXCEPT ![d] = p]
    BY <1>5 DEF LoadPage, Shows, PageFrame, dlVars
  <2> QED
    BY <1>4, <2>1
<1>6. CASE Poll(d)
  <2>1. page[d] = "polling" /\ at[d] = "redirected" /\ UNCHANGED <<at, got>>
    BY <1>6 DEF Poll, PageFrame, dlVars, StageInv
  <2>2. job[d].status \in Statuses
    BY DEF Types, JobRec
  <2> DEFINE s == statusName(job[d].status)
  <2>4. /\ s = "infected" => job[d].status = "infected"
        /\ s = "toobig" => job[d].status = "toolarge"
        /\ s \in {"clean", "error"} => job[d].status = s
    BY <2>2 DEF statusName, Statuses, Final
  <2>5. page' = [page EXCEPT ![d] = Shown(s)]
    BY <1>6 DEF Poll, Shows
  <2>6. /\ Shown(s) \in {"link", "threat", "toobig", "polling"}
        /\ Shown(s) = "link" => s \in {"clean", "error"}
        /\ Shown(s) = "threat" => s = "infected"
        /\ Shown(s) = "toobig" => s = "toobig"
    BY DEF Shown
  <2> HIDE DEF s
  <2> QED
    BY <1>4, <2>1, <2>4, <2>5, <2>6
<1>7. CASE Download(d)
  <2>1. at[d] = "redirected" /\ UNCHANGED at
    BY <1>7 DEF Download, PageFrame, dlVars
  <2>2. CASE UNCHANGED got
    <3>1. UNCHANGED page \/ \E p \in {"notfound", "forbidden"} : page' = [page EXCEPT ![d] = p]
      BY <1>7 DEF Download, Shows
    <3>2. CASE UNCHANGED page
      BY <1>1, <1>2, <2>1, <2>2, <3>2 DEF Types, StageInv, PageInv
    <3> QED
      BY <1>4, <2>1, <2>2, <3>1, <3>2
  <2>3. CASE got' # got
    <3>1. got' = got \cup {d} /\ UNCHANGED page /\ job[d].status \in {"clean", "error"}
      BY <1>7, <2>3 DEF Download, ServeFile
    <3> QED
      BY <1>1, <1>2, <2>1, <3>1 DEF Types, StageInv, PageInv
  <2> QED
    BY <2>2, <2>3
<1> QED
  BY <1>3, <1>5, <1>6, <1>7

\* Clean-up keeps it: the file goes before the job.
LEMMA CleanupStep ==
  ASSUME IInv, NEW d \in Downloads, RemoveFile(d) \/ DeleteJob(d)
  PROVE  IInv'
<1> USE DEF IInv
<1>1. UNCHANGED <<cfg, at, url, content, page, got, known, scans>>
  BY DEF RemoveFile, DeleteJob, dlVars, storeVars, pageVars
<1>2. ASSUME NEW r \in JobRec, job' = [job EXCEPT ![d] = r],
             r.status = job[d].status, r.hit = job[d].hit, at[d] # "new"
      PROVE  Types' /\ StageInv' /\ PageInv' /\ CacheInv' /\ HitInv' /\ VerdictsHaveEvidence'
  <2>1. Types'
    BY <1>1, <1>2 DEF Types
  <2>2. /\ job'[d].status = job[d].status /\ job'[d].hit = job[d].hit
        /\ \A e \in Downloads : e # d => job'[e] = job[e]
    BY <1>2 DEF Types
  <2>3. \A e \in Downloads : job'[e].status = job[e].status /\ job'[e].hit = job[e].hit
    BY <2>2
  <2>4. StageInv'
    BY <1>1, <1>2, <2>2 DEF StageInv
  <2> QED
    BY <1>1, <2>1, <2>3, <2>4, CacheFrame DEF PageInv, HitInv, VerdictsHaveEvidence,
       CleanElsewhere, CleanEvidence, BadEvidence
<1>3. job[d].listed => at[d] # "new"
  BY NoJobFields DEF StageInv
<1>4. CASE RemoveFile(d)
  <2> DEFINE r == [job[d] EXCEPT !.expired = TRUE]
  <2>1. job[d].listed /\ job' = [job EXCEPT ![d] = r]
    BY <1>4 DEF RemoveFile, NewJob
  <2>2. /\ r \in JobRec /\ r.status = job[d].status /\ r.hit = job[d].hit
        /\ r.listed = job[d].listed /\ r.expired
    BY ExpiredFields
  <2> HIDE DEF r
  <2>3. job'[d] = r /\ \A e \in Downloads : e # d => job'[e] = job[e]
    BY <2>1 DEF Types
  <2>4. \/ files' = files \ {d} /\ UNCHANGED leaked
        \/ leaked' = leaked \cup ({d} \cap files) /\ UNCHANGED files
    BY <1>4 DEF RemoveFile
  <2>5. FileInv' /\ FilesAccounted'
    BY <2>1, <2>2, <2>3, <2>4 DEF FileInv, FilesAccounted
  <2> QED
    BY <1>2, <1>3, <2>1, <2>2, <2>5
<1>5. CASE DeleteJob(d)
  <2> DEFINE r == [job[d] EXCEPT !.expired = FALSE, !.listed = FALSE]
  <2>1. job[d].expired /\ job' = [job EXCEPT ![d] = r] /\ UNCHANGED <<files, leaked>>
    BY <1>5 DEF DeleteJob, NewJob
  <2>2. /\ r \in JobRec /\ r.status = job[d].status /\ r.hit = job[d].hit
        /\ ~r.listed /\ ~r.expired
    BY DeletedFields
  <2> HIDE DEF r
  <2>3. job'[d] = r /\ \A e \in Downloads : e # d => job'[e] = job[e]
    BY <2>1 DEF Types
  <2>4. job[d].listed
    BY <2>1 DEF FileInv
  <2>5. FileInv' /\ FilesAccounted'
    BY <2>1, <2>2, <2>3 DEF FileInv, FilesAccounted
  <2> QED
    BY <1>2, <1>3, <2>1, <2>2, <2>4, <2>5
<1> QED
  BY <1>4, <1>5

\* A restart keeps it: every file that is left counts as leaked.
LEMMA RestartStep == ASSUME IInv, Restart PROVE IInv'
<1> USE DEF IInv
<1>1. /\ UNCHANGED <<cfg, url, content, files, page, got, known, scans>>
      /\ leaked' = leaked \cup files
      /\ at' = [d \in Downloads |-> IF at[d] = "waiting" THEN "lost" ELSE at[d]]
      /\ job' = [d \in Downloads |-> Job(job[d].status, FALSE, FALSE, FALSE)]
  BY DEF Restart, storeVars, pageVars
<1>2. \A d \in Downloads : job[d].status \in Statuses
  BY DEF Types, JobRec
<1>3. \A d \in Downloads : /\ job'[d] \in JobRec /\ job'[d].status = job[d].status
                           /\ job'[d].hit = "miss" /\ ~job'[d].listed /\ ~job'[d].expired
  BY <1>1, <1>2 DEF Job, JobRec
<1>4. Types'
  <2>1. job' \in [Downloads -> JobRec]
    BY <1>1, <1>3
  <2> QED
    BY <1>1, <2>1 DEF Types
<1>5. StageInv'
  <2>1. \A d \in Downloads : at'[d] = "new" => job'[d] = NoJob
    BY <1>1, NoJobFields DEF StageInv, NoJob
  <2> QED
    BY <1>1, <1>3, <2>1 DEF StageInv, Types
<1>6. FileInv' /\ FilesAccounted' /\ PageInv'
  <2>1. FileInv'
    BY <1>3 DEF FileInv
  <2>2. FilesAccounted'
    BY <1>1 DEF FilesAccounted
  <2>3. PageInv'
    BY <1>1, <1>3 DEF PageInv
  <2> QED
    BY <2>1, <2>2, <2>3
<1>7. CacheInv' /\ HitInv' /\ VerdictsHaveEvidence'
  <2>1. CacheInv'
    BY <1>1, CacheFrame
  <2>2. HitInv'
    BY <1>3 DEF HitInv
  <2>3. VerdictsHaveEvidence'
    <3>1. UNCHANGED <<url, content, scans>> /\ \A d \in Downloads : job'[d].status = job[d].status
      BY <1>1, <1>3
    <3> QED
      BY <3>1, Zenon DEF VerdictsHaveEvidence, CleanElsewhere
  <2> QED
    BY <2>1, <2>2, <2>3
<1> QED
  BY <1>4, <1>5, <1>6, <1>7

\* The invariant holds in every reachable state.
THEOREM Invariance == Spec => []IInv
<1>1. IInv /\ [Next]_vars => IInv'
  <2> SUFFICES ASSUME IInv, [Next]_vars PROVE IInv'
    OBVIOUS
  <2>1. CASE SetConfig \/ UNCHANGED vars
    <3>1. /\ UNCHANGED <<at, url, content, job, files, page, got, known, scans, leaked>>
          /\ cfg' \in Configs
      BY <2>1 DEF SetConfig, vars, dlVars, storeVars, pageVars, IInv, Types
    <3> QED
      BY <3>1, CacheFrame DEF IInv, Types, StageInv, FileInv, FilesAccounted, PageInv, HitInv,
         VerdictsHaveEvidence, CleanElsewhere, CleanEvidence, BadEvidence
  <2> QED
    BY <2>1, RoundTripStep, OpenTempStep, VerdictStep, ClientStep, CleanupStep, RestartStep
       DEF Next, Scan
<1> QED
  BY <1>1, InitIInv, PTL DEF Spec

-----------------------------------------------------------------------------
(* The theorems.                                                           *)

\* A verdict that is wrong about a download's content comes from another scan:
\* errors, limits, clean-up and restarts put none into the cache.
THEOREM EvidenceForVerdicts == Spec => []VerdictsHaveEvidence
  BY Invariance, PTL DEF IInv

\* Clean-up leaves no file behind but those it could not remove, those of an
\* earlier process and those opened again after it.
THEOREM FilesAreAccounted == Spec => []FilesAccounted
  BY Invariance, PTL DEF IInv

\* As long as the job exists, the page's link, warning and refusal stay true.
THEOREM PageIsTruthful == Spec => []PageTruthful
<1>1. IInv => PageTruthful
  BY DEF IInv, FileInv, PageInv, PageTruthful
<1> QED
  BY <1>1, Invariance, PTL

\* A download reaches its client at once only by the policy in force, its limit or an
\* earlier verdict (or a limit that overflows), and otherwise from a job found clean,
\* too large or in error: the scan fails open, and in no other way.
THEOREM PassesByPolicy == Spec => PassedByPolicy
<1>1. ASSUME IInv, [Next]_vars, NEW d \in Downloads,
             at[d] # "through", at'[d] = "through", ~Overflows(cfg)
      PROVE  \/ ~IsScannable(cfg, MimeType[content'[d]])
             \/ Size[content'[d]] > LimitMeant(cfg)
             \/ FoundClean(url[d]')
  <2>1. PICK u \in URLs, c \in Contents, l \in BOOLEAN, b \in BOOLEAN : RoundTrip(d, u, c, l, b)
    <3>1. ASSUME NEW e \in Downloads, NEW u \in URLs, NEW c \in Contents, NEW l, NEW b,
                 RoundTrip(e, u, c, l, b)
          PROVE  e = d
      <4>1. \E a : at' = [at EXCEPT ![e] = a]
        BY <1>1, <3>1, RoundTripEffect DEF IInv
      <4> QED
        BY <1>1, <4>1 DEF IInv, Types
    <3>2. ASSUME NEW e \in Downloads, ServeCLI(e) PROVE FALSE
      BY <1>1, <3>2 DEF ServeCLI, Becomes, IInv, Types
    <3>3. ASSUME Restart PROVE FALSE
      BY <1>1, <3>3 DEF Restart
    <3>4. ASSUME NEW e \in Downloads,
                 Scan(e) \/ LoadPage(e) \/ Poll(e) \/ Download(e) \/ RemoveFile(e) \/ DeleteJob(e)
          PROVE  FALSE
      BY <1>1, <3>4 DEF Scan, OpenTemp, ScanTooLarge, ScanFails, ScanKnown, ScanAnswered,
         LoadPage, Poll, Download, PageFrame, RemoveFile, DeleteJob, dlVars
    <3>5. ASSUME SetConfig \/ UNCHANGED vars PROVE FALSE
      BY <1>1, <3>5 DEF SetConfig, vars, dlVars
    <3> QED
      BY <1>1, <3>1, <3>2, <3>3, <3>4, <3>5 DEF Next
  <2>2. content'[d] = c /\ url'[d] = u
    BY <1>1, <2>1 DEF RoundTrip, IInv, Types
  <2>3. CASE ~IsScannable(cfg, MimeType[c])
    BY <2>2, <2>3
  <2>4. CASE TooLarge(c, l)
    <3>1. Size[c] \in Nat /\ MaxSize \in Int /\ LimitMeant(cfg) \in Int
      BY <1>1, LimitType, ScanServiceAssumption, PowersOfTwo DEF IInv, Types, MaxSize, LimitMeant
    <3>2. LimitMeant(cfg) >= 0 => MaxSize = LimitMeant(cfg)
      BY <1>1, LimitIsMeant DEF IInv, Types, MaxSize
    <3>3. Size[c] > LimitMeant(cfg)
      BY <2>4, <3>1, <3>2 DEF TooLarge
    <3> QED
      BY <2>2, <3>3
  <2>5. CASE IsScannable(cfg, MimeType[c]) /\ ~TooLarge(c, l)
    <3>1. PICK a \in Cache!Answers("url", u) :
            CASE a.verdict = "clean"    -> PassThrough(d)
              [] a.verdict = "infected" -> Preset(d)
              [] OTHER -> IF b THEN StartBrowserJob(d) ELSE StartCLIJob(d)
      BY <2>1, <2>5 DEF RoundTrip
    <3>2. ~Preset(d) /\ ~StartBrowserJob(d) /\ ~StartCLIJob(d)
      BY <1>1 DEF Preset, StartBrowserJob, StartCLIJob, Becomes, IInv, Types
    <3>3. a.verdict = "clean"
      BY <3>1, <3>2
    <3>4. a \in known /\ a.map = "url" /\ a.key = u
      BY <3>3, CacheAnswer
    <3> QED
      BY <2>2, <3>3, <3>4 DEF FoundClean
  <2> QED
    BY <2>3, <2>4, <2>5
<1>2. ASSUME IInv, [Next]_vars, NEW d \in Downloads, at'[d] = "got", at[d] # "got"
      PROVE  job[d].status \in {"clean", "toolarge", "error"}
  <2>1. PICK e \in Downloads : ServeCLI(e)
    <3>1. ASSUME NEW e \in Downloads, NEW u \in URLs, NEW c \in Contents, NEW l, NEW b,
                 RoundTrip(e, u, c, l, b)
          PROVE  FALSE
      <4>1. \E a \in {"through", "redirected", "waiting"} : at' = [at EXCEPT ![e] = a]
        BY <1>2, <3>1, RoundTripEffect DEF IInv
      <4> QED
        BY <1>2, <4>1 DEF IInv, Types
    <3>2. ASSUME Restart PROVE FALSE
      BY <1>2, <3>2 DEF Restart
    <3>3. ASSUME NEW e \in Downloads,
                 Scan(e) \/ LoadPage(e) \/ Poll(e) \/ Download(e) \/ RemoveFile(e) \/ DeleteJob(e)
          PROVE  FALSE
      BY <1>2, <3>3 DEF Scan, OpenTemp, ScanTooLarge, ScanFails, ScanKnown, ScanAnswered,
         LoadPage, Poll, Download, PageFrame, RemoveFile, DeleteJob, dlVars
    <3>4. ASSUME SetConfig \/ UNCHANGED vars PROVE FALSE
      BY <1>2, <3>4 DEF SetConfig, vars, dlVars
    <3> QED
      BY <1>2, <3>1, <3>2, <3>3, <3>4 DEF Next
  <2>2. /\ job[e].status \in Final
        /\ at' = [at EXCEPT ![e] = IF job[e].status = "infected" THEN "cut" ELSE "got"]
    BY <2>1 DEF ServeCLI, Becomes
  <2> QED
    BY <1>2, <2>2 DEF IInv, Types, Final
<1>3. ASSUME IInv, [Next]_vars, NEW d \in Downloads, d \in got', d \notin got
      PROVE  job[d].status \in {"clean", "toolarge", "error"}
  <2>1. PICK e \in Downloads : Download(e)
    <3>1. ASSUME NEW e \in Downloads, NEW u, NEW c, NEW l, NEW b, RoundTrip(e, u, c, l, b)
          PROVE  FALSE
      BY <1>3, <3>1 DEF RoundTrip, pageVars
    <3>2. ASSUME Restart \/ SetConfig \/ UNCHANGED vars PROVE FALSE
      BY <1>3, <3>2 DEF Restart, SetConfig, vars, pageVars
    <3>3. ASSUME NEW e \in Downloads,
                 Scan(e) \/ ServeCLI(e) \/ LoadPage(e) \/ Poll(e) \/ RemoveFile(e) \/ DeleteJob(e)
          PROVE  FALSE
      BY <1>3, <3>3 DEF Scan, OpenTemp, ScanTooLarge, ScanFails, ScanKnown, ScanAnswered,
         ServeCLI, LoadPage, Poll, RemoveFile, DeleteJob, pageVars
    <3> QED
      BY <1>3, <3>1, <3>2, <3>3 DEF Next
  <2> QED
    BY <1>3, <2>1 DEF Download, ServeFile
<1>4. ASSUME IInv, [Next]_vars, NEW d \in Downloads, ~Delivered(d), Delivered(d)'
      PROVE  \/ /\ at'[d] = "through"
                /\ \/ Overflows(cfg)
                   \/ ~IsScannable(cfg, MimeType[content'[d]])
                   \/ Size[content'[d]] > LimitMeant(cfg)
                   \/ FoundClean(url[d]')
             \/ job[d].status \in {"clean", "toolarge", "error"}
  <2>1. \/ at[d] # "through" /\ at'[d] = "through"
        \/ at[d] # "got" /\ at'[d] = "got"
        \/ d \notin got /\ d \in got'
    BY <1>4 DEF Delivered
  <2> QED
    BY <1>1, <1>2, <1>3, <1>4, <2>1
<1>5. IInv /\ [Next]_vars
        => [\A d \in Downloads :
              ~Delivered(d) /\ Delivered(d)' =>
                \/ /\ at'[d] = "through"
                   /\ \/ Overflows(cfg)
                      \/ ~IsScannable(cfg, MimeType[content'[d]])
                      \/ Size[content'[d]] > LimitMeant(cfg)
                      \/ FoundClean(url[d]')
                \/ job[d].status \in {"clean", "toolarge", "error"}]_vars
  BY <1>4
<1> QED
  BY <1>5, Invariance, PTL DEF Spec, PassedByPolicy

\* What a job gave to its client was judged, and no later verdict, clean-up, restart or
\* policy makes it otherwise.
THEOREM ServedJudged == Spec => []ServedWasJudged
<1>1. IInv => ServedWasJudged
  BY DEF IInv, PageInv, ServedWasJudged, VerdictsHaveEvidence
<1> QED
  BY <1>1, Invariance, PTL

=============================================================================
