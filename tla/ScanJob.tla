------------------------------ MODULE ScanJob ------------------------------
(***************************************************************************)
(* One download of the scanning proxy, from the moment scan.Manager takes  *)
(* the upstream response to the moment the client and the scan goroutine   *)
(* have both let go of it (internal/scan/manager.go, trickle.go, clamd.go).*)
(*                                                                         *)
(* Four actors share the job:                                              *)
(*   - the scan goroutine (runScan), which copies the upstream body into   *)
(*     the temp file while it streams it to clamd;                         *)
(*   - the client side of a CLI download (TrickleBody.Read and Close);     *)
(*   - the download endpoint of a browser job (ServeFile);                 *)
(*   - the configuration sync and the clean-up ticker, which change the    *)
(*     size limit and expire the job at any moment.                        *)
(*                                                                         *)
(* A body is a number of bytes: what the properties tell apart is how many *)
(* bytes each party has seen and in which order, not their values.  The    *)
(* result cache, clamd, the upstream server and the disk are environment:  *)
(* each of their answers is a nondeterministic choice.                     *)
(***************************************************************************)
EXTENDS Integers

CONSTANTS MaxBody,  \* bound: length of the longest upstream body
          Limits    \* the values Manager.MaxSize() takes over time

ASSUME ScanJobAssumption == /\ MaxBody \in Nat
                            /\ Limits \subseteq Nat
                            /\ Limits # {}

VARIABLES
  \* --- the manager's configuration
  maxSize,     \* Manager.maxSize
  \* --- the job as all actors see it
  kind,        \* how RoundTrip took the response ("none" before it did)
  registered,  \* the job is in Manager.jobs
  onDisk,      \* a file exists at Job.TempPath
  status,      \* Job.status
  written,     \* Job.written: bytes of the temp file
  newBytes,    \* Job.newBytes holds its token
  owed,        \* countWriter has counted a write and not yet left its token
  uploadDone,  \* Job.uploadDone is closed
  resultCh,    \* contents of Job.resultCh (capacity 1)
  tailBody,    \* Job.tailBody is set
  \* --- the upstream response body
  size,        \* its length
  bodyPos,     \* bytes read from it so far
  upErr,       \* a read of it has failed; every later one fails too
  lost,        \* a byte was read from it and could not be written to disk
  bodyClosed,  \* Close has been called on it
  \* --- the scan goroutine
  spc,         \* where runScan is
  limit,       \* the MaxSize() the LimitReader was built with (it passes limit + 1)
  urlHit,      \* verdict of the URL cache, "none" on a miss
  hashHit,     \* verdict of the hash cache, "none" on a miss
  clamd,       \* outcome of ScanReader
  seen,        \* the MaxSize() the truncation check read, -1 before it
  final,       \* the status about to be published
  cached,      \* the verdict handed to ResultCache.Store, "none" if none
  \* --- the client side of a CLI download
  rpc,         \* where TrickleBody.Read is
  mode,        \* TrickleBody.mode
  readPos,     \* TrickleBody.readPos
  tailGot,     \* bytes returned from tailBody
  ended,       \* how the stream ended for the client
  \* --- the download endpoint
  dpc,         \* where ServeFile is
  served       \* bytes of the file it sent

jobVars    == <<kind, registered, onDisk>>
bodyVars   == <<size, bodyPos, upErr, lost>>
fileVars   == <<written, newBytes, owed>>
scanVars   == <<limit, urlHit, hashHit, clamd, seen, final, cached>>
readerVars == <<rpc, mode, readPos, tailGot, ended>>
serveVars  == <<dpc, served>>
vars == <<maxSize, jobVars, status, fileVars, uploadDone, resultCh, tailBody,
          bodyVars, bodyClosed, spc, scanVars, readerVars, serveVars>>

Verdicts == {"clean", "infected"}
Terminal == {"clean", "infected", "error", "toolarge"}
-----------------------------------------------------------------------------
(* Initial state: the response has arrived and no job exists for it yet.   *)
Init ==
  /\ maxSize \in Limits
  /\ kind = "none" /\ registered = FALSE /\ onDisk = FALSE
  /\ status = "pending"
  /\ written = 0 /\ newBytes = FALSE /\ owed = FALSE
  /\ uploadDone = FALSE /\ resultCh = "empty" /\ tailBody = FALSE
  /\ size \in 0..MaxBody /\ bodyPos = 0
  /\ upErr = FALSE /\ lost = FALSE /\ bodyClosed = FALSE
  /\ spc = "idle" /\ limit = 0 /\ urlHit = "none" /\ hashHit = "none"
  /\ clamd = "none" /\ seen = -1 /\ final = "none" /\ cached = "none"
  /\ rpc = "idle" /\ mode = "trickling" /\ readPos = 0 /\ tailGot = 0
  /\ ended = "open"
  /\ dpc = "idle" /\ served = 0

-----------------------------------------------------------------------------
(* Taking the response.  newJob registers the job and tries to pre-create  *)
(* its temp file; the attempt may fail.                                    *)
StartBrowserJob ==
  /\ kind = "none"
  /\ kind' = "browser" /\ registered' = TRUE
  /\ onDisk' \in BOOLEAN
  /\ spc' = "open"
  /\ UNCHANGED <<maxSize, status, fileVars, uploadDone, resultCh, tailBody,
                 bodyVars, bodyClosed, scanVars, readerVars, serveVars>>

StartCLIJob ==
  /\ kind = "none"
  /\ registered' = TRUE
  /\ onDisk' \in BOOLEAN
  /\ \/ /\ onDisk'
        /\ kind' = "cli" /\ spc' = "open" /\ rpc' = "read"
        /\ UNCHANGED status
     \/ /\ kind' = "fallback" /\ status' = "error" /\ rpc' = "pass"
        /\ UNCHANGED spc
  /\ UNCHANGED <<maxSize, fileVars, uploadDone, resultCh, tailBody, bodyVars,
                 bodyClosed, scanVars, mode, readPos, tailGot, ended, serveVars>>

\* RoundTrip closes the upstream body first; the verdict is the URL cache's.
NewPresetJob ==
  /\ kind = "none"
  /\ kind' = "preset" /\ registered' = TRUE
  /\ status' = "infected" /\ uploadDone' = TRUE /\ bodyClosed' = TRUE
  /\ UNCHANGED <<maxSize, onDisk, fileVars, resultCh, tailBody, bodyVars,
                 spc, scanVars, readerVars, serveVars>>

-----------------------------------------------------------------------------
(* Reading the upstream body through io.TeeReader(LimitReader(body)).      *)
\* Variant: the end of the body is noticed one byte late.
AtEOFLate == bodyPos > limit \/ bodyPos > size

\* Variant: the LimitReader stops at MaxSize, not one byte after it.
AtEOFExact == bodyPos >= limit \/ (bodyPos = size /\ ~upErr)

\* A failed upstream read keeps failing: EOF is only seen on a healthy body.
AtEOF == bodyPos > limit \/ (bodyPos = size /\ ~upErr)

\* One byte read and written to the temp file.  countWriter.Write adds it to
\* the counter first; the token follows as a step of its own (Notify).
TeeByte ==
  /\ ~AtEOF /\ ~upErr
  /\ bodyPos' = bodyPos + 1
  /\ written' = written + 1
  /\ owed' = TRUE
  /\ UNCHANGED <<size, upErr, lost, newBytes>>

\* A read ends the copy early: upstream failed, or the byte just read could
\* not be written to the temp file (countWriter still leaves its token).
TeeError ==
  \/ /\ bodyPos <= limit
     /\ upErr' = TRUE
     /\ UNCHANGED <<size, bodyPos, lost, fileVars>>
  \/ /\ ~AtEOF /\ ~upErr
     /\ bodyPos' = bodyPos + 1 /\ lost' = TRUE /\ owed' = TRUE
     /\ UNCHANGED <<size, upErr, written, newBytes>>

-----------------------------------------------------------------------------
(* The scan goroutine.                                                     *)

At(pc) == spc = pc /\ ~owed

\* What no step of the goroutine touches.
ScanFrame == UNCHANGED <<maxSize, kind, registered, size, readerVars, serveVars>>
\* Variant: the token is left only while the reader has nothing to read.
NotifyWhenEmpty ==
  /\ owed
  /\ owed' = FALSE /\ newBytes' = (newBytes \/ readPos + 1 < written)
  /\ ScanFrame
  /\ UNCHANGED <<onDisk, status, written, uploadDone, resultCh, tailBody, bodyPos,
                 upErr, lost, bodyClosed, spc, scanVars>>

\* The non-blocking send that ends countWriter.Write.
Notify ==
  /\ owed
  /\ owed' = FALSE /\ newBytes' = TRUE
  /\ ScanFrame
  /\ UNCHANGED <<onDisk, status, written, uploadDone, resultCh, tailBody, bodyPos,
                 upErr, lost, bodyClosed, spc, scanVars>>
OpenTemp ==
  /\ At("open")
  /\ \/ /\ onDisk' = TRUE /\ status' = "scanning"
        /\ limit' = maxSize
        /\ spc' = "lookup"
        /\ UNCHANGED final
     \/ /\ final' = "error" /\ spc' = "publish"
        /\ UNCHANGED <<onDisk, status, limit>>
  /\ ScanFrame
  /\ UNCHANGED <<fileVars, uploadDone, resultCh, tailBody, bodyPos, upErr, lost,
                 bodyClosed, urlHit, hashHit, clamd, seen, cached>>

LookupURL ==
  /\ At("lookup")
  /\ \/ urlHit' = "none" /\ spc' = "dial"
     \/ urlHit' \in Verdicts /\ spc' = "copy"
  /\ ScanFrame
  /\ UNCHANGED <<onDisk, status, fileVars, uploadDone, resultCh, tailBody,
                 bodyPos, upErr, lost, bodyClosed, limit, hashHit, clamd, seen, final, cached>>

\* io.Copy of the fast path: its error is ignored, so it ends like EOF.
CopyBody ==
  /\ At("copy")
  /\ \/ TeeByte /\ UNCHANGED spc
     \/ TeeError /\ spc' = "check"
     \/ AtEOF /\ spc' = "check" /\ UNCHANGED <<bodyVars, fileVars>>
  /\ ScanFrame
  /\ UNCHANGED <<onDisk, status, uploadDone, resultCh, tailBody, bodyClosed, scanVars>>

DialClamd ==
  /\ At("dial")
  /\ \/ spc' = "stream" /\ UNCHANGED clamd
     \/ clamd' \in {"unavailable", "failed"} /\ spc' = "check"
  /\ ScanFrame
  /\ UNCHANGED <<onDisk, status, fileVars, uploadDone, resultCh, tailBody, bodyPos,
                 upErr, lost, bodyClosed, limit, urlHit, hashHit, seen, final, cached>>
\* Variant: any error of the reader ends the stream as EOF does.
StreamIgnoringErrors ==
  /\ At("stream")
  /\ \/ TeeByte /\ UNCHANGED spc
     \/ TeeError /\ spc' = "answer"
     \/ AtEOF /\ spc' = "answer" /\ UNCHANGED <<bodyVars, fileVars>>
  /\ ScanFrame
  /\ UNCHANGED <<onDisk, status, uploadDone, resultCh, tailBody, bodyClosed,
                 limit, urlHit, hashHit, clamd, seen, final, cached>>

\* streamToClamd: a byte read is in the temp file before it is sent to clamd,
\* and the sending may fail (clamd gone, or the 30 s deadline over).
StreamToClamd ==
  /\ At("stream")
  /\ \/ TeeByte /\ UNCHANGED <<spc, clamd>>
     \/ (TeeByte \/ TeeError) /\ clamd' = "failed" /\ spc' = "check"
     \/ AtEOF /\ spc' = "answer" /\ UNCHANGED <<bodyVars, fileVars, clamd>>
  /\ ScanFrame
  /\ UNCHANGED <<onDisk, status, uploadDone, resultCh, tailBody, bodyClosed,
                 limit, urlHit, hashHit, seen, final, cached>>

ReadClamdResult ==
  /\ At("answer")
  /\ clamd' \in {"ok", "found", "failed"}
  /\ spc' = "check"
  /\ ScanFrame
  /\ UNCHANGED <<onDisk, status, fileVars, uploadDone, resultCh, tailBody, bodyPos,
                 upErr, lost, bodyClosed, limit, urlHit, hashHit, seen, final, cached>>

\* The truncation check reads MaxSize() a second time.
CheckTruncated ==
  /\ At("check")
  /\ seen' = maxSize
  /\ \/ /\ written > maxSize /\ kind = "cli"
        /\ tailBody' = TRUE /\ final' = "toolarge" /\ spc' = "publish"
     \/ /\ written > maxSize /\ kind = "browser"
        /\ spc' = "discard" /\ UNCHANGED <<tailBody, final>>
     \/ /\ written <= maxSize
        /\ spc' = IF urlHit = "none" /\ clamd \in {"unavailable", "failed"}
                  THEN "drain" ELSE "hash"
        /\ UNCHANGED <<tailBody, final>>
  /\ ScanFrame
  /\ UNCHANGED <<onDisk, status, fileVars, uploadDone, resultCh, bodyPos, upErr,
                 lost, bodyClosed, limit, urlHit, hashHit, clamd, cached>>

\* io.Copy(io.Discard, body) of the browser path, to EOF or to an error.
DiscardRest ==
  /\ At("discard")
  /\ \/ ~upErr /\ bodyPos' = size /\ UNCHANGED upErr
     \/ ~upErr /\ bodyPos' \in bodyPos..size /\ upErr' = TRUE
     \/ upErr /\ UNCHANGED <<bodyPos, upErr>>
  /\ final' = "toolarge" /\ spc' = "publish"
  /\ ScanFrame
  /\ UNCHANGED <<onDisk, status, fileVars, uploadDone, resultCh, tailBody, lost,
                 bodyClosed, limit, urlHit, hashHit, clamd, seen, cached>>

\* io.Copy(io.Discard, tee) of the error path.
DrainAfterError ==
  /\ At("drain")
  /\ \/ TeeByte /\ UNCHANGED <<spc, final>>
     \/ TeeError /\ final' = "error" /\ spc' = "publish"
     \/ AtEOF /\ final' = "error" /\ spc' = "publish" /\ UNCHANGED <<bodyVars, fileVars>>
  /\ ScanFrame
  /\ UNCHANGED <<onDisk, status, uploadDone, resultCh, tailBody, bodyClosed,
                 limit, urlHit, hashHit, clamd, seen, cached>>
\* Variant: the verdict of the hash cache is ignored.
mergeFirst(a, b) == a

mergeResults(a, b) == IF a = "infected" \/ b = "infected" THEN "infected" ELSE a

\* GetByHash and, on the normal path, Store of the merged verdict.
MergeVerdict ==
  /\ At("hash")
  /\ hashHit' \in Verdicts \cup {"none"}
  /\ LET own == IF urlHit # "none" THEN urlHit
                ELSE IF clamd = "ok" THEN "clean" ELSE "infected"
     IN  final' = mergeResults(own, hashHit')
  /\ cached' = IF urlHit = "none" THEN final' ELSE cached
  /\ spc' = "publish"
  /\ ScanFrame
  /\ UNCHANGED <<onDisk, status, fileVars, uploadDone, resultCh, tailBody, bodyPos,
                 upErr, lost, bodyClosed, limit, urlHit, clamd, seen>>
\* Variant: the too-large path returns without sending a result.
setResultNoSend ==
  /\ At("publish")
  /\ status' = final
  /\ spc' = IF final = "toolarge" THEN "finish" ELSE "send"
  /\ ScanFrame
  /\ UNCHANGED <<onDisk, fileVars, uploadDone, resultCh, tailBody, bodyPos, upErr,
                 lost, bodyClosed, scanVars>>

setResult ==
  /\ At("publish")
  /\ status' = final
  /\ spc' = "send"
  /\ ScanFrame
  /\ UNCHANGED <<onDisk, fileVars, uploadDone, resultCh, tailBody, bodyPos, upErr,
                 lost, bodyClosed, scanVars>>

SendResult ==
  /\ At("send") /\ resultCh = "empty"
  /\ resultCh' = IF final = "infected" THEN "infected" ELSE "clean"
  /\ spc' = "finish"
  /\ ScanFrame
  /\ UNCHANGED <<onDisk, status, fileVars, uploadDone, tailBody, bodyPos, upErr,
                 lost, bodyClosed, scanVars>>
\* Variant: no deferred close(uploadDone).
CloseUploadForgotten ==
  /\ At("finish")
  /\ spc' = "release"
  /\ ScanFrame
  /\ UNCHANGED <<onDisk, status, fileVars, uploadDone, resultCh, tailBody, bodyPos,
                 upErr, lost, bodyClosed, scanVars>>

\* The deferred calls, last registered first: close(uploadDone), body.Close.
CloseUpload ==
  /\ At("finish")
  /\ uploadDone' = TRUE
  /\ spc' = "release"
  /\ ScanFrame
  /\ UNCHANGED <<onDisk, status, fileVars, resultCh, tailBody, bodyPos, upErr,
                 lost, bodyClosed, scanVars>>
\* Variant: bodyOwned is not cleared when the tail is handed over.
ReleaseBodyAlways ==
  /\ At("release")
  /\ bodyClosed' = TRUE
  /\ spc' = "end"
  /\ ScanFrame
  /\ UNCHANGED <<onDisk, status, fileVars, uploadDone, resultCh, tailBody, bodyPos,
                 upErr, lost, scanVars>>

ReleaseBody ==
  /\ At("release")
  /\ bodyClosed' = (bodyClosed \/ ~tailBody)
  /\ spc' = "end"
  /\ ScanFrame
  /\ UNCHANGED <<onDisk, status, fileVars, uploadDone, resultCh, tailBody, bodyPos,
                 upErr, lost, scanVars>>

ScanStep == \/ Notify \/ OpenTemp \/ LookupURL \/ CopyBody \/ DialClamd
            \/ StreamToClamd \/ ReadClamdResult \/ CheckTruncated \/ DiscardRest
            \/ DrainAfterError \/ MergeVerdict \/ setResult \/ SendResult
            \/ CloseUpload \/ ReleaseBody

-----------------------------------------------------------------------------
(* The client side of a CLI download: TrickleBody.Read, called again and   *)
(* again by one goroutine, which then calls Close.  rpc = "read" is the    *)
(* moment between two calls.                                               *)

\* What no step of the client side touches (a tail read moves bodyVars).
ReadFrame == UNCHANGED <<maxSize, jobVars, status, written, owed, uploadDone,
                         tailBody, spc, scanVars, serveVars>>

\* Read returns for good with the error (or EOF) e.
ReturnEnd(e) == rpc' = "closing" /\ ended' = e

\* A verdict received from resultCh: flush on clean, errVirusDetected if not.
ActOnVerdict ==
  /\ resultCh # "empty" /\ resultCh' = "empty"
  /\ \/ resultCh = "clean" /\ mode' = "flushing" /\ rpc' = "flush" /\ UNCHANGED ended
     \/ resultCh = "infected" /\ mode' = "aborted" /\ ReturnEnd("virus")
  /\ ReadFrame
  /\ UNCHANGED <<newBytes, bodyVars, bodyClosed, readPos, tailGot>>

\* The select of Read: the verdict, or one second has passed.
ReadVerdict == rpc = "read" /\ mode = "trickling" /\ ActOnVerdict

ReadTimer ==
  /\ rpc = "read" /\ mode = "trickling"
  /\ rpc' = "one"
  /\ ReadFrame
  /\ UNCHANGED <<newBytes, resultCh, bodyVars, bodyClosed, mode, readPos, tailGot, ended>>

ReadFlushing ==
  /\ rpc = "read" /\ mode = "flushing"
  /\ rpc' = "flush"
  /\ ReadFrame
  /\ UNCHANGED <<newBytes, resultCh, bodyVars, bodyClosed, mode, readPos, tailGot, ended>>

\* file.ReadAt at readPos returns at most max bytes, or fails.
ReadFile(max) ==
  /\ readPos < written
  /\ \/ /\ \E n \in 1..(written - readPos) : n <= max /\ readPos' = readPos + n
        /\ rpc' = "read" /\ UNCHANGED ended
     \/ ReturnEnd("error") /\ UNCHANGED readPos
  /\ ReadFrame
  /\ UNCHANGED <<newBytes, resultCh, bodyVars, bodyClosed, mode, tailGot>>

ReadOneByte == rpc = "one" /\ ReadFile(1)

\* Variant: flushRead turns to the tail before the file is read.
FlushTailFirst ==
  \/ rpc = "flush" /\ ~tailBody /\ ReadFile(MaxBody)
  \/ /\ rpc = "flush" /\ tailBody /\ rpc' = "tail"
     /\ ReadFrame
     /\ UNCHANGED <<newBytes, resultCh, bodyVars, bodyClosed, mode, readPos, tailGot, ended>>

FlushBytes == rpc = "flush" /\ ReadFile(MaxBody)

\* Nothing to read: both loops wait for a token or for the end of the upload.
WaitForBytes ==
  /\ rpc \in {"one", "flush"} /\ readPos >= written
  /\ rpc' = IF rpc = "one" THEN "oneWait" ELSE "flushWait"
  /\ ReadFrame
  /\ UNCHANGED <<newBytes, resultCh, bodyVars, bodyClosed, mode, readPos, tailGot, ended>>

TakeToken ==
  /\ rpc \in {"oneWait", "flushWait"} /\ newBytes
  /\ newBytes' = FALSE
  /\ rpc' = IF rpc = "oneWait" THEN "one" ELSE "flush"
  /\ ReadFrame
  /\ UNCHANGED <<resultCh, bodyVars, bodyClosed, mode, readPos, tailGot, ended>>

\* uploadDone seen by readOne: loop for the bytes left, or take the verdict.
OneUploadDone ==
  /\ rpc = "oneWait" /\ uploadDone
  /\ rpc' = IF readPos >= written THEN "verdict" ELSE "one"
  /\ ReadFrame
  /\ UNCHANGED <<newBytes, resultCh, bodyVars, bodyClosed, mode, readPos, tailGot, ended>>

OneVerdict == rpc = "verdict" /\ ActOnVerdict
\* uploadDone seen by flushRead: loop for the bytes left, chain the tail, or EOF.
FlushUploadDone ==
  /\ rpc = "flushWait" /\ uploadDone
  /\ rpc' = IF readPos < written THEN "flush" ELSE IF tailBody THEN "tail" ELSE "closing"
  /\ ended' = IF rpc' = "closing" THEN "eof" ELSE ended
  /\ ReadFrame
  /\ UNCHANGED <<newBytes, resultCh, bodyVars, bodyClosed, mode, readPos, tailGot>>

\* A Read of the upstream body by the client side, after the temp file
\* (tail.Read) or instead of it (fallback.Read).
BodyRead(back) ==
  /\ \/ /\ bodyPos < size /\ ~upErr
        /\ bodyPos' = bodyPos + 1 /\ tailGot' = tailGot + 1
        /\ rpc' = back /\ UNCHANGED <<upErr, ended>>
     \/ /\ bodyPos = size /\ ~upErr /\ ReturnEnd("eof")
        /\ UNCHANGED <<bodyPos, tailGot, upErr>>
     \/ /\ upErr' = TRUE /\ ReturnEnd("error")
        /\ UNCHANGED <<bodyPos, tailGot>>
  /\ ReadFrame
  /\ UNCHANGED <<newBytes, resultCh, size, lost, bodyClosed, mode, readPos>>

TailRead == rpc = "tail" /\ BodyRead("read")

FallbackRead == rpc = "pass" /\ BodyRead("pass")

\* The client disconnects: its goroutine stops between two calls of Read.
ClientGone ==
  /\ rpc \in {"read", "pass"}
  /\ ReturnEnd("gone")
  /\ ReadFrame
  /\ UNCHANGED <<newBytes, resultCh, bodyVars, bodyClosed, mode, readPos, tailGot>>
\* Variant: Close forgets the tail it was handed.
CloseBodyKeepsTail ==
  /\ rpc = "closing"
  /\ rpc' = "closed"
  /\ bodyClosed' = (bodyClosed \/ kind = "fallback")
  /\ ReadFrame
  /\ UNCHANGED <<newBytes, resultCh, bodyVars, mode, readPos, tailGot, ended>>

\* Close reads job.tailBody.  Before a verdict was received nothing orders
\* that read after the goroutine's write, so it may miss it.
CloseBody ==
  /\ rpc = "closing"
  /\ rpc' = "closed"
  /\ \E sees \in {FALSE, tailBody} :
       /\ mode # "trickling" => sees = tailBody
       /\ bodyClosed' = (bodyClosed \/ sees \/ kind = "fallback")
  /\ ReadFrame
  /\ UNCHANGED <<newBytes, resultCh, bodyVars, mode, readPos, tailGot, ended>>

ReaderStep == \/ ReadVerdict \/ ReadTimer \/ ReadFlushing \/ ReadOneByte
              \/ FlushBytes \/ WaitForBytes \/ TakeToken \/ OneUploadDone
              \/ OneVerdict \/ FlushUploadDone \/ TailRead \/ FallbackRead
              \/ CloseBody

-----------------------------------------------------------------------------
(* The download endpoint of the scan page.                                 *)
ServeFrame == UNCHANGED <<maxSize, jobVars, status, fileVars, uploadDone,
                resultCh, tailBody, bodyVars, bodyClosed, spc, scanVars, readerVars>>

\* Variant: ServeFile refuses infected files only.
DownloadCheckLax ==
  /\ kind \in {"browser", "preset"} /\ registered
  /\ dpc = "idle" /\ status # "infected"
  /\ dpc' = "serve" /\ UNCHANGED served
  /\ ServeFrame

\* GetJob, then the status test at the head of ServeFile.
DownloadCheck ==
  /\ kind \in {"browser", "preset"} /\ registered
  /\ dpc = "idle" /\ status \in {"clean", "error"}
  /\ dpc' = "serve" /\ UNCHANGED served
  /\ ServeFrame

\* The file is opened after the test: the clean-up may have come between.
DownloadServe ==
  /\ dpc = "serve"
  /\ \/ onDisk /\ dpc' = "served" /\ served' = written
     \/ ~onDisk /\ dpc' = "refused" /\ UNCHANGED served
  /\ ServeFrame

-----------------------------------------------------------------------------
(* The rest of the proxy.                                                  *)
OthersFrame == UNCHANGED <<kind, status, fileVars, uploadDone, resultCh, tailBody,
                 bodyVars, bodyClosed, spc, scanVars, readerVars, serveVars>>

SetConfig ==
  /\ maxSize' \in Limits
  /\ UNCHANGED <<registered, onDisk>>
  /\ OthersFrame

\* One expired job of the clean-up tick.  The TTL is minutes, the time between
\* newJob and the goroutine's OpenFile microseconds: a job is not expired
\* before its goroutine opened the file.
Cleanup ==
  /\ registered /\ spc # "open"
  /\ registered' = FALSE /\ onDisk' = FALSE
  /\ UNCHANGED maxSize
  /\ OthersFrame

-----------------------------------------------------------------------------
Next == \/ StartBrowserJob \/ StartCLIJob \/ NewPresetJob
        \/ ScanStep \/ ReaderStep \/ ClientGone
        \/ DownloadCheck \/ DownloadServe
        \/ SetConfig \/ Cleanup

\* The goroutine keeps running as long as each read of the upstream body and
\* each exchange with clamd returns (the 30 s deadline bounds the latter), and
\* the client's goroutine keeps calling Read.  Nothing forces a client to
\* leave, a download, a new configuration or a clean-up.
Fairness == WF_vars(ScanStep) /\ WF_vars(ReaderStep)

Spec == Init /\ [][Next]_vars /\ Fairness

-----------------------------------------------------------------------------
(* Properties.                                                             *)

FlagsOK ==
  \A flag \in {registered, onDisk, newBytes, owed, uploadDone, tailBody,
               upErr, lost, bodyClosed} : flag \in BOOLEAN

RangesOK ==
  /\ maxSize \in Limits
  /\ kind \in {"none", "browser", "cli", "fallback", "preset"}
  /\ status \in {"pending", "scanning"} \cup Terminal
  /\ written \in 0..size
  /\ resultCh \in {"empty", "clean", "infected"}
  /\ size \in 0..MaxBody /\ bodyPos \in 0..size
  /\ spc \in {"idle", "open", "lookup", "copy", "dial", "stream", "answer", "check",
              "discard", "drain", "hash", "publish", "send", "finish", "release", "end"}
  /\ limit \in Nat
  /\ urlHit \in Verdicts \cup {"none"} /\ hashHit \in Verdicts \cup {"none"}
  /\ clamd \in {"none", "ok", "found", "failed", "unavailable"}
  /\ seen \in Limits \cup {-1}
  /\ final \in Terminal \cup {"none"}
  /\ cached \in Verdicts \cup {"none"}
  /\ rpc \in {"idle", "read", "one", "oneWait", "verdict", "flush", "flushWait",
              "tail", "pass", "closing", "closed"}
  /\ mode \in {"trickling", "flushing", "aborted"}
  /\ readPos \in 0..size /\ tailGot \in 0..size
  /\ ended \in {"open", "eof", "error", "virus", "gone"}
  /\ dpc \in {"idle", "serve", "served", "refused"} /\ served \in 0..size

\* Every variable stays in its range: Job and TrickleBody fields, the program
\* counters of runScan, Read and ServeFile, and 0 <= positions <= the body.
TypeOK == FlagsOK /\ RangesOK

\* readOne may block on resultCh after uploadDone without a timeout: whenever
\* the upload of a scanned CLI download is done, its verdict is in the channel
\* unless Read has already taken it (and so left trickling mode).
VerdictBeforeDone ==
  kind = "cli" /\ uploadDone => resultCh # "empty" \/ mode # "trickling"

\* A download for which the URL cache, the hash cache or clamd named a threat is
\* flushed to a CLI client or served to a browser only as a too-large file,
\* whose verdict runScan drops.
InfectedNeverDelivered ==
  (urlHit = "infected" \/ hashHit = "infected" \/ clamd = "found")
    => /\ mode = "flushing" => status = "toolarge"
       /\ dpc \notin {"serve", "served"}

\* The client receives the body in order, without a gap or a repeated byte: it
\* reads from tailBody only after the whole temp file, and the tail starts where
\* the temp file ends.
TailContinuesFile ==
  kind = "cli" =>
    /\ readPos <= written /\ written <= bodyPos
    /\ tailGot > 0 => readPos = written
    /\ tailGot > 0 /\ ~lost => written + tailGot = bodyPos

\* A sleeping reader is never left asleep with unread bytes in the file: a token
\* is in newBytes, or countWriter is about to leave it, or uploadDone is closed.
NoLostWakeup ==
  rpc \in {"oneWait", "flushWait"} /\ readPos < written
    => newBytes \/ owed \/ uploadDone

\* Nobody reads the upstream body after somebody closed it, whoever owns it.
NoReadAfterClose == [][bodyClosed => bodyPos' = bodyPos]_vars

\* A download that ends normally (EOF for a CLI client, a served file for a
\* browser) is the whole upstream body, for a clean or a too-large file whose
\* size limit was not raised while it was scanned and that met no I/O error.
DeliveredWhole ==
  ~upErr /\ ~lost /\ seen <= limit =>
    /\ ended = "eof" /\ status \in {"clean", "toolarge"} => readPos + tailGot = size
    /\ dpc = "served" /\ status = "clean" => served = size
    /\ ended = "eof" /\ kind = "fallback" => tailGot = size

\* A verdict stored in the result cache was reached on the whole body, and the
\* hash it is stored under is the hash of the whole body (same proviso).
CachedCoversBody ==
  cached # "none" /\ seen <= limit => bodyPos = size /\ written = size /\ ~lost

\* Once the client has closed its body, having received a verdict (or having
\* read upstream directly), and runScan has returned, the upstream body is
\* closed: handing it from one to the other never loses its owner.
ConsumedBodyIsClosed ==
  rpc = "closed" /\ (kind = "fallback" \/ (spc = "end" /\ mode # "trickling"))
    => bodyClosed

\* A scan that started publishes its verdict and closes uploadDone.
ScanFinishes == spc = "open" ~> (uploadDone /\ status \in Terminal)

\* A CLI client that keeps reading reaches the end of the stream: Read never
\* blocks for ever on newBytes, uploadDone or resultCh.
ReaderFinishes == rpc = "read" ~> rpc = "closed"

-----------------------------------------------------------------------------
(* The promise of the manager, and what it reads of the state above.       *)

\* How far the download is out of the manager's hands.
Outcome ==
  IF mode = "flushing" \/ dpc # "idle" \/ (kind = "fallback" /\ tailGot > 0)
  THEN "released"
  ELSE IF mode = "aborted" THEN "refused" ELSE "held"

Promise == INSTANCE ScanPromise
             WITH state <- IF kind = "none" THEN "none" ELSE status, out <- Outcome

\* The four actors together keep the promise: one final verdict, published by
\* setResult before anything is released, nothing released after "infected",
\* and every scan that began concluded.
ImplementsPromise == Promise!Spec

=============================================================================
