-------------------------- MODULE ScanJobProofs ---------------------------
(***************************************************************************)
(* Proofs of the safety properties of ScanJob, for every bound on the body *)
(* and every set of size limits.  The properties are consequences of one   *)
(* inductive invariant, IInv, whose parts say what each stage of runScan   *)
(* has established and which stage each observation of the other actors    *)
(* implies.                                                                *)
(***************************************************************************)
EXTENDS ScanJob, TLAPS

-----------------------------------------------------------------------------
(* The inductive invariant.                                                *)

\* Stages of runScan: the verdict is decided, published, sent.
Decided   == {"publish", "send", "finish", "release", "end"}
Published == {"send", "finish", "release", "end"}
Sent      == {"finish", "release", "end"}

Infected == urlHit = "infected" \/ hashHit = "infected" \/ clamd = "found"

\* Who can be where: a job that has not started is in its initial state, and
\* only a scanned job has a goroutine, only a CLI job a trickling reader.
KindInv ==
  /\ kind = "none" => /\ rpc = "idle" /\ dpc = "idle" /\ ended = "open"
                      /\ ~bodyClosed /\ ~tailBody /\ ~lost /\ ~upErr
                      /\ status = "pending"
                      /\ bodyPos = 0 /\ written = 0 /\ tailGot = 0
  /\ spc = "idle" <=> kind \in {"none", "fallback", "preset"}
  /\ rpc = "pass" => kind = "fallback"
  /\ rpc \in {"read", "one", "oneWait", "verdict", "flush", "flushWait", "tail"}
       => kind = "cli"
  /\ spc = "discard" => kind = "browser"
  /\ mode # "trickling" \/ tailBody => kind = "cli"
  /\ dpc # "idle" => kind = "browser"
  /\ uploadDone => kind = "preset" \/ spc \in {"release", "end"}
  /\ kind = "fallback" => written = 0
  /\ kind = "preset" => rpc = "idle" /\ ended = "open"
  /\ kind = "browser" => rpc = "idle" /\ ended = "open" /\ tailGot = 0

\* Which answers are in at each stage of the goroutine.
StageInv ==
  /\ spc \in {"idle", "open", "lookup", "dial", "stream", "answer"}
       => urlHit = "none" /\ clamd = "none"
  /\ spc = "copy" => urlHit # "none"
  /\ urlHit # "none" => clamd = "none"
  /\ spc = "check" /\ urlHit = "none" => clamd # "none"
  /\ spc = "drain" => urlHit = "none" /\ clamd \in {"unavailable", "failed"}
  /\ spc = "hash" /\ urlHit = "none" => clamd \in {"ok", "found"}
  /\ spc \notin Decided => hashHit = "none" /\ final = "none" /\ cached = "none" /\ ~tailBody
  /\ spc \in Decided => final # "none"
  /\ final \in {"clean", "error"} => ~Infected
  /\ cached # "none" => clamd \in {"ok", "found"} /\ final \in Verdicts

\* What the published status, the channel and the readers know of the verdict.
VerdictInv ==
  /\ spc \in Published => status = final
  /\ spc \notin Published \cup {"idle"} => status \in {"pending", "scanning"}
  /\ kind = "preset" => status = "infected"
  /\ kind = "fallback" => status = "error"
  /\ resultCh # "empty" => spc \in Sent /\ (resultCh = "infected" <=> final = "infected")
  /\ spc \in Sent /\ kind = "cli" => resultCh # "empty" \/ mode # "trickling"
  /\ mode = "flushing" => spc \in Sent /\ final # "infected"
  /\ mode = "aborted" => spc \in Sent
  /\ rpc \in {"flush", "flushWait", "tail"} => mode = "flushing"
  /\ rpc \in {"one", "oneWait", "verdict"} => mode = "trickling"
  /\ dpc # "idle" => spc \in Published /\ final \in {"clean", "error"}

\* How far each party is in the body.
PosInv ==
  /\ readPos <= written /\ written <= bodyPos /\ tailGot <= bodyPos
  /\ kind = "fallback" => tailGot = bodyPos
  /\ kind = "cli" /\ ~lost => written + tailGot = bodyPos
  /\ tailGot > 0 => readPos = written /\ (kind = "cli" => spc \in Sent)
  /\ spc # "idle" /\ ~lost /\ final # "toolarge" => written = bodyPos
  /\ tailBody => final = "toolarge"
  /\ kind = "cli" /\ final = "toolarge" => tailBody
  /\ rpc = "tail" => tailBody /\ readPos = written
  /\ dpc = "served" => served = written

\* A decided verdict was reached at the end of the (limited) body.
WholeInv ==
  /\ spc \in {"idle", "open", "lookup", "dial", "stream", "answer"} \/ clamd \in {"ok", "found"}
       => ~lost
  /\ spc = "answer" \/ clamd \in {"ok", "found"} => bodyPos > limit \/ bodyPos = size
  /\ spc = "check" /\ urlHit # "none" => upErr \/ lost \/ bodyPos > limit \/ bodyPos = size
  /\ spc = "hash" \/ final \in Verdicts
       => /\ upErr \/ lost \/ bodyPos > limit \/ bodyPos = size
          /\ written <= seen

\* How a stream ended, and who has closed the upstream body.
EndInv ==
  /\ ended # "open" => rpc \in {"closing", "closed"}
  /\ ended = "eof" /\ (tailBody \/ kind = "fallback") => bodyPos = size
  /\ ended = "eof" /\ kind = "cli" => mode = "flushing" /\ readPos = written
  /\ bodyClosed => /\ spc \in Decided \cup {"idle"}
                   /\ rpc # "pass"
                   /\ rpc = "closed" \/ ~tailBody
  /\ spc = "end" => tailBody \/ bodyClosed
  /\ rpc = "closed" /\ mode # "trickling" /\ tailBody => bodyClosed
  /\ rpc = "closed" /\ kind = "fallback" => bodyClosed

\* All of it but the Boolean flags, which the provers treat apart.
Core == /\ RangesOK /\ KindInv /\ StageInv /\ VerdictInv
        /\ PosInv /\ WholeInv /\ EndInv /\ NoLostWakeup

IInv == FlagsOK /\ Core

-----------------------------------------------------------------------------
(* IInv is inductive.                                                      *)

\* The initial states satisfy the invariant.
LEMMA InitIInv == Init => IInv
<1>1. Init => FlagsOK
  BY Zenon DEF Init, FlagsOK
<1>2. Init => Core
  BY ScanJobAssumption DEF Init, Core, RangesOK, KindInv, StageInv, VerdictInv,
     PosInv, WholeInv, EndInv, NoLostWakeup, Infected, Decided, Published, Sent,
     Verdicts, Terminal
<1>3. QED
  BY <1>1, <1>2 DEF IInv

\* No step makes a flag anything but a Boolean.
LEMMA FlagsStep == ASSUME FlagsOK, [Next]_vars PROVE FlagsOK'
<1> USE DEF FlagsOK, jobVars, bodyVars, fileVars, scanVars, readerVars, serveVars
<1>1. CASE Notify
  BY <1>1, Zenon DEF Notify, ScanFrame
<1>2. CASE OpenTemp
  BY <1>2, Zenon DEF OpenTemp, At, ScanFrame
<1>3. CASE LookupURL
  BY <1>3, Zenon DEF LookupURL, At, ScanFrame
<1>4. CASE CopyBody
  BY <1>4, Zenon DEF CopyBody, At, ScanFrame, TeeByte, TeeError, AtEOF
<1>5. CASE DialClamd
  BY <1>5, Zenon DEF DialClamd, At, ScanFrame
<1>6. CASE StreamToClamd
  BY <1>6, Zenon DEF StreamToClamd, At, ScanFrame, TeeByte, TeeError, AtEOF
<1>7. CASE ReadClamdResult
  BY <1>7, Zenon DEF ReadClamdResult, At, ScanFrame
<1>8. CASE CheckTruncated
  BY <1>8, Zenon DEF CheckTruncated, At, ScanFrame
<1>9. CASE DiscardRest
  BY <1>9, Zenon DEF DiscardRest, At, ScanFrame
<1>10. CASE DrainAfterError
  BY <1>10, Zenon DEF DrainAfterError, At, ScanFrame, TeeByte, TeeError, AtEOF
<1>11. CASE MergeVerdict
  BY <1>11, Zenon DEF MergeVerdict, At, ScanFrame, mergeResults
<1>12. CASE setResult
  BY <1>12, Zenon DEF setResult, At, ScanFrame
<1>13. CASE SendResult
  BY <1>13, Zenon DEF SendResult, At, ScanFrame
<1>14. CASE CloseUpload
  BY <1>14, Zenon DEF CloseUpload, At, ScanFrame
<1>15. CASE ReleaseBody
  BY <1>15, Zenon DEF ReleaseBody, At, ScanFrame
<1>16. CASE ReadVerdict
  BY <1>16, Zenon DEF ReadVerdict, ReadFrame, ActOnVerdict, ReturnEnd
<1>17. CASE ReadTimer
  BY <1>17, Zenon DEF ReadTimer, ReadFrame
<1>18. CASE ReadFlushing
  BY <1>18, Zenon DEF ReadFlushing, ReadFrame
<1>19. CASE ReadOneByte
  BY <1>19, Zenon DEF ReadOneByte, ReadFrame, ReadFile, ReturnEnd
<1>20. CASE FlushBytes
  BY <1>20, Zenon DEF FlushBytes, ReadFrame, ReadFile, ReturnEnd
<1>21. CASE WaitForBytes
  BY <1>21, Zenon DEF WaitForBytes, ReadFrame
<1>22. CASE TakeToken
  BY <1>22, Zenon DEF TakeToken, ReadFrame
<1>23. CASE OneUploadDone
  BY <1>23, Zenon DEF OneUploadDone, ReadFrame
<1>24. CASE OneVerdict
  BY <1>24, Zenon DEF OneVerdict, ReadFrame, ActOnVerdict, ReturnEnd
<1>25. CASE FlushUploadDone
  BY <1>25, Zenon DEF FlushUploadDone, ReadFrame
<1>26. CASE TailRead
  BY <1>26, Zenon DEF TailRead, ReadFrame, BodyRead, ReturnEnd
<1>27. CASE FallbackRead
  BY <1>27, Zenon DEF FallbackRead, ReadFrame, BodyRead, ReturnEnd
<1>28. CASE ClientGone
  BY <1>28, Zenon DEF ClientGone, ReadFrame, ReturnEnd
<1>29. CASE CloseBody
  BY <1>29, Zenon DEF CloseBody, ReadFrame
<1>30. CASE StartBrowserJob
  BY <1>30, Zenon DEF StartBrowserJob
<1>31. CASE StartCLIJob
  BY <1>31, Zenon DEF StartCLIJob
<1>32. CASE NewPresetJob
  BY <1>32, Zenon DEF NewPresetJob
<1>33. CASE DownloadCheck
  BY <1>33, Zenon DEF DownloadCheck, ServeFrame
<1>34. CASE DownloadServe
  BY <1>34, Zenon DEF DownloadServe, ServeFrame
<1>35. CASE SetConfig
  BY <1>35, Zenon DEF SetConfig, OthersFrame
<1>36. CASE Cleanup
  BY <1>36, Zenon DEF Cleanup, OthersFrame
<1>37. CASE UNCHANGED vars
  BY <1>37, Zenon DEF vars
<1>38. QED
  BY <1>1, <1>2, <1>3, <1>4, <1>5, <1>6, <1>7, <1>8, <1>9, <1>10, <1>11, <1>12,
     <1>13, <1>14, <1>15, <1>16, <1>17, <1>18, <1>19, <1>20, <1>21, <1>22,
     <1>23, <1>24, <1>25, <1>26, <1>27, <1>28, <1>29, <1>30, <1>31, <1>32,
     <1>33, <1>34, <1>35, <1>36, <1>37, Zenon DEF Next, ScanStep, ReaderStep

\* Every step of the scan goroutine preserves the rest of the invariant.
LEMMA ScanStepKeeps ==
  ASSUME FlagsOK, Core, ScanStep
  PROVE  Core'
<1> USE ScanJobAssumption DEF Core, RangesOK, KindInv, StageInv, VerdictInv, PosInv,
      WholeInv, EndInv, NoLostWakeup, Infected, Decided, Published, Sent, Verdicts,
      Terminal, jobVars, bodyVars, fileVars, scanVars, readerVars, serveVars
<1>1. CASE Notify
  BY <1>1 DEF Notify, ScanFrame
<1>2. CASE OpenTemp
  BY <1>2 DEF OpenTemp, At, ScanFrame
<1>3. CASE LookupURL
  BY <1>3 DEF LookupURL, At, ScanFrame
<1>4. CASE CopyBody
  BY <1>4 DEF CopyBody, At, ScanFrame, TeeByte, TeeError, AtEOF
<1>5. CASE DialClamd
  BY <1>5 DEF DialClamd, At, ScanFrame
<1>6. CASE StreamToClamd
  BY <1>6 DEF StreamToClamd, At, ScanFrame, TeeByte, TeeError, AtEOF
<1>7. CASE ReadClamdResult
  BY <1>7 DEF ReadClamdResult, At, ScanFrame
<1>8. CASE CheckTruncated
  BY <1>8 DEF CheckTruncated, At, ScanFrame
<1>9. CASE DiscardRest
  BY <1>9 DEF DiscardRest, At, ScanFrame
<1>10. CASE DrainAfterError
  BY <1>10 DEF DrainAfterError, At, ScanFrame, TeeByte, TeeError, AtEOF
<1>11. CASE MergeVerdict
  BY <1>11 DEF MergeVerdict, At, ScanFrame, mergeResults
<1>12. CASE setResult
  BY <1>12 DEF setResult, At, ScanFrame
<1>13. CASE SendResult
  BY <1>13 DEF SendResult, At, ScanFrame
<1>14. CASE CloseUpload
  BY <1>14 DEF CloseUpload, At, ScanFrame
<1>15. CASE ReleaseBody
  <2>1. bodyClosed' <=> bodyClosed \/ ~tailBody
    BY <1>15, Zenon DEF ReleaseBody, FlagsOK
  <2>2. RangesOK' /\ KindInv' /\ StageInv'
    BY <1>15, <2>1 DEF ReleaseBody, At, ScanFrame
  <2>3. VerdictInv' /\ PosInv' /\ WholeInv' /\ NoLostWakeup'
    BY <1>15, <2>1 DEF ReleaseBody, At, ScanFrame
  <2>4. EndInv'
    BY <1>15, <2>1 DEF ReleaseBody, At, ScanFrame
  <2>5. QED
    BY <2>2, <2>3, <2>4
<1>16. QED
  BY <1>1, <1>2, <1>3, <1>4, <1>5, <1>6, <1>7, <1>8, <1>9, <1>10, <1>11, <1>12, <1>13, <1>14, <1>15 DEF ScanStep

\* What Close may do to the upstream body, given what it saw of tailBody.
LEMMA CloseBodyEffect ==
  ASSUME FlagsOK, CloseBody
  PROVE  /\ bodyClosed' => bodyClosed \/ tailBody \/ kind = "fallback"
         /\ bodyClosed => bodyClosed'
         /\ kind = "fallback" => bodyClosed'
         /\ mode # "trickling" /\ tailBody => bodyClosed'
<1>1. PICK sees \in {FALSE, tailBody} :
        /\ mode # "trickling" => sees = tailBody
        /\ bodyClosed' = (bodyClosed \/ sees \/ kind = "fallback")
  BY DEF CloseBody
<1>2. sees => tailBody
  BY <1>1
<1>3. mode # "trickling" /\ tailBody => sees
  BY <1>1
<1>4. bodyClosed' <=> (bodyClosed \/ sees \/ kind = "fallback")
  BY <1>1
<1>5. QED
  BY <1>2, <1>3, <1>4

\* So does every step of the client side.
LEMMA ReaderStepKeeps ==
  ASSUME FlagsOK, Core, ReaderStep \/ ClientGone
  PROVE  Core'
<1> USE ScanJobAssumption DEF Core, RangesOK, KindInv, StageInv, VerdictInv, PosInv,
      WholeInv, EndInv, NoLostWakeup, Infected, Decided, Published, Sent, Verdicts,
      Terminal, jobVars, bodyVars, fileVars, scanVars, readerVars, serveVars
<1>1. CASE ReadVerdict
  BY <1>1 DEF ReadVerdict, ReadFrame, ActOnVerdict, ReturnEnd
<1>2. CASE ReadTimer
  BY <1>2 DEF ReadTimer, ReadFrame
<1>3. CASE ReadFlushing
  BY <1>3 DEF ReadFlushing, ReadFrame
<1>4. CASE ReadOneByte
  BY <1>4 DEF ReadOneByte, ReadFrame, ReadFile, ReturnEnd
<1>5. CASE FlushBytes
  BY <1>5 DEF FlushBytes, ReadFrame, ReadFile, ReturnEnd
<1>6. CASE WaitForBytes
  BY <1>6 DEF WaitForBytes, ReadFrame
<1>7. CASE TakeToken
  BY <1>7 DEF TakeToken, ReadFrame
<1>8. CASE OneUploadDone
  BY <1>8 DEF OneUploadDone, ReadFrame
<1>9. CASE OneVerdict
  BY <1>9 DEF OneVerdict, ReadFrame, ActOnVerdict, ReturnEnd
<1>10. CASE FlushUploadDone
  BY <1>10 DEF FlushUploadDone, ReadFrame
<1>11. CASE TailRead
  BY <1>11 DEF TailRead, ReadFrame, BodyRead, ReturnEnd
<1>12. CASE FallbackRead
  BY <1>12 DEF FallbackRead, ReadFrame, BodyRead, ReturnEnd
<1>13. CASE ClientGone
  BY <1>13 DEF ClientGone, ReadFrame, ReturnEnd
<1>14. CASE CloseBody
  <2>1. /\ bodyClosed' => bodyClosed \/ tailBody \/ kind = "fallback"
        /\ bodyClosed => bodyClosed'
        /\ kind = "fallback" => bodyClosed'
        /\ mode # "trickling" /\ tailBody => bodyClosed'
    BY <1>14, CloseBodyEffect
  <2>2. RangesOK' /\ KindInv' /\ StageInv'
    BY <1>14, <2>1 DEF CloseBody, ReadFrame
  <2>3. VerdictInv' /\ PosInv' /\ WholeInv' /\ NoLostWakeup'
    BY <1>14, <2>1 DEF CloseBody, ReadFrame
  <2>4. EndInv'
    BY <1>14, <2>1 DEF CloseBody, ReadFrame
  <2>5. QED
    BY <2>2, <2>3, <2>4
<1>15. QED
  BY <1>1, <1>2, <1>3, <1>4, <1>5, <1>6, <1>7, <1>8, <1>9, <1>10, <1>11, <1>12, <1>13, <1>14 DEF ReaderStep

\* And every step of the rest of the proxy.
LEMMA OtherStepsKeep ==
  ASSUME FlagsOK, Core, StartBrowserJob \/ StartCLIJob \/ NewPresetJob
         \/ DownloadCheck \/ DownloadServe \/ SetConfig \/ Cleanup
  PROVE  Core'
<1> USE ScanJobAssumption DEF Core, RangesOK, KindInv, StageInv, VerdictInv, PosInv,
      WholeInv, EndInv, NoLostWakeup, Infected, Decided, Published, Sent, Verdicts,
      Terminal, jobVars, bodyVars, fileVars, scanVars, readerVars, serveVars
<1>1. CASE StartBrowserJob
  BY <1>1 DEF StartBrowserJob
<1>2. CASE StartCLIJob
  BY <1>2 DEF StartCLIJob
<1>3. CASE NewPresetJob
  BY <1>3 DEF NewPresetJob
<1>4. CASE DownloadCheck
  BY <1>4 DEF DownloadCheck, ServeFrame
<1>5. CASE DownloadServe
  BY <1>5 DEF DownloadServe, ServeFrame
<1>6. CASE SetConfig
  BY <1>6 DEF SetConfig, OthersFrame
<1>7. CASE Cleanup
  BY <1>7 DEF Cleanup, OthersFrame
<1>8. QED
  BY <1>1, <1>2, <1>3, <1>4, <1>5, <1>6, <1>7

-----------------------------------------------------------------------------
(* The theorems.                                                           *)

\* IInv holds in every reachable state.
THEOREM Invariance == Spec => []IInv
<1>1. Init => IInv
  BY InitIInv
<1>2. IInv /\ [Next]_vars => IInv'
  <2> SUFFICES ASSUME IInv, [Next]_vars PROVE IInv'
    OBVIOUS
  <2>1. FlagsOK /\ Core
    BY DEF IInv
  <2>2. FlagsOK'
    BY <2>1, FlagsStep
  <2>3. Core'
    <3>1. CASE ScanStep
      BY <2>1, <3>1, ScanStepKeeps
    <3>2. CASE ReaderStep \/ ClientGone
      BY <2>1, <3>2, ReaderStepKeeps
    <3>3. CASE \/ StartBrowserJob \/ StartCLIJob \/ NewPresetJob
               \/ DownloadCheck \/ DownloadServe \/ SetConfig \/ Cleanup
      BY <2>1, <3>3, OtherStepsKeep
    <3>4. CASE UNCHANGED vars
      BY <2>1, <3>4 DEF vars, Core, RangesOK, KindInv, StageInv, VerdictInv, PosInv,
         WholeInv, EndInv, NoLostWakeup, Infected, Decided, Published, Sent, Verdicts,
         Terminal, jobVars, bodyVars, fileVars, scanVars, readerVars, serveVars
    <3>5. QED
      BY <3>1, <3>2, <3>3, <3>4 DEF Next
  <2>4. QED
    BY <2>2, <2>3 DEF IInv
<1>3. QED
  BY <1>1, <1>2, PTL DEF Spec

\* Fields, positions and program counters keep their ranges, whatever the body
\* length and the limits.
THEOREM TypeCorrect == Spec => []TypeOK
<1>1. IInv => TypeOK
  BY DEF IInv, Core, TypeOK
<1>2. QED
  BY <1>1, Invariance, PTL

\* When uploadDone closes, the verdict readOne will block for is available.
THEOREM VerdictReady == Spec => []VerdictBeforeDone
<1>1. IInv => VerdictBeforeDone
  BY DEF IInv, Core, KindInv, VerdictInv, Sent, VerdictBeforeDone
<1>2. QED
  BY <1>1, Invariance, PTL

\* A threat named by a cache or by clamd keeps the file from being flushed or
\* served, except as a too-large file.
THEOREM NoInfectedDelivery == Spec => []InfectedNeverDelivered
<1>1. IInv => InfectedNeverDelivered
  BY DEF IInv, Core, RangesOK, StageInv, VerdictInv, Infected, Published, Sent,
     Verdicts, Terminal, InfectedNeverDelivered
<1>2. QED
  BY <1>1, Invariance, PTL

\* The client gets the temp file and then the tail, without gap or repetition.
THEOREM InOrderDelivery == Spec => []TailContinuesFile
<1>1. IInv => TailContinuesFile
  BY DEF IInv, Core, RangesOK, PosInv, TailContinuesFile
<1>2. QED
  BY <1>1, Invariance, PTL

\* A waiting reader with unread bytes has a wake-up on its way.
THEOREM WakeupNotLost == Spec => []NoLostWakeup
<1>1. IInv => NoLostWakeup
  BY DEF IInv, Core
<1>2. QED
  BY <1>1, Invariance, PTL

\* A normal end of the download means the whole body was delivered.
THEOREM WholeDelivery == Spec => []DeliveredWhole
<1>1. IInv => DeliveredWhole
  BY ScanJobAssumption DEF IInv, Core, RangesOK, KindInv, VerdictInv, PosInv, WholeInv,
     EndInv, StageInv, Decided, Published, Sent, Verdicts, Terminal, DeliveredWhole
<1>2. QED
  BY <1>1, Invariance, PTL

\* A cached verdict was reached on the whole body.
THEOREM WholeBodyCached == Spec => []CachedCoversBody
<1>1. IInv => CachedCoversBody
  BY ScanJobAssumption DEF IInv, Core, RangesOK, KindInv, StageInv, PosInv, WholeInv,
     Decided, Verdicts, Terminal, CachedCoversBody
<1>2. QED
  BY <1>1, Invariance, PTL

\* The upstream body has been closed once both sides are done with it.
THEOREM BodyReleased == Spec => []ConsumedBodyIsClosed
<1>1. IInv => ConsumedBodyIsClosed
  BY DEF IInv, Core, EndInv, ConsumedBodyIsClosed
<1>2. QED
  BY <1>1, Invariance, PTL

\* No actor reads the upstream body once it is closed.
THEOREM ReadsOnlyOpenBody == Spec => NoReadAfterClose
<1>1. IInv /\ [Next]_vars => [bodyClosed => bodyPos' = bodyPos]_vars
  <2> SUFFICES ASSUME IInv, bodyClosed, [Next]_vars PROVE bodyPos' = bodyPos
    OBVIOUS
  <2>1. /\ spc \in Decided \cup {"idle"} /\ rpc # "pass" /\ rpc # "tail"
    BY DEF IInv, Core, EndInv, PosInv, Decided
  <2> USE DEF jobVars, bodyVars, fileVars, scanVars, readerVars, serveVars
  <2>2. CASE ScanStep
    BY <2>1, <2>2 DEF Decided, ScanStep, At, Notify, OpenTemp, LookupURL, CopyBody,
       DialClamd, StreamToClamd, ReadClamdResult, CheckTruncated, DiscardRest,
       DrainAfterError, MergeVerdict, setResult, SendResult, CloseUpload, ReleaseBody
  <2>3. CASE ReaderStep \/ ClientGone
    BY <2>1, <2>3 DEF ReaderStep, ClientGone, ReadVerdict, ReadTimer, ReadFlushing,
       ReadOneByte, FlushBytes, WaitForBytes, TakeToken, OneUploadDone, OneVerdict,
       FlushUploadDone, TailRead, FallbackRead, CloseBody, ActOnVerdict, ReadFile
  <2>4. CASE StartBrowserJob \/ StartCLIJob \/ NewPresetJob
    BY <2>4 DEF StartBrowserJob, StartCLIJob, NewPresetJob
  <2>5. CASE DownloadCheck \/ DownloadServe \/ SetConfig \/ Cleanup
    BY <2>5 DEF DownloadCheck, DownloadServe, SetConfig, Cleanup, ServeFrame, OthersFrame
  <2>6. CASE UNCHANGED vars
    BY <2>6 DEF vars
  <2>7. QED
    BY <2>2, <2>3, <2>4, <2>5, <2>6 DEF Next
<1>2. QED
  BY <1>1, Invariance, PTL DEF Spec, NoReadAfterClose

-----------------------------------------------------------------------------
(* ScanJob implements the safety part of ScanPromise.                      *)

Working == {"lookup", "copy", "dial", "stream", "answer", "check", "discard", "drain", "hash"}

\* The status while the verdict is not yet published: runScan sets "scanning"
\* once, and concludes without it only when the temp file cannot be opened.
StatusInv ==
  /\ spc = "open" => status = "pending"
  /\ spc \in Working => status = "scanning"
  /\ spc = "publish" => status = "scanning" \/ (status = "pending" /\ final = "error")

\* StatusInv holds in every behaviour.
THEOREM StatusBeforeVerdict == Spec => []StatusInv
<1>1. Init => StatusInv
  BY DEF Init, StatusInv, Working
<1>2. IInv /\ StatusInv /\ [Next]_vars => StatusInv'
  <2> SUFFICES ASSUME IInv, StatusInv, [Next]_vars PROVE StatusInv'
    OBVIOUS
  <2>1. kind = "none" => status = "pending"
    BY DEF IInv, Core, KindInv
  <2>2. spc = "idle" <=> kind \in {"none", "fallback", "preset"}
    BY DEF IInv, Core, KindInv
  <2> USE DEF vars, jobVars, bodyVars, fileVars, scanVars, readerVars, serveVars, StatusInv, Working
  <2>3. CASE Notify \/ OpenTemp \/ LookupURL \/ CopyBody \/ DialClamd \/ StreamToClamd
              \/ ReadClamdResult \/ CheckTruncated
    BY <2>3 DEF At, Notify, OpenTemp, LookupURL, CopyBody, DialClamd, StreamToClamd,
       ReadClamdResult, CheckTruncated
  <2>4. CASE DiscardRest \/ DrainAfterError \/ MergeVerdict \/ setResult \/ SendResult
              \/ CloseUpload \/ ReleaseBody
    BY <2>4 DEF At, DiscardRest, DrainAfterError, MergeVerdict, setResult, SendResult,
       CloseUpload, ReleaseBody
  <2>5. CASE ReaderStep \/ ClientGone
    <3>1. UNCHANGED <<spc, status, final>>
      BY <2>5 DEF ReaderStep, ClientGone, ReadVerdict, ReadTimer, ReadFlushing,
         ReadOneByte, FlushBytes, WaitForBytes, TakeToken, OneUploadDone, OneVerdict,
         FlushUploadDone, TailRead, FallbackRead, CloseBody, ActOnVerdict, ReadFile,
         BodyRead, ReadFrame
    <3> QED
      BY <3>1
  <2>6. CASE StartBrowserJob \/ StartCLIJob \/ NewPresetJob
    BY <2>1, <2>2, <2>6 DEF StartBrowserJob, StartCLIJob, NewPresetJob
  <2>7. CASE DownloadCheck \/ DownloadServe \/ SetConfig \/ Cleanup
    BY <2>7 DEF DownloadCheck, DownloadServe, SetConfig, Cleanup, ServeFrame, OthersFrame
  <2>8. CASE UNCHANGED vars
    BY <2>8
  <2> QED
    BY <2>3, <2>4, <2>5, <2>6, <2>7, <2>8 DEF Next, ScanStep
<1> QED
  BY <1>1, <1>2, Invariance, PTL DEF Spec

\* The abstract state is read from five variables; most steps touch none of
\* them.
LEMMA PromiseStutters ==
  ASSUME UNCHANGED <<kind, status, mode, dpc, tailGot>>
  PROVE  UNCHANGED Promise!view
  BY DEF Promise!view, Outcome

\* Every step of the four actors is a step of the promise or none.
LEMMA StepKeepsPromise ==
  ASSUME IInv, StatusInv, [Next]_vars
  PROVE  [Promise!Next]_(Promise!view)
<1> USE DEF vars, jobVars, bodyVars, fileVars, scanVars, readerVars, serveVars
<1>1. CASE StartBrowserJob \/ StartCLIJob \/ NewPresetJob
  <2>1. kind = "none" /\ status = "pending" /\ mode = "trickling" /\ dpc = "idle" /\ tailGot = 0
    BY <1>1 DEF StartBrowserJob, StartCLIJob, NewPresetJob, IInv, Core, KindInv, RangesOK
  <2>2. /\ kind' # "none" /\ status' \in {"pending", "infected", "error"}
        /\ UNCHANGED <<mode, dpc, tailGot>>
    BY <1>1, <2>1 DEF StartBrowserJob, StartCLIJob, NewPresetJob
  <2> QED
    BY <2>1, <2>2 DEF Promise!Next, Promise!Take, Outcome
<1>2. CASE OpenTemp \/ setResult
  <2>1. kind # "none" /\ UNCHANGED <<kind, mode, dpc, tailGot>>
    BY <1>2 DEF At, OpenTemp, setResult, ScanFrame, IInv, Core, KindInv
  <2>2. \/ UNCHANGED status
        \/ status = "pending" /\ status' \in {"scanning", "error"}
        \/ status = "scanning" /\ status' \in Terminal
    <3>1. CASE OpenTemp
      BY <3>1 DEF At, OpenTemp, StatusInv
    <3>2. CASE setResult
      BY <3>2 DEF At, setResult, StatusInv, IInv, Core, RangesOK, StageInv, Decided, Terminal
    <3> QED
      BY <1>2, <3>1, <3>2
  <2> QED
    BY <2>1, <2>2 DEF Promise!Next, Promise!Begin, Promise!Conclude, Promise!Final,
       Promise!view, Outcome, Terminal
<1>3. CASE ReadVerdict \/ OneVerdict
  <2>1. /\ kind = "cli" /\ mode = "trickling" /\ spc \in Sent /\ status = final
        /\ status \in Terminal /\ (resultCh = "infected" <=> status = "infected")
        /\ dpc = "idle"
    BY <1>3 DEF ReadVerdict, OneVerdict, ActOnVerdict, IInv, Core, RangesOK, KindInv, StageInv,
       VerdictInv, Sent, Published, Decided, Terminal
  <2>2. /\ UNCHANGED <<kind, status, dpc, tailGot>>
        /\ \/ mode' = "flushing" /\ resultCh = "clean"
           \/ mode' = "aborted" /\ resultCh = "infected"
    BY <1>3 DEF ReadVerdict, OneVerdict, ActOnVerdict, ReadFrame
  <2> QED
    BY <2>1, <2>2 DEF Promise!Next, Promise!Release, Promise!Refuse, Promise!Releasable,
       Promise!Final, Outcome, Terminal
<1>4. CASE TailRead \/ FallbackRead
  <2>1. /\ tailGot \in Nat
        /\ \/ kind = "cli"
           \/ kind = "fallback" /\ status = "error" /\ mode = "trickling" /\ dpc = "idle"
    BY <1>4 DEF TailRead, FallbackRead, IInv, Core, RangesOK, KindInv, VerdictInv
  <2>2. /\ UNCHANGED <<kind, status, mode, dpc>>
        /\ tailGot' = tailGot \/ tailGot' = tailGot + 1
    BY <1>4 DEF TailRead, FallbackRead, BodyRead, ReadFrame
  <2> QED
    BY <2>1, <2>2 DEF Promise!Next, Promise!Release, Promise!Releasable, Promise!Final,
       Promise!view, Outcome
<1>5. CASE DownloadCheck
  <2>1. /\ kind = "browser" \/ kind = "preset"
        /\ status \in {"clean", "error"} /\ mode = "trickling" /\ dpc = "idle"
        /\ dpc' = "serve" /\ UNCHANGED <<kind, status, mode, tailGot>>
    BY <1>5 DEF DownloadCheck, ServeFrame, IInv, Core, RangesOK, KindInv
  <2> QED
    BY <2>1 DEF Promise!Next, Promise!Release, Promise!Releasable, Promise!Final, Outcome
<1>6. CASE DownloadServe
  <2>1. /\ dpc # "idle" /\ dpc' # "idle" /\ UNCHANGED <<kind, status, mode, tailGot>>
    BY <1>6 DEF DownloadServe, ServeFrame
  <2> QED
    BY <2>1 DEF Promise!view, Outcome
<1>7. CASE \/ SetConfig \/ Cleanup \/ ClientGone \/ UNCHANGED vars
           \/ Notify \/ LookupURL \/ CopyBody \/ DialClamd \/ StreamToClamd \/ ReadClamdResult
           \/ CheckTruncated \/ DiscardRest \/ DrainAfterError \/ MergeVerdict \/ SendResult
           \/ CloseUpload \/ ReleaseBody
  <2>1. UNCHANGED <<kind, status, mode, dpc, tailGot>>
    BY <1>7 DEF SetConfig, Cleanup, OthersFrame, ClientGone, ReadFrame, ScanFrame, Notify,
       LookupURL, CopyBody, DialClamd, StreamToClamd, ReadClamdResult, CheckTruncated,
       DiscardRest, DrainAfterError, MergeVerdict, SendResult, CloseUpload, ReleaseBody
  <2> QED
    BY <2>1, PromiseStutters
<1>8. CASE ReadTimer \/ ReadFlushing \/ ReadOneByte \/ FlushBytes \/ WaitForBytes \/ TakeToken
           \/ OneUploadDone \/ FlushUploadDone \/ CloseBody
  <2>1. UNCHANGED <<kind, status, mode, dpc, tailGot>>
    BY <1>8 DEF ReadTimer, ReadFlushing, ReadOneByte, FlushBytes, WaitForBytes, TakeToken,
       OneUploadDone, FlushUploadDone, CloseBody, ReadFile, ReadFrame
  <2> QED
    BY <2>1, PromiseStutters
<1> QED
  BY <1>1, <1>2, <1>3, <1>4, <1>5, <1>6, <1>7, <1>8 DEF Next, ScanStep, ReaderStep

\* ScanJob keeps the safety part of the manager's promise for every body length
\* and every sequence of size limits: one final verdict, published before the
\* download is released, and no release after "infected".
THEOREM PromiseKept == Spec => Promise!Safety
<1>1. Init => Promise!Init
  BY DEF Init, Promise!Init, Outcome
<1>2. IInv /\ StatusInv /\ [Next]_vars => [Promise!Next]_(Promise!view)
  BY StepKeepsPromise
<1> QED
  BY <1>1, <1>2, Invariance, StatusBeforeVerdict, PTL DEF Spec, Promise!Safety

=============================================================================
