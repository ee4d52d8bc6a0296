--------------------------- MODULE ConnLoopProofs ---------------------------
(***************************************************************************)
(* Theorems about ConnLoop, for any hosts and any bounds: the loop and its *)
(* client agree on where requests and responses end.                       *)
(***************************************************************************)
EXTENDS ConnLoop, TLAPS

ClientStates == {"idle", "await", "len", "chunked", "untilClose", "garbled", "closed"}
Outcomes == {"none", "complete", "cut", "garbled"}
Clients == [st : ClientStates, need : Int, got : Int, outcome : Outcomes]

-----------------------------------------------------------------------------
(* The inductive invariant.                                                *)

\* The client is a parser state, and no more was copied than the body holds.
RangeInv ==
  /\ client \in Clients /\ req \in Requests /\ resp \in Responses
  /\ sent \in Nat /\ sent <= resp.len /\ nreq \in Nat

\* Whatever is to be read of a request body is read before its response starts.
DrainInv == lpc \notin {"check", "trip", "drain"} => reqLeft = 0

\* The blocklist was consulted after the request was read.
ListInv ==
  /\ lpc = "check" => since \subseteq blocked
  /\ lpc \in {"trip", "drain", "head", "body", "bridge"} => req.host \notin since

\* Before the head nothing of the response was seen.
BeforeInv ==
  lpc \in {"check", "trip", "drain", "head"} =>
    client.got = 0 /\ sent = 0 /\ client.st \in {"await", "closed"}

\* The answers to HEAD that InStep leaves out.
Unframed == req.head /\ resp.cl = -1

\* While a body that will leave the connection open is copied, the client has seen
\* as much as was copied and is where the framing of the head puts it.
BodyInv ==
  lpc = "body" /\ client.st # "closed" /\ ~Closing /\ ~Unframed =>
    /\ client.got = sent
    /\ req.head => client.st = "idle"
    /\ ~req.head /\ resp.cl >= 0 =>
         /\ sent = resp.cl => client.st = "idle"
         /\ sent # resp.cl => client.st = "len" /\ client.need = resp.cl - sent
    /\ ~req.head /\ resp.cl < 0 => client.st = "chunked"

\* Where the response is one that RoundTrip can return.
KindInv ==
  /\ lpc = "body" => resp.kind \in {"plain", "sse"}
  /\ lpc \in {"head", "body", "drain"} => Possible(req, resp)
  /\ lpc = "connect" => nreq = 0

\* The invariant behind ResponsesInStep.
FrameInv == RangeInv /\ BeforeInv /\ BodyInv /\ KindInv /\ InStep

\* Types, with what makes them inductive: a byte of a request body is read once,
\* by the transport or by the drain, and a client gets no byte that was not copied.
Bridges == [up : {"read", "write", "done"}, down : {"read", "write", "done"},
            connOpen : BOOLEAN, rwcOpen : BOOLEAN, expired : BOOLEAN, cEnd : BOOLEAN,
            uEnd : BOOLEAN, cStall : BOOLEAN, uStall : BOOLEAN,
            cData : Int, uData : Int, sent : Int]

ListTypes ==
  /\ lpc \in {"connect", "read", "check", "trip", "drain", "head", "body", "bridge", "closed"}
  /\ target \in Hosts /\ blocked \subseteq Hosts /\ since \subseteq Hosts /\ lists \in 0..MaxLists
  /\ nreq \in 0..MaxReqs

BytesInv ==
  /\ reqLeft \in Nat /\ upGot \in Nat /\ reqLeft + upGot <= req.len
  /\ client.got \in Nat /\ client.got <= sent

CountInv == ListTypes /\ BytesInv /\ bridge \in Bridges

-----------------------------------------------------------------------------
(* The client's parser.                                                    *)

\* What the parser makes of a head.
LEMMA HeadSeen ==
  ASSUME NEW c \in Clients, NEW f \in {"len", "chunked", "untilClose"},
         NEW n \in Int, NEW b \in BOOLEAN
  PROVE  /\ SeeHead(c, f, n, b) \in Clients
         /\ c.st = "closed" => SeeHead(c, f, n, b) = c
         /\ c.st = "await" =>
              /\ SeeHead(c, f, n, b).got = c.got
              /\ IF b \/ (f = "len" /\ n = 0)
                 THEN SeeHead(c, f, n, b).st = "idle" /\ SeeHead(c, f, n, b).need = c.need
                 ELSE SeeHead(c, f, n, b).st = f /\ SeeHead(c, f, n, b).need = n
<1>1. CASE c.st \in {"garbled", "closed"}
  BY <1>1 DEF SeeHead
<1>2. CASE c.st \notin {"garbled", "closed", "await"}
  BY <1>2 DEF SeeHead, Garbled, Clients, ClientStates, Outcomes
<1>3. CASE c.st = "await" /\ (b \/ (f = "len" /\ n = 0))
  BY <1>3 DEF SeeHead, Complete, Clients, ClientStates, Outcomes
<1>4. CASE c.st = "await" /\ ~(b \/ (f = "len" /\ n = 0))
  <2>1. SeeHead(c, f, n, b) = [c EXCEPT !.st = f, !.need = n]
    BY <1>4 DEF SeeHead
  <2> QED BY <1>4, <2>1 DEF Clients, ClientStates
<1> QED BY <1>1, <1>2, <1>3, <1>4

\* What it makes of a byte of the body.
LEMMA ByteSeen ==
  ASSUME NEW c \in Clients
  PROVE  /\ SeeRaw(c) \in Clients /\ SeeChunk(c) \in Clients
         /\ c.st = "closed" => SeeRaw(c) = c /\ SeeChunk(c) = c
         /\ c.st = "chunked" => SeeChunk(c).st = "chunked" /\ SeeChunk(c).got = c.got + 1
         /\ c.st = "len" => /\ SeeRaw(c).got = c.got + 1 /\ SeeRaw(c).need = c.need - 1
                            /\ SeeRaw(c).st = IF c.need = 1 THEN "idle" ELSE "len"
<1>1. CASE c.st = "len"
  <2>1. SeeChunk(c) \in Clients
    BY <1>1 DEF SeeChunk, Garbled, Clients, ClientStates, Outcomes
  <2> DEFINE d == [c EXCEPT !.need = c.need - 1, !.got = c.got + 1]
  <2>2. /\ d \in Clients /\ d.st = "len" /\ d.need = c.need - 1 /\ d.got = c.got + 1
    <3>1. c.need - 1 \in Int /\ c.got + 1 \in Int
      BY DEF Clients
    <3> QED BY <1>1, <3>1 DEF Clients
  <2>3. SeeRaw(c) = IF d.need = 0 THEN Complete(d) ELSE d
    BY <1>1 DEF SeeRaw
  <2> HIDE DEF d
  <2>4. /\ Complete(d) \in Clients /\ Complete(d).st = "idle"
        /\ Complete(d).need = d.need /\ Complete(d).got = d.got
    BY <2>2 DEF Complete, Clients, ClientStates, Outcomes
  <2>5. d.need = 0 <=> c.need = 1
    BY <2>2 DEF Clients
  <2> QED BY <1>1, <2>1, <2>2, <2>3, <2>4, <2>5
<1>2. CASE c.st \in {"garbled", "closed"}
  BY <1>2 DEF SeeRaw, SeeChunk
<1>3. CASE c.st \in {"untilClose", "chunked"}
  <2>1. Garbled(c) \in Clients
    BY DEF Garbled, Clients, ClientStates, Outcomes
  <2> DEFINE d == [c EXCEPT !.got = c.got + 1]
  <2>2. d \in Clients /\ d.st = c.st /\ d.got = c.got + 1
    BY DEF Clients
  <2>3. c.st = "chunked" => SeeChunk(c) = d /\ SeeRaw(c) = Garbled(c)
    BY DEF SeeChunk, SeeRaw
  <2>4. c.st = "untilClose" => SeeChunk(c) = Garbled(c) /\ SeeRaw(c) = d
    BY DEF SeeChunk, SeeRaw
  <2> HIDE DEF d
  <2> QED BY <1>3, <2>1, <2>2, <2>3, <2>4
<1>4. CASE c.st \in {"idle", "await"}
  BY <1>4 DEF SeeRaw, SeeChunk, Garbled, Clients, ClientStates, Outcomes
<1> QED BY <1>1, <1>2, <1>3, <1>4 DEF Clients, ClientStates

\* What it makes of the last chunk and of the end of the connection.
LEMMA EndSeen ==
  ASSUME NEW c \in Clients
  PROVE  /\ SeeLastChunk(c) \in Clients /\ SeeClose(c) \in Clients
         /\ SeeClose(c).st = "closed" /\ SeeClose(c).got = c.got
         /\ c.st = "closed" => SeeLastChunk(c) = c
         /\ c.st = "chunked" => SeeLastChunk(c).st = "idle" /\ SeeLastChunk(c).got = c.got
<1>1. /\ SeeLastChunk(c) \in Clients
      /\ c.st = "closed" => SeeLastChunk(c) = c
      /\ c.st = "chunked" => SeeLastChunk(c).st = "idle" /\ SeeLastChunk(c).got = c.got
  BY DEF SeeLastChunk, Complete, Garbled, Clients, ClientStates, Outcomes
<1>2. CASE c.st = "untilClose"
  BY <1>1, <1>2 DEF SeeClose, Clients, ClientStates, Outcomes
<1>3. CASE c.st \in {"await", "len", "chunked"}
  BY <1>1, <1>3 DEF SeeClose, Clients, ClientStates, Outcomes
<1>4. CASE c.st \in {"idle", "garbled", "closed"}
  BY <1>1, <1>4 DEF SeeClose, Clients, ClientStates, Outcomes
<1> QED BY <1>2, <1>3, <1>4 DEF Clients, ClientStates

\* A byte written adds at most one to what the client has got, anything else nothing.
LEMMA GotGrows ==
  ASSUME NEW c \in Clients, NEW f \in {"len", "chunked", "untilClose"},
         NEW n \in Int, NEW b \in BOOLEAN
  PROVE  /\ SeeHead(c, f, n, b).got = c.got
         /\ SeeRaw(c).got \in {c.got, c.got + 1}
         /\ SeeChunk(c).got \in {c.got, c.got + 1}
         /\ SeeLastChunk(c).got = c.got /\ SeeClose(c).got = c.got
<1> USE DEF Clients
<1>1. Complete(c).got = c.got /\ Garbled(c).got = c.got
  BY DEF Complete, Garbled
<1>2. SeeHead(c, f, n, b).got = c.got
  BY <1>1 DEF SeeHead
<1>3. SeeChunk(c).got \in {c.got, c.got + 1} /\ SeeLastChunk(c).got = c.got
  BY <1>1 DEF SeeChunk, SeeLastChunk
<1>4. SeeRaw(c).got \in {c.got, c.got + 1}
  <2> DEFINE d == [c EXCEPT !.need = c.need - 1, !.got = c.got + 1]
  <2>1. d.got = c.got + 1 /\ Complete(d).got = c.got + 1
    BY DEF Complete
  <2>2. CASE c.st = "len"
    BY <2>1, <2>2 DEF SeeRaw
  <2>3. CASE c.st = "untilClose"
    BY <2>3 DEF SeeRaw
  <2>4. CASE c.st \in {"garbled", "closed"}
    BY <2>4 DEF SeeRaw
  <2>5. CASE c.st \notin {"len", "untilClose", "garbled", "closed"}
    BY <1>1, <2>5 DEF SeeRaw
  <2> QED BY <2>2, <2>3, <2>4, <2>5
<1> QED BY <1>2, <1>3, <1>4, EndSeen

\* Whatever Host the client sent, the request has one of the hosts.
LEMMA ReadsRequest ==
  ASSUME target \in Hosts, NEW q \in Received
  PROVE  (IF q.host = NoHost THEN [q EXCEPT !.host = target] ELSE q) \in Requests
BY DEF Received, Requests

-----------------------------------------------------------------------------
(* The theorems.                                                           *)

\* The request body and the blocklist: drained, and consulted, in every state.
THEOREM ReadingInvariance == Spec => [](DrainInv /\ ListInv)
<1>1. Init => DrainInv /\ ListInv
  BY DEF Init, DrainInv, ListInv
<1>2. DrainInv /\ ListInv /\ [Next]_vars => DrainInv' /\ ListInv'
  <2> SUFFICES ASSUME DrainInv, ListInv, [Next]_vars PROVE DrainInv' /\ ListInv'
    OBVIOUS
  <2> USE DEF DrainInv, ListInv, loopVars, givenVars
  <2>1. CASE Connect \/ ReadRequest
    BY <2>1 DEF Connect, ReadRequest
  <2>2. CASE CheckBlocked
    BY <2>2 DEF CheckBlocked, AnswerAndClose
  <2>3. CASE RoundTrip
    BY <2>3 DEF RoundTrip, AnswerAndClose
  <2>4. CASE SendRequestByte \/ DrainBody
    BY <2>4 DEF SendRequestByte, DrainBody
  <2>5. CASE WriteHead \/ WriteUpgradeHead
    BY <2>5 DEF WriteHead, WriteUpgradeHead
  <2>6. CASE WriteByte \/ EndBody
    BY <2>6 DEF WriteByte, EndBody
  <2>7. CASE UpStep \/ DownStep
    BY <2>7 DEF UpStep, DownStep, UpRead, UpWrite, DownRead, DownWrite, BridgeFrame
  <2>8. CASE BridgeDeadline \/ PeerStep \/ UpstreamResumes
    BY <2>8 DEF BridgeDeadline, PeerStep, UpstreamResumes, BridgeFrame
  <2>9. CASE BridgeEnd
    BY <2>9 DEF BridgeEnd, Bridging
  <2>10. CASE ReloadBlocklist
    BY <2>10 DEF ReloadBlocklist
  <2>11. CASE ClientLeaves
    BY <2>11 DEF ClientLeaves
  <2>12. CASE UNCHANGED vars
    BY <2>12 DEF vars
  <2> QED BY <2>1, <2>2, <2>3, <2>4, <2>5, <2>6, <2>7, <2>8, <2>9, <2>10, <2>11, <2>12
          DEF Next, LoopStep
<1> QED BY <1>1, <1>2, PTL DEF Spec

\* The next ReadRequest starts at the first byte of a request: what the transport
\* left of the body before was drained.
THEOREM RequestsInStep == Spec => []RequestInStep
<1>1. DrainInv => RequestInStep
  BY DEF DrainInv, RequestInStep
<1> QED BY <1>1, ReadingInvariance, PTL

\* A request whose Host was blocked ever since the request was read never reaches
\* RoundTrip, however old the connection and wherever it would be sent.
THEOREM BlockedStays == Spec => []BlockedNotForwarded
<1>1. ListInv => BlockedNotForwarded
  BY DEF ListInv, BlockedNotForwarded
<1> QED BY <1>1, ReadingInvariance, PTL

\* The host of CONNECT stays what it was.
LEMMA TargetFixed == Spec => [](target \in Hosts)
<1>1. Init => target \in Hosts
  BY DEF Init
<1>2. target \in Hosts /\ [Next]_vars => (target \in Hosts)'
  <2> SUFFICES ASSUME [Next]_vars PROVE UNCHANGED target
    OBVIOUS
  <2> USE DEF givenVars
  <2>1. CASE LoopStep
    BY <2>1 DEF LoopStep, Connect, CheckBlocked, RoundTrip, DrainBody, WriteHead,
                WriteUpgradeHead, WriteByte, EndBody, BridgeEnd
  <2>2. CASE ReadRequest \/ SendRequestByte \/ ReloadBlocklist \/ ClientLeaves
    BY <2>2 DEF ReadRequest, SendRequestByte, ReloadBlocklist, ClientLeaves
  <2>3. CASE UpStep \/ DownStep
    BY <2>3 DEF UpStep, DownStep, UpRead, UpWrite, DownRead, DownWrite, BridgeFrame
  <2>4. CASE BridgeDeadline \/ PeerStep \/ UpstreamResumes
    BY <2>4 DEF BridgeDeadline, PeerStep, UpstreamResumes, BridgeFrame
  <2>5. CASE UNCHANGED vars
    BY <2>5 DEF vars
  <2> QED BY <2>1, <2>2, <2>3, <2>4, <2>5 DEF Next
<1> QED BY <1>1, <1>2, PTL DEF Spec

\* The responses: the loop and its client are in step in every state.
THEOREM FramingInvariance == Spec => []FrameInv
<1>1. Init => FrameInv
  <2>1. NoReq \in Requests
    BY ConnLoopAssumption DEF NoReq, Requests
  <2>2. NoResp \in Responses /\ NoResp.len = 0
    BY ConnLoopAssumption DEF NoResp, Responses
  <2>3. [st |-> "idle", need |-> 0, got |-> 0, outcome |-> "none"] \in Clients
    BY DEF Clients, ClientStates, Outcomes
  <2> QED BY <2>1, <2>2, <2>3 DEF Init, FrameInv, RangeInv, BeforeInv, BodyInv, KindInv, InStep
<1>2. FrameInv /\ target \in Hosts /\ [Next]_vars => FrameInv'
  <2> SUFFICES ASSUME FrameInv, target \in Hosts, [Next]_vars PROVE FrameInv'
    OBVIOUS
  <2> USE DEF FrameInv, RangeInv
  <2>1. CASE Connect
    BY <2>1, EndSeen DEF Connect, BeforeInv, BodyInv, KindInv, InStep, Closing, Unframed
  <2>2. CASE ReadRequest
    <3>1. CASE lpc' = "check"
      <4>1. /\ req' \in Requests /\ nreq' = nreq + 1 /\ resp' = NoResp /\ sent' = 0
            /\ client' = [st |-> "await", need |-> 0, got |-> 0, outcome |-> "none"]
        BY <2>2, <3>1, ReadsRequest DEF ReadRequest
      <4>2. NoResp \in Responses /\ NoResp.len = 0
        BY ConnLoopAssumption DEF NoResp, Responses
      <4>3. client' \in Clients /\ client'.got = 0 /\ client'.st = "await"
        BY <4>1 DEF Clients, ClientStates, Outcomes
      <4> QED BY <3>1, <4>1, <4>2, <4>3 DEF BeforeInv, BodyInv, KindInv, InStep
    <3>2. CASE lpc' # "check"
      <4>1. lpc' = "closed" /\ client' = SeeClose(client)
        BY <2>2, <3>2 DEF ReadRequest
      <4>2. UNCHANGED <<nreq, req, resp, sent>>
        BY <2>2, <3>2 DEF ReadRequest
      <4> QED BY <4>1, <4>2, EndSeen DEF BeforeInv, BodyInv, KindInv, InStep
    <3> QED BY <3>1, <3>2
  <2>3. CASE CheckBlocked
    <3>1. CASE AnswerAndClose
      <4>1. SeeHead(client, "len", 0, FALSE) \in Clients
        BY HeadSeen, 0 \in Int, client \in Clients, Zenon
      <4>2. client' \in Clients
        BY <3>1, <4>1, EndSeen DEF AnswerAndClose
      <4> QED BY <2>3, <3>1, <4>2
              DEF CheckBlocked, AnswerAndClose, BeforeInv, BodyInv, KindInv, InStep
    <3>2. CASE ~AnswerAndClose
      <4>1. lpc = "check" /\ lpc' = "trip" /\ UNCHANGED <<nreq, req, resp, sent, client>>
        BY <2>3, <3>2 DEF CheckBlocked
      <4> QED BY <4>1 DEF BeforeInv, BodyInv, KindInv, InStep
    <3> QED BY <3>1, <3>2
  <2>4. CASE RoundTrip
    <3>1. CASE AnswerAndClose /\ UNCHANGED resp
      <4>1. SeeHead(client, "len", 0, FALSE) \in Clients
        BY HeadSeen, 0 \in Int, client \in Clients, Zenon
      <4>2. client' \in Clients
        BY <3>1, <4>1, EndSeen DEF AnswerAndClose
      <4> QED BY <2>4, <3>1, <4>2
              DEF RoundTrip, AnswerAndClose, BeforeInv, BodyInv, KindInv, InStep
    <3>2. CASE ~(AnswerAndClose /\ UNCHANGED resp)
      <4>1. /\ lpc = "trip" /\ lpc' = "drain" /\ UNCHANGED <<nreq, req, sent, client>>
            /\ resp' \in Responses /\ Possible(req, resp')
        BY <2>4, <3>2 DEF RoundTrip
      <4>2. sent = 0
        BY <4>1 DEF BeforeInv
      <4>3. resp'.len \in Nat
        BY <4>1, ConnLoopAssumption DEF Responses
      <4>4. RangeInv'
        BY <4>1, <4>2, <4>3
      <4>5. Possible(req, resp)'
        BY <4>1 DEF Possible
      <4> QED BY <4>1, <4>4, <4>5 DEF BeforeInv, BodyInv, KindInv, InStep
    <3> QED BY <3>1, <3>2
  <2>5. CASE SendRequestByte \/ DrainBody
    BY <2>5 DEF SendRequestByte, DrainBody, BeforeInv, BodyInv, KindInv, InStep, Closing, Unframed
  <2>6. CASE WriteHead
    <3>1. /\ lpc = "head" /\ lpc' = "body" /\ resp.kind \in {"plain", "sse"}
          /\ client' = SeeHead(client, Framing, resp.cl, req.head)
          /\ UNCHANGED <<nreq, req, resp, sent>>
      BY <2>6 DEF WriteHead
    <3>2. /\ Framing \in {"len", "chunked", "untilClose"}
          /\ resp.cl \in Int /\ req.head \in BOOLEAN
      BY ConnLoopAssumption DEF Framing, Responses, Requests
    <3>3. client' \in Clients
      BY <3>1, <3>2, HeadSeen
    <3>4. client.got = 0 /\ sent = 0 /\ client.st \in {"await", "closed"}
      BY <3>1 DEF BeforeInv
    <3>5. BodyInv'
      <4> SUFFICES ASSUME client'.st # "closed", ~Closing, ~Unframed
                   PROVE  /\ client'.got = 0
                          /\ req.head => client'.st = "idle"
                          /\ ~req.head /\ resp.cl >= 0 =>
                               /\ 0 = resp.cl => client'.st = "idle"
                               /\ 0 # resp.cl => client'.st = "len" /\ client'.need = resp.cl
                          /\ ~req.head /\ resp.cl < 0 => client'.st = "chunked"
        BY <3>1, <3>2, <3>4 DEF BodyInv, Closing, Unframed
      <4>1. client.st = "await"
        BY <3>1, <3>2, <3>4, HeadSeen
      <4>2. CASE resp.cl >= 0
        <5>1. Framing = "len"
          BY <4>2 DEF Framing
        <5> QED BY <3>1, <3>2, <3>4, <4>1, <4>2, <5>1, HeadSeen
      <4>3. CASE resp.cl < 0
        <5>1. Framing = "chunked"
          BY <3>2, <4>3 DEF Framing
        <5> QED BY <3>1, <3>2, <3>4, <4>1, <4>3, <5>1, HeadSeen
      <4> QED BY <3>2, <4>2, <4>3
    <3>6. KindInv'
      BY <3>1 DEF KindInv, Possible
    <3> QED BY <3>1, <3>3, <3>5, <3>6 DEF BeforeInv, InStep
  <2>7. CASE WriteUpgradeHead
    <3>1. SeeHead(client, "len", 0, TRUE) \in Clients
      BY HeadSeen, 0 \in Int, client \in Clients, Zenon
    <3>2. client' \in Clients
      BY <2>7, <3>1, EndSeen DEF WriteUpgradeHead
    <3> QED BY <2>7, <3>2 DEF WriteUpgradeHead, BeforeInv, BodyInv, KindInv, InStep
  <2>8. CASE WriteByte
    <3>1. /\ lpc = "body" /\ lpc' = "body" /\ sent < resp.len /\ sent' = sent + 1
          /\ client' = IF Chunking THEN SeeChunk(client) ELSE SeeRaw(client)
          /\ UNCHANGED <<nreq, req, resp>>
      BY <2>8 DEF WriteByte
    <3>2. /\ resp.cl \in Int /\ resp.len \in Nat /\ req.head \in BOOLEAN
          /\ resp.kind \in {"plain", "sse"} /\ Possible(req, resp)
      BY <3>1, ConnLoopAssumption DEF Responses, Requests, KindInv
    <3>3. RangeInv'
      BY <3>1, <3>2, ByteSeen
    <3>4. BodyInv'
      <4> SUFFICES ASSUME client'.st # "closed", ~Closing, ~Unframed
                   PROVE  /\ client'.got = sent + 1
                          /\ req.head => client'.st = "idle"
                          /\ ~req.head /\ resp.cl >= 0 =>
                               /\ sent + 1 = resp.cl => client'.st = "idle"
                               /\ sent + 1 # resp.cl =>
                                    client'.st = "len" /\ client'.need = resp.cl - (sent + 1)
                          /\ ~req.head /\ resp.cl < 0 => client'.st = "chunked"
        BY <3>1 DEF BodyInv, Closing, Unframed
      <4>1. client.st # "closed"
        BY <3>1, ByteSeen
      <4>2. ~req.head
        BY <3>1, <3>2 DEF Possible
      <4>3. CASE resp.cl < 0
        <5>1. Chunking
          BY <3>2, <4>3 DEF Chunking, Closing
        <5>2. client.st = "chunked" /\ client.got = sent
          BY <3>1, <4>1, <4>2, <4>3 DEF BodyInv
        <5> QED BY <3>1, <3>2, <4>2, <4>3, <5>1, <5>2, ByteSeen
      <4>4. CASE resp.cl >= 0
        <5>1. ~Chunking
          BY <3>2, <4>4 DEF Chunking
        <5>2. sent < resp.cl
          BY <3>1, <3>2, <4>2, <4>4 DEF Possible
        <5>3. client.st = "len" /\ client.got = sent /\ client.need = resp.cl - sent
          BY <3>1, <3>2, <4>1, <4>2, <4>4, <5>2 DEF BodyInv
        <5> QED BY <3>1, <3>2, <4>2, <4>4, <5>1, <5>2, <5>3, ByteSeen
      <4> QED BY <3>2, <4>3, <4>4
    <3>5. KindInv'
      BY <3>1 DEF KindInv, Possible
    <3> QED BY <3>1, <3>3, <3>4, <3>5 DEF BeforeInv, InStep
  <2>9. CASE EndBody
    <3> DEFINE seen == IF Chunking THEN SeeLastChunk(client) ELSE client
    <3>1. /\ lpc = "body" /\ (sent = resp.len \/ client.st = "closed")
          /\ UNCHANGED <<nreq, req, resp, sent>>
      BY <2>9 DEF EndBody
    <3>2. \/ lpc' = "closed" /\ client' = SeeClose(seen)
          \/ lpc' = "read" /\ client' = seen /\ ~Closing
      BY <2>9 DEF EndBody
    <3>3. seen \in Clients
      BY EndSeen
    <3>4. client' \in Clients
      BY <3>2, <3>3, EndSeen
    <3>5. CASE lpc' = "closed"
      BY <3>1, <3>4, <3>5 DEF BeforeInv, BodyInv, KindInv, InStep
    <3>6. CASE lpc' = "read"
      <4>1. InStep'
        <5> SUFFICES ASSUME client'.st # "closed", resp.end = "eof", ~(req.head /\ resp.cl = -1)
                     PROVE  client'.st = "idle" /\ client'.got = resp.len
          BY <3>1 DEF InStep
        <5>1. client.st # "closed" /\ ~Unframed /\ ~Closing /\ client' = seen
          BY <3>2, <3>6, EndSeen DEF Unframed
        <5>2. /\ resp.cl \in -1..MaxLen /\ resp.len \in Nat /\ req.head \in BOOLEAN
              /\ resp.kind = "plain" /\ Possible(req, resp)
          BY <3>1, <5>1, ConnLoopAssumption DEF Responses, Requests, KindInv, Closing
        <5>3. client.got = resp.len
          BY <3>1, <5>1 DEF BodyInv
        <5>4. CASE resp.cl < 0
          <6>1. ~req.head
            BY <5>1, <5>2, <5>4, ConnLoopAssumption DEF Unframed
          <6>2. client.st = "chunked"
            BY <3>1, <5>1, <5>4, <6>1 DEF BodyInv
          <6>3. seen = SeeLastChunk(client)
            BY <5>2, <5>4 DEF Chunking
          <6> QED BY <5>1, <5>3, <6>2, <6>3, EndSeen
        <5>5. CASE resp.cl >= 0
          <6>1. seen = client
            BY <5>5, <5>2, ConnLoopAssumption DEF Chunking
          <6>2. req.head => client.st = "idle"
            BY <3>1, <5>1 DEF BodyInv
          <6>3. ~req.head => sent = resp.cl
            BY <3>1, <5>1, <5>2, <5>5 DEF Possible
          <6>4. ~req.head => client.st = "idle"
            BY <3>1, <5>1, <5>5, <6>3 DEF BodyInv
          <6> QED BY <5>1, <5>2, <5>3, <6>1, <6>2, <6>4
        <5> QED BY <5>2, <5>4, <5>5, ConnLoopAssumption
      <4> QED BY <3>1, <3>4, <3>6, <4>1 DEF BeforeInv, BodyInv, KindInv
    <3> QED BY <3>2, <3>5, <3>6
  <2>10. CASE UpStep \/ DownStep
    <3>1. UNCHANGED <<loopVars, givenVars>>
      BY <2>10 DEF UpStep, DownStep, UpRead, UpWrite, DownRead, DownWrite, BridgeFrame
    <3> QED BY <3>1 DEF loopVars, BeforeInv, BodyInv, KindInv, InStep, Closing, Unframed
  <2>11. CASE BridgeDeadline \/ PeerStep \/ UpstreamResumes
    <3>1. UNCHANGED <<loopVars, givenVars>>
      BY <2>11 DEF BridgeDeadline, PeerStep, UpstreamResumes, BridgeFrame
    <3> QED BY <3>1 DEF loopVars, BeforeInv, BodyInv, KindInv, InStep, Closing, Unframed
  <2>12. CASE BridgeEnd
    BY <2>12, EndSeen DEF BridgeEnd, Bridging, BeforeInv, BodyInv, KindInv, InStep, Closing, Unframed
  <2>13. CASE ReloadBlocklist
    BY <2>13 DEF ReloadBlocklist, loopVars, BeforeInv, BodyInv, KindInv, InStep, Closing, Unframed
  <2>14. CASE ClientLeaves
    BY <2>14, EndSeen DEF ClientLeaves, BeforeInv, BodyInv, KindInv, InStep, Closing, Unframed
  <2>15. CASE UNCHANGED vars
    BY <2>15 DEF vars, loopVars, BeforeInv, BodyInv, KindInv, InStep, Closing, Unframed
  <2> QED BY <2>1, <2>2, <2>3, <2>4, <2>5, <2>6, <2>7, <2>8, <2>9, <2>10, <2>11, <2>12, <2>13, <2>14, <2>15
          DEF Next, LoopStep
<1> QED BY <1>1, <1>2, TargetFixed, PTL DEF Spec

\* When the loop waits for the next request the client has received exactly the
\* body upstream sent, however many responses of whatever framing came before.
THEOREM ResponsesInStep == Spec => []InStep
<1>1. FrameInv => InStep
  BY DEF FrameInv
<1> QED BY <1>1, FramingInvariance, PTL

\* Every variable keeps its type for any bounds: no counter passes its limit, no byte
\* of a request body is read twice, and the client gets no byte that was not copied.
THEOREM TypeCorrect == Spec => []TypeOK
<1>1. Init => CountInv
  <2>1. NoReq.len = 0
    BY DEF NoReq
  <2>2. NoBridge \in Bridges
    BY DEF NoBridge, Bridges
  <2> QED BY <2>1, <2>2, ConnLoopAssumption DEF Init, CountInv, ListTypes, BytesInv
<1>2. CountInv /\ FrameInv /\ FrameInv' /\ [Next]_vars => CountInv'
  <2> SUFFICES ASSUME CountInv, RangeInv, BeforeInv, RangeInv', [Next]_vars PROVE CountInv'
    BY DEF FrameInv
  <2> USE DEF CountInv, givenVars
  <2>0. client \in Clients /\ req \in Requests /\ resp \in Responses /\ sent \in Nat
    BY DEF RangeInv
  <2>a. SeeClose(client).got = client.got
    BY <2>0, EndSeen
  <2>b. ASSUME AnswerAndClose
        PROVE  client'.got = client.got /\ reqLeft' = 0 /\ lpc' = "closed"
    <3>1. SeeHead(client, "len", 0, FALSE) \in Clients
      BY <2>0, HeadSeen, 0 \in Int, Zenon
    <3>2. SeeHead(client, "len", 0, FALSE).got = client.got
      BY <2>0, GotGrows, 0 \in Int, Zenon
    <3> QED BY <2>b, <3>1, <3>2, EndSeen DEF AnswerAndClose
  <2>c. req.len \in Nat
    BY <2>0 DEF Requests
  <2>1. CASE Connect
    BY <2>1, <2>a DEF Connect, ListTypes, BytesInv
  <2>2. CASE ReadRequest
    <3>1. CASE lpc' = "check"
      <4>0. target \in Hosts
        BY DEF ListTypes
      <4>1. /\ nreq < MaxReqs /\ nreq' = nreq + 1 /\ req' \in Requests /\ reqLeft' = req'.len
            /\ upGot' = 0 /\ since' = blocked /\ sent' = 0
            /\ client' = [st |-> "await", need |-> 0, got |-> 0, outcome |-> "none"]
            /\ UNCHANGED <<target, blocked, lists, bridge>>
        BY <2>2, <3>1, <4>0, ReadsRequest DEF ReadRequest
      <4>2. req'.len \in Nat
        BY <4>1 DEF Requests
      <4>3. ListTypes'
        BY <3>1, <4>1, ConnLoopAssumption DEF ListTypes
      <4>4. client'.got = 0
        BY <4>1
      <4>5. BytesInv'
        BY <4>1, <4>2, <4>4 DEF BytesInv
      <4> QED BY <4>1, <4>3, <4>5
    <3>2. CASE lpc' # "check"
      BY <2>2, <2>a, <3>2 DEF ReadRequest, ListTypes, BytesInv
    <3> QED BY <3>1, <3>2
  <2>3. CASE CheckBlocked
    BY <2>3, <2>b, <2>c DEF CheckBlocked, ListTypes, BytesInv
  <2>4. CASE RoundTrip
    BY <2>4, <2>b, <2>c DEF RoundTrip, ListTypes, BytesInv
  <2>5. CASE SendRequestByte \/ DrainBody
    BY <2>5, <2>c DEF SendRequestByte, DrainBody, ListTypes, BytesInv
  <2>6. CASE WriteHead
    <3>1. /\ Framing \in {"len", "chunked", "untilClose"}
          /\ resp.cl \in Int /\ req.head \in BOOLEAN
      BY <2>0, ConnLoopAssumption DEF Framing, Responses, Requests
    <3>2. client'.got = client.got
      BY <2>0, <2>6, <3>1, GotGrows DEF WriteHead
    <3> QED BY <2>6, <3>2 DEF WriteHead, ListTypes, BytesInv
  <2>7. CASE WriteUpgradeHead
    <3>1. SeeHead(client, "len", 0, TRUE) \in Clients
      BY <2>0, HeadSeen, 0 \in Int, Zenon
    <3>2. SeeHead(client, "len", 0, TRUE).got = client.got
      BY <2>0, GotGrows, 0 \in Int, Zenon
    <3>3. client'.got = client.got
      BY <2>7, <3>1, <3>2, EndSeen DEF WriteUpgradeHead
    <3> QED BY <2>7, <3>3 DEF WriteUpgradeHead, ListTypes, BytesInv
  <2>8. CASE WriteByte
    <3>1. client'.got \in {client.got, client.got + 1}
      <4>1. /\ SeeChunk(client).got \in {client.got, client.got + 1}
            /\ SeeRaw(client).got \in {client.got, client.got + 1}
        BY <2>0, GotGrows, 0 \in Int, Zenon
      <4> QED BY <2>8, <4>1 DEF WriteByte
    <3> QED BY <2>0, <2>8, <3>1 DEF WriteByte, ListTypes, BytesInv
  <2>9. CASE EndBody
    <3> DEFINE seen == IF Chunking THEN SeeLastChunk(client) ELSE client
    <3>1. /\ client' \in {seen, SeeClose(seen)} /\ lpc' \in {"read", "closed"}
          /\ UNCHANGED <<nreq, req, reqLeft, upGot, sent, givenVars, bridge>>
      BY <2>9 DEF EndBody
    <3>2. SeeLastChunk(client).got = client.got
      BY <2>0, GotGrows, 0 \in Int, Zenon
    <3>3. seen \in Clients /\ seen.got = client.got
      BY <2>0, <3>2, EndSeen
    <3>4. client'.got = client.got
      BY <3>1, <3>3, EndSeen
    <3> QED BY <3>1, <3>4 DEF ListTypes, BytesInv
  <2>10. CASE UpStep \/ DownStep
    <3>1. UNCHANGED <<loopVars, givenVars>>
      BY <2>10 DEF UpStep, DownStep, UpRead, UpWrite, DownRead, DownWrite, BridgeFrame
    <3>2. bridge' \in Bridges
      <4>1. bridge.cData - 1 \in Int /\ bridge.uData - 1 \in Int
        BY DEF Bridges
      <4>2. CASE UpRead
        <5>1. [bridge EXCEPT !.up = "write", !.cData = bridge.cData - 1] \in Bridges
          BY <4>1 DEF Bridges
        <5>2. [bridge EXCEPT !.up = "done", !.rwcOpen = FALSE] \in Bridges
          BY DEF Bridges
        <5> QED BY <4>2, <5>1, <5>2, Zenon DEF UpRead
      <4>3. CASE UpWrite
        BY <4>3 DEF UpWrite, Bridges
      <4>4. CASE DownRead
        <5>1. [bridge EXCEPT !.down = "write", !.uData = bridge.uData - 1] \in Bridges
          BY <4>1 DEF Bridges
        <5>2. [bridge EXCEPT !.down = "done", !.connOpen = FALSE] \in Bridges
          BY DEF Bridges
        <5> QED BY <4>4, <5>1, <5>2, Zenon DEF DownRead
      <4>5. CASE DownWrite
        BY <4>5 DEF DownWrite, Bridges
      <4> QED BY <2>10, <4>2, <4>3, <4>4, <4>5 DEF UpStep, DownStep
    <3> QED BY <3>1, <3>2 DEF loopVars, ListTypes, BytesInv
  <2>11. CASE BridgeDeadline \/ PeerStep \/ UpstreamResumes
    <3>1. UNCHANGED <<loopVars, givenVars>>
      BY <2>11 DEF BridgeDeadline, PeerStep, UpstreamResumes, BridgeFrame
    <3>2. bridge' \in Bridges
      <4>1. bridge.cData + 1 \in Int /\ bridge.uData + 1 \in Int /\ bridge.sent + 1 \in Int
        BY DEF Bridges
      <4>2. CASE BridgeDeadline
        BY <4>2 DEF BridgeDeadline, Bridges
      <4>3. CASE PeerStep
        <5>1. [bridge EXCEPT !.cData = bridge.cData + 1, !.sent = bridge.sent + 1] \in Bridges
          BY <4>1 DEF Bridges
        <5>2. [bridge EXCEPT !.uData = bridge.uData + 1, !.sent = bridge.sent + 1] \in Bridges
          BY <4>1 DEF Bridges
        <5>3. /\ [bridge EXCEPT !.cEnd = TRUE] \in Bridges
              /\ [bridge EXCEPT !.cStall = TRUE] \in Bridges
              /\ [bridge EXCEPT !.uStall = TRUE] \in Bridges
              /\ [bridge EXCEPT !.uEnd = TRUE, !.uStall = FALSE] \in Bridges
          BY DEF Bridges
        <5> QED BY <4>3, <5>1, <5>2, <5>3, Zenon DEF PeerStep
      <4>4. CASE UpstreamResumes
        BY <4>4 DEF UpstreamResumes, Bridges
      <4> QED BY <2>11, <4>2, <4>3, <4>4
    <3> QED BY <3>1, <3>2 DEF loopVars, ListTypes, BytesInv
  <2>12. CASE BridgeEnd
    <3>1. bridge' \in Bridges
      BY <2>12 DEF BridgeEnd, NoBridge, Bridges
    <3> QED BY <2>12, <2>a, <3>1 DEF BridgeEnd, ListTypes, BytesInv
  <2>13. CASE ReloadBlocklist
    BY <2>13, ConnLoopAssumption DEF ReloadBlocklist, loopVars, ListTypes, BytesInv
  <2>14. CASE ClientLeaves
    BY <2>14, <2>a DEF ClientLeaves, ListTypes, BytesInv
  <2>15. CASE UNCHANGED vars
    BY <2>15 DEF vars, loopVars, ListTypes, BytesInv
  <2> QED BY <2>1, <2>2, <2>3, <2>4, <2>5, <2>6, <2>7, <2>8, <2>9, <2>10, <2>11, <2>12, <2>13, <2>14, <2>15
          DEF Next, LoopStep
<1>3. CountInv /\ FrameInv => TypeOK
  <2> SUFFICES ASSUME CountInv, RangeInv PROVE TypeOK
    BY DEF FrameInv
  <2>1. req.len \in Nat /\ resp.len \in 0..MaxLen
    BY DEF RangeInv, Requests, Responses
  <2>2. client.got \in 0..MaxLen
    BY <2>1, ConnLoopAssumption DEF CountInv, BytesInv, RangeInv
  <2>3. client \in [st : ClientStates, need : Int, got : 0..MaxLen, outcome : Outcomes]
    BY <2>2 DEF RangeInv, Clients
  <2>4. reqLeft \in 0..req.len /\ upGot \in 0..req.len /\ sent \in 0..resp.len
    BY <2>1, ConnLoopAssumption DEF CountInv, BytesInv, RangeInv
  <2>5. bridge.up \in {"read", "write", "done"} /\ bridge.down \in {"read", "write", "done"}
    BY DEF CountInv, Bridges
  <2> QED BY <2>3, <2>4, <2>5 DEF TypeOK, CountInv, ListTypes, RangeInv, ClientStates, Outcomes
<1> QED BY <1>1, <1>2, <1>3, FramingInvariance, PTL DEF Spec

=============================================================================
