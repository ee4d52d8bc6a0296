------------------------------ MODULE ConnLoop ------------------------------
(***************************************************************************)
(* One intercepted connection (internal/proxy/connect.go, tunnel.go): the  *)
(* CONNECT handshake, then serveConnLoop, which reads requests, sends them *)
(* upstream and writes the responses with its own HTTP/1.1 framing, or     *)
(* bridges the two connections after a protocol upgrade.                   *)
(*                                                                         *)
(* The client is an HTTP/1.1 client that sends a request once the previous *)
(* response is complete.  client is its parser: what it makes of the heads,*)
(* raw bytes and chunks written so far.  Bodies are numbers of bytes.      *)
(***************************************************************************)
EXTENDS Integers

CONSTANTS Hosts,       \* hosts, of CONNECT and of req.Host
          NoHost,      \* the Host of a request that has none
          MaxReqs,     \* bound: requests on the connection
          MaxLen,      \* bound: bytes of a body
          MaxLists,    \* bound: reloads of the blocklist
          MaxData      \* bound: bytes over a bridge

ASSUME ConnLoopAssumption ==
  /\ Hosts # {} /\ NoHost \notin Hosts
  /\ MaxReqs \in Nat /\ MaxLen \in Nat /\ MaxLists \in Nat /\ MaxData \in Nat

VARIABLES
  lpc,       \* where handleConnect and serveConnLoop are
  target,    \* the host of CONNECT, where every request is sent
  blocked,   \* the domains of Server.blocklist
  lists,     \* reloads so far
  nreq,      \* requests so far
  req,       \* the request being served
  reqLeft,   \* bytes of its body not yet read from the connection
  upGot,     \* bytes of its body that went upstream
  resp,      \* the response RoundTrip returned
  sent,      \* bytes of its body copied so far
  client,    \* the client's view of the response
  since,     \* history: the hosts blocked ever since the request was read
  bridge     \* the upgraded connections and the two goroutines of loopBridge

loopVars == <<lpc, nreq, req, reqLeft, upGot, resp, sent, client>>
givenVars == <<target, blocked, lists, since>>
vars == <<loopVars, givenVars, bridge>>

\* What a client sends, and what the loop makes of it: host is req.Host, the one
\* the blocklist is asked about.
Received == [host : Hosts \cup {NoHost}, head : BOOLEAN, close : BOOLEAN, len : 0..1]
Requests == [host : Hosts, head : BOOLEAN, close : BOOLEAN, len : 0..1]

\* cl is ContentLength (-1 unknown), len what the body yields before end.
Responses == [kind : {"plain", "sse", "upgrade", "opaque"}, cl : -1..MaxLen,
              close : BOOLEAN, len : 0..MaxLen, end : {"eof", "error", "virus"}]

\* What net/http and scanTransport return for request q: a body of a known
\* length yields that length or fails; HEAD has none; an infected download
\* comes from handleCLI, which sets ContentLength -1 and not Close.
Possible(q, r) ==
  /\ r.kind \in {"upgrade", "opaque"} => r.cl = 0 /\ r.len = 0 /\ r.end = "eof" /\ ~r.close
  /\ q.head => r.len = 0 /\ r.end = "eof"
  /\ r.cl >= 0 /\ ~q.head => IF r.end = "eof" THEN r.len = r.cl ELSE r.len < r.cl
  /\ r.end = "virus" => r.kind = "plain" /\ r.cl = -1 /\ ~r.close

NoReq  == [host |-> CHOOSE h \in Hosts : TRUE, head |-> FALSE, close |-> FALSE, len |-> 0]
NoResp == [kind |-> "plain", cl |-> 0, close |-> FALSE, len |-> 0, end |-> "eof"]

NoBridge == [up |-> "read", down |-> "read", connOpen |-> TRUE, rwcOpen |-> TRUE,
             expired |-> FALSE, cEnd |-> FALSE, uEnd |-> FALSE, cStall |-> FALSE,
             uStall |-> FALSE, cData |-> 0, uData |-> 0, sent |-> 0]

-----------------------------------------------------------------------------
(* The client's parser.  st: "idle" between responses, "await" for a head, *)
(* "len", "chunked" or "untilClose" in a body, "closed" at the end.        *)
Complete(c) == [c EXCEPT !.st = "idle", !.outcome = "complete"]
Garbled(c)  == [c EXCEPT !.st = "garbled", !.outcome = "garbled"]

SeeHead(c, framing, n, bodyless) ==
  IF c.st \in {"garbled", "closed"} THEN c
  ELSE IF c.st # "await" THEN Garbled(c)
  ELSE IF bodyless \/ (framing = "len" /\ n = 0) THEN Complete(c)
  ELSE [c EXCEPT !.st = framing, !.need = n]

SeeRaw(c) ==
  CASE c.st = "len" -> LET d == [c EXCEPT !.need = @ - 1, !.got = @ + 1]
                       IN  IF d.need = 0 THEN Complete(d) ELSE d
    [] c.st = "untilClose" -> [c EXCEPT !.got = @ + 1]
    [] c.st \in {"garbled", "closed"} -> c
    [] OTHER -> Garbled(c)

SeeChunk(c) == IF c.st = "chunked" THEN [c EXCEPT !.got = @ + 1]
               ELSE IF c.st \in {"garbled", "closed"} THEN c ELSE Garbled(c)

SeeLastChunk(c) == IF c.st = "chunked" THEN Complete(c)
                   ELSE IF c.st \in {"garbled", "closed"} THEN c ELSE Garbled(c)

SeeClose(c) ==
  CASE c.st = "untilClose" -> [c EXCEPT !.st = "closed", !.outcome = "complete"]
    [] c.st \in {"await", "len", "chunked"} -> [c EXCEPT !.st = "closed", !.outcome = "cut"]
    [] OTHER -> [c EXCEPT !.st = "closed"]

-----------------------------------------------------------------------------
Init ==
  /\ lpc = "connect" /\ nreq = 0 /\ req = NoReq /\ reqLeft = 0 /\ upGot = 0
  /\ resp = NoResp /\ sent = 0
  /\ client = [st |-> "idle", need |-> 0, got |-> 0, outcome |-> "none"]
  /\ target \in Hosts /\ blocked \in SUBSET Hosts /\ lists = 0 /\ since = {}
  /\ bridge = NoBridge

\* Nothing is asked about the host of CONNECT.
\* Hijack, "200 Connection established" and the TLS handshake, each of which
\* may fail and ends the connection.
Connect ==
  /\ lpc = "connect"
  /\ \/ lpc' = "read" /\ UNCHANGED client
     \/ lpc' = "closed" /\ client' = SeeClose(client)
  /\ UNCHANGED <<nreq, req, reqLeft, upGot, resp, sent, givenVars, bridge>>

\* The request is for target whatever its Host; only an empty Host is filled in.
ReadRequest ==
  /\ lpc = "read"
  /\ \/ /\ nreq < MaxReqs /\ client.st = "idle"
        /\ nreq' = nreq + 1
        /\ \E q \in Received :
             req' = IF q.host = NoHost THEN [q EXCEPT !.host = target] ELSE q
        /\ reqLeft' = req'.len /\ upGot' = 0
        /\ client' = [st |-> "await", need |-> 0, got |-> 0, outcome |-> "none"]
        /\ since' = blocked
        /\ lpc' = "check" /\ resp' = NoResp /\ sent' = 0
     \/ /\ client.st = "closed" \/ nreq = MaxReqs
        /\ lpc' = "closed" /\ client' = SeeClose(client)
        /\ UNCHANGED <<nreq, req, reqLeft, upGot, resp, sent, since>>
  /\ UNCHANGED <<target, blocked, lists, bridge>>

\* A complete answer with Connection: close, the rest of the request drained.
AnswerAndClose ==
  /\ lpc' = "closed" /\ reqLeft' = 0
  /\ client' = SeeClose(SeeHead(client, "len", 0, FALSE))

\* Variant: the list is consulted for the first request of the connection only.
CheckBlockedOnce ==
  /\ lpc = "check"
  /\ \/ req.host \in blocked /\ nreq = 1 /\ AnswerAndClose
     \/ ~(req.host \in blocked /\ nreq = 1) /\ lpc' = "trip" /\ UNCHANGED <<reqLeft, client>>
  /\ UNCHANGED <<nreq, req, upGot, resp, sent, givenVars, bridge>>

CheckBlocked ==
  /\ lpc = "check"
  /\ \/ req.host \in blocked /\ AnswerAndClose
     \/ req.host \notin blocked /\ lpc' = "trip" /\ UNCHANGED <<reqLeft, client>>
  /\ UNCHANGED <<nreq, req, upGot, resp, sent, givenVars, bridge>>

\* The transport's write goroutine, which may outlive RoundTrip.
SendRequestByte ==
  /\ lpc \in {"trip", "drain"} /\ reqLeft > 0
  /\ reqLeft' = reqLeft - 1 /\ upGot' = upGot + 1
  /\ UNCHANGED <<lpc, nreq, req, resp, sent, client, givenVars, bridge>>

RoundTrip ==
  /\ lpc = "trip"
  /\ \/ /\ resp' \in Responses /\ Possible(req, resp')
        /\ lpc' = "drain" /\ UNCHANGED <<reqLeft, client>>
     \/ AnswerAndClose /\ UNCHANGED resp
  /\ UNCHANGED <<nreq, req, upGot, sent, givenVars, bridge>>

\* Variant: the request body is left to the transport.
DrainBodyNot ==
  /\ lpc = "drain"
  /\ lpc' = "head"
  /\ UNCHANGED <<nreq, req, reqLeft, upGot, resp, sent, client, givenVars, bridge>>

DrainBody ==
  /\ lpc = "drain"
  /\ reqLeft' = 0 /\ lpc' = "head"
  /\ UNCHANGED <<nreq, req, upGot, resp, sent, client, givenVars, bridge>>

\* loopWriteHead: an event stream is marked Close first.
Closing == resp.close \/ resp.kind = "sse"

\* Variant: a body of unknown length is announced only by the end of it.
FramingNoChunks == IF resp.cl >= 0 THEN "len" ELSE "untilClose"

Framing == IF resp.cl >= 0 THEN "len" ELSE IF Closing THEN "untilClose" ELSE "chunked"

WriteHead ==
  /\ lpc = "head" /\ resp.kind \in {"plain", "sse"}
  /\ client' = SeeHead(client, Framing, resp.cl, req.head)
  /\ lpc' = "body"
  /\ UNCHANGED <<nreq, req, reqLeft, upGot, resp, sent, givenVars, bridge>>

\* loopWriteUpgradeHead, then the bridge if the body is writable.
WriteUpgradeHead ==
  /\ lpc = "head" /\ resp.kind \in {"upgrade", "opaque"}
  /\ \/ /\ resp.kind = "upgrade"
        /\ lpc' = "bridge" /\ client' = SeeHead(client, "len", 0, TRUE)
     \/ /\ resp.kind = "opaque"
        /\ lpc' = "closed" /\ client' = SeeClose(SeeHead(client, "len", 0, TRUE))
  /\ UNCHANGED <<nreq, req, reqLeft, upGot, resp, sent, givenVars, bridge>>

Chunking == resp.kind = "plain" /\ resp.cl < 0

\* Variant: one byte too many is copied.
WriteBytePastEnd ==
  /\ lpc = "body" /\ sent <= resp.len
  /\ sent' = sent + 1
  /\ client' = IF Chunking THEN SeeChunk(client) ELSE SeeRaw(client)
  /\ UNCHANGED <<lpc, nreq, req, reqLeft, upGot, resp, givenVars, bridge>>

WriteByte ==
  /\ lpc = "body" /\ sent < resp.len
  /\ sent' = sent + 1
  /\ client' = IF Chunking THEN SeeChunk(client) ELSE SeeRaw(client)
  /\ UNCHANGED <<lpc, nreq, req, reqLeft, upGot, resp, givenVars, bridge>>

\* The copy ends, at EOF or at an error of either side, which it ignores: the
\* last chunk is written in any case.  The loop goes on unless one side asked for the end.
EndBody ==
  /\ lpc = "body" /\ (sent = resp.len \/ client.st = "closed")
  /\ LET seen == IF Chunking THEN SeeLastChunk(client) ELSE client
     IN  IF Closing \/ req.close
         THEN lpc' = "closed" /\ client' = SeeClose(seen)
         ELSE lpc' = "read" /\ client' = seen
  /\ UNCHANGED <<nreq, req, reqLeft, upGot, resp, sent, givenVars, bridge>>

-----------------------------------------------------------------------------
(* loopBridge: the goroutine "up" copies from the client to upstream, the  *)
(* loop itself ("down") the other way.  Only the client's connection has a *)
(* deadline, which every transfer on it moves.                             *)
Bridging == lpc = "bridge"
BridgeFrame == UNCHANGED <<loopVars, givenVars>>

ConnFails == ~bridge.connOpen \/ bridge.expired

\* Variant: the goroutine ends without closing the upstream connection.
UpReadKeepsUpstream ==
  /\ Bridging /\ bridge.up = "read"
  /\ \/ /\ ~ConnFails /\ bridge.cData > 0
        /\ bridge' = [bridge EXCEPT !.up = "write", !.cData = @ - 1]
     \/ /\ ConnFails \/ (bridge.cEnd /\ bridge.cData = 0)
        /\ bridge' = [bridge EXCEPT !.up = "done"]
  /\ BridgeFrame

\* The goroutine ends: rwc.Close(), close(done).
UpRead ==
  /\ Bridging /\ bridge.up = "read"
  /\ \/ /\ ~ConnFails /\ bridge.cData > 0
        /\ bridge' = [bridge EXCEPT !.up = "write", !.cData = @ - 1]
     \/ /\ ConnFails \/ (bridge.cEnd /\ bridge.cData = 0)
        /\ bridge' = [bridge EXCEPT !.up = "done", !.rwcOpen = FALSE]
  /\ BridgeFrame

\* No deadline here: a write that upstream does not take blocks until rwc is
\* closed or upstream goes away.
UpWrite ==
  /\ Bridging /\ bridge.up = "write"
  /\ \/ /\ bridge.rwcOpen /\ ~bridge.uStall
        /\ bridge' = [bridge EXCEPT !.up = "read"]
     \/ /\ ~bridge.rwcOpen \/ bridge.uEnd
        /\ bridge' = [bridge EXCEPT !.up = "done", !.rwcOpen = FALSE]
  /\ BridgeFrame

DownRead ==
  /\ Bridging /\ bridge.down = "read"
  /\ \/ /\ bridge.rwcOpen /\ bridge.uData > 0
        /\ bridge' = [bridge EXCEPT !.down = "write", !.uData = @ - 1]
     \/ /\ ~bridge.rwcOpen \/ (bridge.uEnd /\ bridge.uData = 0)
        /\ bridge' = [bridge EXCEPT !.down = "done", !.connOpen = FALSE]
  /\ BridgeFrame

DownWrite ==
  /\ Bridging /\ bridge.down = "write"
  /\ \/ /\ ~ConnFails /\ ~bridge.cStall
        /\ bridge' = [bridge EXCEPT !.down = "read"]
     \/ /\ ConnFails \/ bridge.cEnd
        /\ bridge' = [bridge EXCEPT !.down = "done", !.connOpen = FALSE]
  /\ BridgeFrame

\* Nothing has moved on the client's connection for bridgeIdleTimeout: reads
\* and writes on it fail from now on (the connection itself stays open).
BridgeDeadline ==
  /\ Bridging /\ ~bridge.expired
  /\ bridge' = [bridge EXCEPT !.expired = TRUE]
  /\ BridgeFrame

\* <-done, then resp.Body.Close() and the return of the loop.
BridgeEnd ==
  /\ Bridging /\ bridge.up = "done" /\ bridge.down = "done"
  /\ lpc' = "closed" /\ client' = SeeClose(client)
  /\ bridge' = NoBridge
  /\ UNCHANGED <<nreq, req, reqLeft, upGot, resp, sent, givenVars>>

\* What the peers of a bridge do.
PeerStep ==
  /\ Bridging
  /\ \/ ~bridge.cEnd /\ bridge.sent < MaxData
        /\ bridge' = [bridge EXCEPT !.cData = @ + 1, !.sent = @ + 1]
     \/ ~bridge.uEnd /\ bridge.sent < MaxData
        /\ bridge' = [bridge EXCEPT !.uData = @ + 1, !.sent = @ + 1]
     \/ ~bridge.cEnd /\ bridge' = [bridge EXCEPT !.cEnd = TRUE]
     \/ ~bridge.uEnd /\ bridge' = [bridge EXCEPT !.uEnd = TRUE, !.uStall = FALSE]
     \/ ~bridge.cStall /\ bridge' = [bridge EXCEPT !.cStall = TRUE]
     \/ ~bridge.uStall /\ ~bridge.uEnd /\ bridge' = [bridge EXCEPT !.uStall = TRUE]
  /\ BridgeFrame

UpstreamResumes ==
  /\ Bridging /\ bridge.uStall
  /\ bridge' = [bridge EXCEPT !.uStall = FALSE]
  /\ BridgeFrame

-----------------------------------------------------------------------------
(* The rest of the proxy and the client.                                   *)
ReloadBlocklist ==
  /\ lists < MaxLists /\ lists' = lists + 1
  /\ blocked' \in SUBSET Hosts
  /\ since' = since \cap blocked'
  /\ UNCHANGED <<target, loopVars, bridge>>

ClientLeaves ==
  /\ lpc \notin {"closed", "bridge"} /\ client.st # "closed"
  /\ client' = SeeClose(client)
  /\ UNCHANGED <<lpc, nreq, req, reqLeft, upGot, resp, sent, givenVars, bridge>>

LoopStep == \/ Connect \/ CheckBlocked \/ RoundTrip \/ DrainBody \/ WriteHead
            \/ WriteUpgradeHead \/ WriteByte \/ EndBody \/ BridgeEnd

UpStep   == UpRead \/ UpWrite
DownStep == DownRead \/ DownWrite

Next == \/ LoopStep \/ ReadRequest \/ SendRequestByte \/ UpStep \/ DownStep
        \/ BridgeDeadline \/ PeerStep \/ UpstreamResumes \/ ReloadBlocklist \/ ClientLeaves

\* The bridge's goroutines run whenever they can, and the deadline of an idle
\* bridge passes (its peers move finitely many bytes).  Nothing makes upstream take
\* what is written to it; a blocked writer is woken each time it does.  Outside the
\* bridge nothing is fair: the loop sets no deadline on the client's connection,
\* and its transport none on the head or the body of a response.
Fairness == /\ SF_vars(UpStep) /\ WF_vars(DownStep)
            /\ WF_vars(BridgeDeadline) /\ WF_vars(BridgeEnd)

Spec == Init /\ [][Next]_vars /\ Fairness

-----------------------------------------------------------------------------
(* Properties.                                                             *)

\* Every variable keeps its type; what was copied never exceeds the body.
TypeOK ==
  /\ lpc \in {"connect", "read", "check", "trip", "drain", "head", "body", "bridge", "closed"}
  /\ target \in Hosts /\ blocked \subseteq Hosts /\ since \subseteq Hosts /\ lists \in 0..MaxLists
  /\ nreq \in 0..MaxReqs /\ req \in Requests /\ resp \in Responses
  /\ reqLeft \in 0..req.len /\ upGot \in 0..req.len /\ sent \in 0..resp.len
  /\ client \in [st : {"idle", "await", "len", "chunked", "untilClose", "garbled", "closed"},
                 need : Int, got : 0..MaxLen, outcome : {"none", "complete", "cut", "garbled"}]
  /\ bridge.up \in {"read", "write", "done"} /\ bridge.down \in {"read", "write", "done"}

\* When the loop waits for the next request the client is not waiting for the
\* rest of a response, nor reading one as another: it has received exactly the
\* body upstream sent.  (For bodies that did not fail, and no answer to HEAD
\* without a length, which gets a last chunk that the client does not expect.)
InStep ==
  lpc = "read" /\ nreq > 0 /\ client.st # "closed"
    /\ resp.end = "eof" /\ ~(req.head /\ resp.cl = -1)
    => client.st = "idle" /\ client.got = resp.len

\* The loop never takes a request body for a request: whatever the transport
\* left unread is drained before the next ReadRequest.
RequestInStep == lpc = "read" => reqLeft = 0

\* A connection kept alive does not keep an old blocklist: a request whose Host was
\* blocked ever since it was read is not sent.  This is all that the check gives:
\* what it is sent to is target, which may be another host.
BlockedNotForwarded ==
  lpc \in {"trip", "drain", "head", "body", "bridge"} => req.host \notin since

\* The end of either peer, or the idle deadline, ends both directions of a bridge:
\* they do not wait for each other.  One wait has no end, against the comment of
\* loopBridge, as the deadline is on the client's connection only: a write that
\* upstream never takes keeps the bridge.
BridgeEnds ==
  lpc = "bridge" ~> lpc = "closed" \/ [](bridge.up = "write" /\ bridge.uStall)

-----------------------------------------------------------------------------
(* What the documentation says and the code does not do.                   *)

\* README: an infected download of a CLI client ends in a forced disconnection;
\* the client never takes what it received for a complete response.
InfectedIsCut ==
  resp.end = "virus" /\ lpc \in {"read", "closed"} => client.outcome # "complete"

\* tunnel.go, loopWriteHead: "emitting explicit body framing": a body that did
\* not fail is written the way the head announced it.
FramingHonoured ==
  lpc \in {"read", "closed"} /\ ~req.head /\ resp.end = "eof" => client.outcome # "garbled"

\* blocklist.go: the domains "that the proxy should refuse to connect to": no request
\* is sent to a host that was blocked ever since the request was read.
BlockedNotContacted ==
  lpc \in {"trip", "drain", "head", "body", "bridge"} => target \notin since

=============================================================================
