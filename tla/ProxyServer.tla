---------------------------- MODULE ProxyServer ----------------------------
(***************************************************************************)
(* The proxy process (cmd/proxy/main.go, internal/proxy/handler.go) with   *)
(* its access log: the requests ServeHTTP and the CONNECT tunnels serve,   *)
(* the blocklist both consult, the record each leaves in the log, and the  *)
(* shutdown, in which the handlers still running, the HTTP server's wait   *)
(* for them and the sender's flush run against each other.                 *)
(*                                                                         *)
(* What happens to the bytes of a response is the business of ConnLoop and *)
(* ScanJob: here a request is proxied for some time, and ends.             *)
(***************************************************************************)
EXTENDS Blocklist, Sender

CONSTANTS MaxReqs,  \* bound: requests of the run; record r is request r's
          Hosts,    \* the hosts asked for
          Lists     \* the domain lists the blocklist is built from over time

ASSUME ProxyServerAssumption ==
  /\ MaxReqs \in Nat /\ Records = 1..MaxReqs
  /\ Hosts \subseteq Domains
  /\ \A l \in Lists : l \subseteq Domains

VARIABLES
  domains,  \* what Server.blocklist was built from; nil blocks as much as {}
  via,      \* how request r reached the proxy
  at,       \* where its handler is
  host,     \* req.Host, until the blocklist was consulted
  mainAt,   \* where main is
  late      \* history: requests Shutdown gave up waiting for

serverVars == <<domains, via, at, host, mainAt, late>>
vars == <<serverVars, senderVars>>

NoHost == <<>>

Reqs == 1..MaxReqs

\* The handler of r has nothing left to do.
Ended == {"done", "local", "aborted", "opaque"}

\* What Shutdown waits for: requests whose connection the server still owns.
Waited(r) == via[r] = "plain" /\ at[r] \notin Ended

Running == mainAt # "exit"

Init ==
  /\ domains = {}
  /\ via = [r \in Reqs |-> "none"] /\ at = [r \in Reqs |-> "new"]
  /\ host = [r \in Reqs |-> NoHost]
  /\ mainAt = "serve" /\ late = {}
  /\ SenderInit

-----------------------------------------------------------------------------
(* Requests.  Step moves the handler of request r.                         *)
Step(r, here, there) == at[r] = here /\ at' = [at EXCEPT ![r] = there]

RequestFrame == UNCHANGED <<domains, mainAt, late>>

IsNext(r) == at[r] = "new" /\ \A q \in 1..(r - 1) : at[q] # "new"

\* A request arrives: at the server, also while Shutdown waits (a connection
\* that was accepted before), or on a CONNECT tunnel opened earlier, whose
\* hijacked connection Shutdown knows nothing of.
Arrive(r, v, h) ==
  /\ IsNext(r) /\ Step(r, "new", "route")
  /\ \/ v = "plain" /\ mainAt \in {"serve", "shutdown"}
     \/ v = "tunnel" /\ Running
  /\ via' = [via EXCEPT ![r] = v]
  /\ host' = [host EXCEPT ![r] = h]
  /\ RequestFrame /\ UNCHANGED senderVars

\* The magic host, and the paths the proxy answers itself: scan pages, PAC
\* file, CA certificate, 404.  They are not looked up and leave no record.
ServeLocal(r) ==
  /\ Running /\ via[r] = "plain" /\ Step(r, "route", "local")
  /\ host' = [host EXCEPT ![r] = NoHost]
  /\ RequestFrame /\ UNCHANGED <<via, senderVars>>

Refused(r) == IsBlocked(NewBlocklist(domains), host[r])

\* The check of ServeHTTP and of serveConnLoop; a refused request gets the
\* blocked page here and its record in EmitLog.
CheckBlocklist(r) ==
  /\ Running
  /\ Step(r, "route", IF Refused(r) THEN "emit" ELSE "proxy")
  /\ host' = [host EXCEPT ![r] = NoHost]
  /\ RequestFrame /\ UNCHANGED <<via, senderVars>>

\* ReverseProxy.ServeHTTP or the exchange of serveConnLoop is over, with an
\* answer or with a 502.
ProxyEnds(r) ==
  /\ Running /\ \/ Step(r, "proxy", "emit") \/ Step(r, "bridge", "emit")
  /\ RequestFrame /\ UNCHANGED <<via, host, senderVars>>

\* A protocol upgrade.  ReverseProxy hijacks the connection and copies; the
\* loop of a tunnel gives up without a record on a body it cannot write to
\* (when it can, the bridge is one more way to be at "proxy").
Upgrade(r) ==
  /\ Running
  /\ \/ /\ via[r] = "plain" /\ Step(r, "proxy", "bridge")
        /\ via' = [via EXCEPT ![r] = "hijacked"]
     \/ /\ via[r] = "tunnel" /\ Step(r, "proxy", "opaque")
        /\ UNCHANGED via
  /\ RequestFrame /\ UNCHANGED <<host, senderVars>>

\* Copying the body fails (upstream, the client, or a threat found in it):
\* ReverseProxy panics with http.ErrAbortHandler through handlePlain, which
\* has no deferred call; the server recovers.
AbortHandler(r) ==
  /\ Running /\ via[r] = "plain" /\ Step(r, "proxy", "aborted")
  /\ RequestFrame /\ UNCHANGED <<via, host, senderVars>>

\* Variant: the blocked request falls through to the proxied one.
EmitLogTwice(r) ==
  /\ Running /\ \/ Step(r, "emit", "done") \/ Step(r, "emit", "proxy")
  /\ IF HasSender THEN Send(r) ELSE UNCHANGED senderVars
  /\ RequestFrame /\ UNCHANGED <<via, host>>

\* if s.sender == nil { return }, else sender.Send.
EmitLog(r) ==
  /\ Running /\ Step(r, "emit", "done")
  /\ IF HasSender THEN Send(r) ELSE UNCHANGED senderVars
  /\ RequestFrame /\ UNCHANGED <<via, host>>

Request(r) ==
  \/ \E h \in Hosts : Arrive(r, "plain", h) \/ Arrive(r, "tunnel", h)
  \/ ServeLocal(r) \/ CheckBlocklist(r) \/ ProxyEnds(r) \/ Upgrade(r)
  \/ AbortHandler(r) \/ EmitLog(r)

\* The blocklist sync stores a list (BlocklistSync says which and when).
LoadBlocklist ==
  /\ Running
  /\ domains' \in Lists
  /\ UNCHANGED <<via, at, host, mainAt, late, senderVars>>

-----------------------------------------------------------------------------
(* main.                                                                   *)
MainFrame == UNCHANGED <<domains, via, at, host>>

Signal ==
  /\ mainAt = "serve" /\ mainAt' = "shutdown"
  /\ MainFrame /\ UNCHANGED <<late, senderVars>>

\* Variant: Shutdown is given a context without a timeout.
ShutdownNoTimeout ==
  /\ mainAt = "shutdown" /\ \A r \in Reqs : ~Waited(r)
  /\ mainAt' = "close"
  /\ late' = {r \in Reqs : Waited(r)}
  /\ MainFrame /\ UNCHANGED senderVars

\* srv.Shutdown returns: all requests it waits for ended, or 10 s are over.
Shutdown ==
  /\ mainAt = "shutdown"
  /\ mainAt' = "close"
  /\ late' = {r \in Reqs : Waited(r)}
  /\ MainFrame /\ UNCHANGED senderVars

\* Variant: the sender is closed before the server is shut down.
ClosesFirst ==
  /\ mainAt \in {"shutdown", "close"} /\ HasSender /\ ~stop
  /\ CloseStop /\ UNCHANGED mainAt
  /\ MainFrame /\ UNCHANGED late

\* The deferred sender.Close(), if there is a sender.
CloseSender ==
  /\ mainAt = "close" /\ HasSender /\ ~stop
  /\ CloseStop /\ UNCHANGED mainAt
  /\ MainFrame /\ UNCHANGED late

Exit ==
  /\ mainAt = "close"
  /\ \/ HasSender /\ stop /\ CloseReturns
     \/ ~HasSender /\ UNCHANGED senderVars
  /\ mainAt' = "exit"
  /\ MainFrame /\ UNCHANGED late

Main == Signal \/ Shutdown \/ CloseSender \/ Exit

DrainStep == Running /\ Drain /\ UNCHANGED serverVars

-----------------------------------------------------------------------------
Next == (\E r \in Reqs : Request(r)) \/ LoadBlocklist \/ Main \/ DrainStep

\* drain's dials and writes have deadlines (5 s, 3 s), Shutdown's wait has one
\* (10 s).  Nothing is assumed of a request: an upstream may answer never.
Fairness == WF_vars(DrainStep) /\ WF_vars(Shutdown \/ CloseSender \/ Exit)

Spec == Init /\ [][Next]_vars /\ Fairness

-----------------------------------------------------------------------------
(* Properties.                                                             *)

\* The fields of Server, the handlers' and main's positions and the sender's.
TypeOK ==
  /\ domains \in Lists \cup {{}}
  /\ via \in [Reqs -> {"none", "plain", "tunnel", "hijacked"}]
  /\ at \in [Reqs -> {"new", "route", "proxy", "bridge", "emit"} \cup Ended]
  /\ host \in [Reqs -> Hosts \cup {NoHost}]
  /\ mainAt \in {"serve", "shutdown", "close", "exit"}
  /\ late \in SUBSET Reqs
  /\ SenderTypeOK

\* The walk of the trie refuses exactly the requests whose host is on the list
\* in force at the check: an exact entry, or a "*." entry whose base the host
\* is a proper subdomain of, at any depth and whatever the case.  The base itself is
\* not matched, as wildcardBlocked's comment has it; the README's "*.example.com"
\* is said to block everything.
RefusedIffListed ==
  [][\A r \in Reqs :
       at[r] = "route" /\ at'[r] \in {"emit", "proxy"}
         => (at'[r] = "emit" <=> Listed(domains, host[r]))]_vars

\* With a sender, a request whose handler came to its end has exactly one record:
\* queued, being written, written, or lost or dropped with a warning.  No request has
\* two, and none has one before its handler is through, or if the proxy answered it.
\* Nothing is said of an aborted plain request: it should have one, and has none.
OneRecord ==
  \A r \in Reqs :
    /\ Copies(r) <= 1
    /\ at[r] = "done" /\ HasSender => Copies(r) = 1
    /\ at[r] \notin Ended \/ at[r] = "local" => Copies(r) = 0

\* When the process exits, no record of a request that Shutdown waited for to
\* the end is still in the queue: it reached the flush before the flush ended.
\* (Records of tunnels and upgraded connections may be left behind.)
ServedAreFlushed ==
  mainAt = "exit" /\ HasSender =>
    \A r \in Reqs : at[r] = "done" /\ via[r] = "plain" /\ r \notin late
                    => r \in written \cup lost \cup dropped

\* After the signal the process exits, also while requests hang for ever.
ShutdownEnds == mainAt = "shutdown" ~> mainAt = "exit"

=============================================================================
