------------------------------- MODULE Sender -------------------------------
(***************************************************************************)
(* The access log sender (internal/logger/sender.go): a bounded channel    *)
(* between the request handlers, which never wait, and one goroutine that  *)
(* writes the records to the syslog server.  A record is identified by the *)
(* request it is about.                                                    *)
(***************************************************************************)
EXTENDS Integers, Sequences

CONSTANTS Records,  \* the records that can be sent
          BufSize   \* capacity of Sender.ch

ASSUME SenderAssumption == BufSize \in Nat \ {0}

VARIABLES
  ch,       \* Sender.ch
  stop,     \* Sender.stop is closed
  drainAt,  \* where drain is; "nil" if the proxy has no sender (no SYSLOG_ADDR)
  held,     \* the record drain took from ch and writes, if drainAt says so
  written,  \* records written to the syslog server
  lost,     \* records drain took and could not write
  dropped   \* records Send dropped

senderVars == <<ch, stop, drainAt, held, written, lost, dropped>>

HasSender == drainAt # "nil"

SenderInit ==
  /\ ch = <<>> /\ stop = FALSE /\ drainAt \in {"connect", "nil"} /\ held = {}
  /\ written = {} /\ lost = {} /\ dropped = {}

\* The first connect() of drain: up to 5 s in which it takes no record.
FirstConnect ==
  /\ drainAt = "connect"
  /\ drainAt' = "select"
  /\ UNCHANGED <<ch, stop, held, written, lost, dropped>>

\* A non-blocking send: into the buffer, or dropped.
Send(r) ==
  /\ \/ Len(ch) < BufSize /\ ch' = Append(ch, r) /\ UNCHANGED dropped
     \/ Len(ch) >= BufSize /\ dropped' = dropped \cup {r} /\ UNCHANGED ch
  /\ UNCHANGED <<stop, drainAt, held, written, lost>>

\* case r := <-s.ch, of the outer select or of the flush after stop.  With both
\* cases of the outer select ready Go picks either.
TakeRecord ==
  /\ drainAt \in {"select", "flush"} /\ ch # <<>>
  /\ held' = {Head(ch)} /\ ch' = Tail(ch)
  /\ drainAt' = IF drainAt = "select" THEN "write" ELSE "flushWrite"
  /\ UNCHANGED <<stop, written, lost, dropped>>

\* write, with a connect() first if there is no connection: a failed dial or a
\* failed write loses the record.
WriteRecord ==
  /\ drainAt \in {"write", "flushWrite"}
  /\ \/ written' = written \cup held /\ UNCHANGED lost
     \/ lost' = lost \cup held /\ UNCHANGED written
  /\ held' = {}
  /\ drainAt' = IF drainAt = "write" THEN "select" ELSE "flush"
  /\ UNCHANGED <<ch, stop, dropped>>

SeeStop ==
  /\ drainAt = "select" /\ stop
  /\ drainAt' = "flush"
  /\ UNCHANGED <<ch, stop, held, written, lost, dropped>>

\* default of the flush: nothing is queued, drain returns.
EndFlush ==
  /\ drainAt = "flush" /\ ch = <<>>
  /\ drainAt' = "done"
  /\ UNCHANGED <<ch, stop, held, written, lost, dropped>>

Drain == FirstConnect \/ TakeRecord \/ WriteRecord \/ SeeStop \/ EndFlush

\* Close: closing stop, then waiting for drain (wg.Wait) in CloseReturns.
CloseStop ==
  /\ stop' = TRUE
  /\ UNCHANGED <<ch, drainAt, held, written, lost, dropped>>

CloseReturns == drainAt = "done" /\ UNCHANGED senderVars

\* How often record r is anywhere between Send and its end.
Copies(r) ==
  LET in(S) == IF r \in S THEN 1 ELSE 0
      queued == {i \in 1..Len(ch) : ch[i] = r}
  IN  (IF queued = {} THEN 0 ELSE IF \E i, j \in queued : i # j THEN 2 ELSE 1)
        + in(held) + in(written) + in(lost) + in(dropped)

SenderTypeOK ==
  /\ ch \in Seq(Records) /\ Len(ch) <= BufSize
  /\ stop \in BOOLEAN
  /\ drainAt \in {"nil", "connect", "select", "write", "flush", "flushWrite", "done"}
  /\ held \in SUBSET Records
  /\ written \in SUBSET Records /\ lost \in SUBSET Records /\ dropped \in SUBSET Records

=============================================================================
