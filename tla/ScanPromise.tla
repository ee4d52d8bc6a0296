---------------------------- MODULE ScanPromise ----------------------------
(***************************************************************************)
(* What scan.Manager promises about a download it takes (scan/manager.go), *)
(* without saying how: its status moves forward to one final verdict, the  *)
(* download is released only after the verdict is published and only if    *)
(* that is not "infected", it is cut short only if it is, and a scan that  *)
(* began ends.  (The bytes trickled to a CLI client while it waits are not *)
(* a release: they never complete a download.)                             *)
(***************************************************************************)
VARIABLES state,  \* Job.status, "none" before there is a job
          out     \* the download is "held", "released" or "refused"

view == <<state, out>>

Final == {"clean", "infected", "error", "toolarge"}
Releasable == Final \ {"infected"}

Init == state = "none" /\ out = "held"

\* A new job waits for its scan; one with a cached verdict is infected at once,
\* one without a temp file is passed through as an error.
Take == state = "none" /\ state' \in {"pending", "infected", "error"} /\ UNCHANGED out

Begin == state = "pending" /\ state' = "scanning" /\ UNCHANGED out

Conclude ==
  /\ \/ state = "pending" /\ state' = "error"
     \/ state = "scanning" /\ state' \in Final
  /\ UNCHANGED out

Release == out = "held" /\ state \in Releasable /\ out' = "released" /\ UNCHANGED state

Refuse == out = "held" /\ state = "infected" /\ out' = "refused" /\ UNCHANGED state

Next == Take \/ Begin \/ Conclude \/ Release \/ Refuse

Safety == Init /\ [][Next]_view

Spec == Safety /\ WF_view(Begin \/ Conclude)

=============================================================================
