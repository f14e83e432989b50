--------------------------- MODULE AttemptContract ---------------------------
(***************************************************************************)
(* What an Attempt promises to the Epoch that runs it, without schedulers, *)
(* generations, Sessions or retries: one terminal report, one Kernel that  *)
(* is measured after the report and before the decision, one decision.     *)
(* Attempt implements it (Attempt!Contract).                               *)
(***************************************************************************)

VARIABLES
  report,   \* status of the terminal report
  kernel,   \* the candidate and what is known of it
  decision  \* what the Epoch sees of the Attempt

vars == <<report, kernel, decision>>

Init ==
  /\ report = "none"
  /\ kernel = "none"
  /\ decision = "open"

Attach ==
  /\ decision = "open"
  /\ report = "none"
  /\ report' \in {"candidate_ready", "pivot"}
  /\ UNCHANGED <<kernel, decision>>

Register ==
  /\ decision = "open"
  /\ kernel = "none"
  /\ kernel' = "provisional"
  /\ UNCHANGED <<report, decision>>

Measure ==
  /\ decision = "open"
  /\ report = "candidate_ready"
  /\ kernel # "none"
  /\ kernel' \in {"improved", "regressed"}
  /\ UNCHANGED <<report, decision>>

Retain ==
  /\ decision = "open"
  /\ report = "candidate_ready"
  /\ kernel = "improved"
  /\ decision' = "retained"
  /\ UNCHANGED <<report, kernel>>

Reject ==
  /\ decision = "open"
  /\ decision' = "rejected"
  /\ UNCHANGED <<report, kernel>>

Next == Attach \/ Register \/ Measure \/ Retain \/ Reject

Spec == Init /\ [][Next]_vars

=============================================================================
