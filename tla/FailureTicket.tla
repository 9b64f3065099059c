--------------------------- MODULE FailureTicket ---------------------------
(***************************************************************************)
(* What the nightly-failure issue promises, without runs, queries or       *)
(* crashes: nightly.yml says that the report "files or updates one issue"  *)
(* and that "the next run in which every recorded job passes closes it".   *)
(* A ticket owes the jobs recorded in it; only a run without a failure in  *)
(* which all of them pass settles it.                                      *)
(***************************************************************************)
EXTENDS Naturals, Sequences

CONSTANTS Jobs

VARIABLES
  tickets,  \* the issues in the order they were filed: [open, owed]
  results,  \* what the latest run says of each job
  hands     \* how often a person closed or reopened a ticket

vars == <<tickets, results, hands>>

Verdicts == {"passed", "failed", "none"}

\* the jobs with one verdict in the latest run
With(verdict) == {j \in Jobs : results[j] = verdict}

\* the tickets that still matter: when all are closed they are history
Current == IF \E i \in DOMAIN tickets : tickets[i].open THEN tickets ELSE <<>>

Init ==
  /\ tickets = <<>>
  /\ results = [j \in Jobs |-> "none"]
  /\ hands = 0

\* a run concludes, or the next one begins
Results ==
  /\ results' \in [Jobs -> Verdicts]
  /\ UNCHANGED <<tickets, hands>>

\* the failures of the latest run are added to a ticket ...
Extend(i) ==
  /\ With("failed") # {}
  /\ tickets' = [tickets EXCEPT ![i].owed = @ \cup With("failed")]

\* ... or a new one is filed
File ==
  /\ With("failed") # {}
  /\ tickets' = Append(Current, [open |-> TRUE, owed |-> With("failed")])

\* every job the ticket owes has passed in one run, which saw no failure
Settle(i) ==
  /\ With("failed") = {}
  /\ tickets[i].owed # {}
  /\ tickets[i].owed \subseteq With("passed")
  /\ tickets' = [tickets EXCEPT ![i].open = FALSE]

\* a person closes a ticket or opens a closed one; the records stay
Hand(i) ==
  /\ tickets' = [tickets EXCEPT ![i].open = ~@]
  /\ hands' = hands + 1
  /\ UNCHANGED results

Next ==
  \/ Results
  \/ /\ File \/ \E i \in DOMAIN tickets : Extend(i) \/ Settle(i)
     /\ UNCHANGED <<results, hands>>
  \/ \E i \in DOMAIN tickets : Hand(i)

Spec == Init /\ [][Next]_vars
=============================================================================
