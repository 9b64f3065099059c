------------------------------- MODULE Scripts -------------------------------
(***************************************************************************)
(* The Python scripts of the repository that judge it: the scanners of     *)
(* Fortran sources, the checks of documents and generated kernels, and the *)
(* bisection of a failing nightly job.  A behaviour is one of them at work *)
(* on whatever it may be shown; the others have not begun.                 *)
(***************************************************************************)
EXTENDS Documentation, SourceScan, NightlyBisect

\* A passing run at an older commit or at one that a merge has left aside, a
\* failing one, and one of a pull request, which does not count.
SomeRuns ==
  [head : {1, 2}, event : {"push"}, passed : {TRUE}]
    \cup {[head |-> 2, event |-> "push", passed |-> FALSE],
          [head |-> 2, event |-> "pull_request", passed |-> TRUE]}

VARIABLE part   \* who is at work: "scan", "check" or "bisect"

scriptsVars == <<part, vars, documentationVars, bisectVars>>

\* Nothing is written, and api.md is empty.
NoScan == Init /\ documented = {} /\ told = {}

\* No check has begun, and no document is missing.
NoCheck == InitDocuments /\ pc = "maintain" /\ missing = {}

\* A history in one line, in which every commit works.
NoBisect ==
  /\ InitBisect /\ fails = {} /\ legacy = <<>>
  /\ \A c \in Commits : parents[c] = (1..N) \cap {c - 1}

ScriptsInit ==
  \/ part = "scan" /\ Init /\ NoCheck /\ NoBisect
  \/ part = "check" /\ InitDocuments /\ NoScan /\ NoBisect
  \/ part = "bisect" /\ InitBisect /\ NoScan /\ NoCheck

ScriptsNext ==
  /\ UNCHANGED part
  /\ \/ part = "scan" /\ Next /\ UNCHANGED <<documentationVars, bisectVars>>
     \/ part = "check" /\ NextDocuments /\ UNCHANGED <<vars, bisectVars>>
     \/ part = "bisect" /\ NextBisect /\ UNCHANGED <<vars, documentationVars>>

ScriptsSpec == ScriptsInit /\ [][ScriptsNext]_scriptsVars
=============================================================================
