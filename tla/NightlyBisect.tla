--------------------------- MODULE NightlyBisect ---------------------------
(***************************************************************************)
(* What scripts/nightly_triage.py says about one failing nightly job: the   *)
(* last commit where it passed, looked up in the lists of earlier runs, the *)
(* bisection of its command between that commit and the failing one, and    *)
(* the claims of the report.  Histories have merges; a broken commit may    *)
(* have working descendants; the runner's toolchain may stop working, a     *)
(* test may fail for no reason, and the job may be ended at any point.      *)
(* git itself is external: bisect run may test any commit it has left.      *)
(***************************************************************************)
EXTENDS Integers, Sequences, SequencesExt

CONSTANTS
  N,         \* bound: commits 1..N of the repository, parents before children
  Listed,    \* runs in one answer of the API, per_page
  QueueRuns, \* runs of the merge-queue workflow that may be listed: [head, event, passed]
  MaxAccidents  \* bound: accidents that are not in any commit

ASSUME BisectAssumption ==
  /\ N \in Nat \ {0} /\ Listed \in Nat /\ MaxAccidents \in Nat
  /\ QueueRuns \subseteq [head : 1..N, event : STRING, passed : BOOLEAN]

VARIABLES
  parents,  \* the history
  fails,    \* the commits at which the command fails
  legacy,   \* runs of the merge-queue workflow, newest first: [head, event, passed]
  nightly,  \* completed nightly runs of the branch, newest first: [head, passed]
  tip,      \* head of the branch
  drift,    \* the toolchain of the runner no longer builds any commit
  stage,    \* what the triage does next; "idle" between runs
  bad,      \* GITHUB_SHA of the run under triage
  good,     \* commit last_green returned, 0 for None
  tested,   \* verdicts of this bisection: commits marked good and bad
  result,   \* the results file: {} if missing, else one [good, culprit, note]
  said,     \* claims of the report
  accidents,   \* accidents so far
  clean     \* no accident since the run began

history == <<parents, fails, legacy>>
bisectVars == <<parents, fails, legacy, nightly, tip, drift, stage, bad, good, tested,
          result, said, accidents, clean>>

Commits == 1..N

Statuses == {0, 1, 125, 128}  \* exit statuses bash may return, by what git makes of them

-----------------------------------------------------------------------------
(* git: ancestors, bisection candidates.                                    *)

\* a commit and whatever must come with it: the least set that has all its parents
Ancestors(c) ==
  LET lines == {S \in SUBSET (1..c) : c \in S /\ \A d \in S : parents[d] \subseteq S}
  IN {a \in 1..c : \A S \in lines : a \in S}

IsAncestor(old, new) == old \in Ancestors(new)

\* commits that may be the first bad one, given the marks made so far
Suspects ==
  Ancestors(tested.bad) \ UNION {Ancestors(c) : c \in tested.good}

-----------------------------------------------------------------------------
(* The functions of nightly_triage.py.                                      *)

\* one answer of the API: the newest runs of a list
Page(runs) == SubSeq(runs, 1, IF Len(runs) < Listed THEN Len(runs) ELSE Listed)

\* the head of the first run of a list, newest first, that is accepted; 0 for none
FirstHead(runs, accepted) ==
  LET found == {i \in DOMAIN runs : runs[i] \in accepted}
  IN IF found = {} THEN 0 ELSE runs[CHOOSE i \in found : \A k \in found : i <= k].head

\* the runs of a list that passed at an ancestor of the failing commit
Passing(runs) == {r \in ToSet(runs) : r.passed /\ IsAncestor(r.head, bad)}

Events == {"merge_group", "push", "workflow_dispatch"}

\* Slip: the two lists are read as one, by whoever ran last
LastGreenSlip ==
  LET runs == Page(legacy) \o Page(nightly) IN FirstHead(runs, Passing(runs))

LastGreen ==
  LET recent == FirstHead(Page(nightly), Passing(nightly))
      earlier == FirstHead(Page(legacy), {r \in Passing(legacy) : r.event \in Events})
  IN IF recent # 0 THEN recent ELSE earlier

\* Slip: what bisect calls untestable does not count against the commit
RunCommandSlip(status) == IF status \in {0, 125} THEN 0 ELSE 1

\* every nonzero status of the command counts as bad
RunCommand(status) == IF status = 0 THEN 0 ELSE 1

\* what git bisect run makes of the status of a step
Marked(status) ==
  CASE status = 0 -> "good"
    [] status = 125 -> "skip"
    [] status \in 1..127 \ {125} -> "bad"
    [] OTHER -> "abort"

\* the claims the report makes from a results file
FailureReport ==
  IF result = {} THEN {"not bisected"}
  ELSE UNION {IF r.good = 0 THEN {"range unknown"}
              ELSE {"range"} \cup (IF r.culprit = 0 THEN {} ELSE {"first bad commit"})
                             \cup (IF r.note THEN {"not from a commit"} ELSE {}) : r \in result}

-----------------------------------------------------------------------------
Histories == {p \in [Commits -> SUBSET Commits] :
                \A c \in Commits : /\ \A q \in p[c] : q < c
                                   /\ p[c] = {} <=> c = 1}

InitBisect ==
  /\ parents \in Histories
  /\ fails \in SUBSET Commits
  /\ legacy \in {<<>>} \cup {<<r>> : r \in QueueRuns}
  /\ \A i \in DOMAIN legacy : legacy[i].passed => legacy[i].head \notin fails
  /\ nightly = <<>>
  /\ tip = 1
  /\ drift = FALSE
  /\ stage = "idle"
  /\ bad = 1 /\ good = 0
  /\ tested = [good |-> {}, bad |-> 1]
  /\ result = {}
  /\ said = {}
  /\ accidents = 0
  /\ clean = TRUE

\* the branch is protected: it only moves forward
Push(c) ==
  /\ stage = "idle" /\ c # tip /\ IsAncestor(tip, c)
  /\ tip' = c
  /\ UNCHANGED <<history, nightly, drift, stage, bad, good, tested, result, said, accidents, clean>>

\* one run of the command at c ends with a status; an accident turns the verdict
Works(c) == ~drift /\ c \notin fails

Runs(c, status) ==
  \/ /\ Works(c) <=> status = 0
     /\ UNCHANGED <<accidents, clean>>
  \/ /\ Works(c) <=> status # 0
     /\ accidents < MaxAccidents
     /\ accidents' = accidents + 1
     /\ clean' = FALSE

Drift ==
  /\ ~drift /\ accidents < MaxAccidents
  /\ drift' = TRUE
  /\ accidents' = accidents + 1
  /\ clean' = (stage = "idle")
  /\ UNCHANGED <<history, nightly, tip, stage, bad, good, tested, result, said>>

\* a nightly run in which the job passes, or does not run
Listing(r) == Page(<<r>> \o nightly)

Pass(passed) ==
  /\ stage = "idle"
  /\ passed => Works(tip)
  /\ nightly' = Listing([head |-> tip, passed |-> passed])
  /\ UNCHANGED <<history, tip, drift, stage, bad, good, tested, result, said, accidents, clean>>

\* ... or fails: the run is listed, but not completed, while it is triaged
Fail ==
  /\ stage = "idle"
  /\ \/ /\ ~Works(tip)
        /\ clean' = TRUE
        /\ UNCHANGED accidents
     \/ /\ Works(tip) /\ accidents < MaxAccidents
        /\ accidents' = accidents + 1
        /\ clean' = FALSE
  /\ nightly' = Listing([head |-> tip, passed |-> FALSE])
  /\ bad' = tip
  /\ stage' = "searching"
  /\ said' = {}
  /\ UNCHANGED <<history, tip, drift, good, tested, result>>

\* cmd_bisect: is there a passing commit, and is it another one?
Search ==
  /\ stage = "searching"
  /\ good' = LastGreen
  /\ IF LastGreen \in {0, bad}
     THEN /\ result' = {[good |-> LastGreen, culprit |-> 0, note |-> LastGreen = bad]}
          /\ stage' = "reporting"
     ELSE /\ stage' = "rerunning"
          /\ UNCHANGED result
  /\ UNCHANGED <<history, nightly, tip, drift, bad, tested, said, accidents, clean>>

\* Slip: the good commit is taken at its word
RerunSlip ==
  /\ stage = "rerunning"
  /\ tested' = [good |-> {good}, bad |-> bad]
  /\ stage' = "bisecting"
  /\ UNCHANGED <<history, nightly, tip, drift, bad, good, result, said, accidents, clean>>

\* bisect: the command is rerun at the good commit before any other is blamed
Rerun ==
  /\ stage = "rerunning"
  /\ \E status \in Statuses :
       /\ Runs(good, status)
       /\ IF RunCommand(status) = 0
          THEN /\ tested' = [good |-> {good}, bad |-> bad]
               /\ stage' = "bisecting"
               /\ UNCHANGED result
          ELSE /\ result' = {[good |-> good, culprit |-> 0, note |-> TRUE]}
               /\ stage' = "reporting"
               /\ UNCHANGED tested
  /\ UNCHANGED <<history, nightly, tip, drift, bad, good, said>>

\* git bisect run: one more commit is tested ...
Step ==
  /\ stage = "bisecting"
  /\ \E c \in Suspects \ {tested.bad}, status \in Statuses :
       /\ Runs(c, status)
       /\ LET mark == Marked(RunCommand(status))
          IN CASE mark = "good" ->
                    tested' = [tested EXCEPT !.good = @ \cup {c}] /\ UNCHANGED stage
               [] mark = "bad" -> tested' = [tested EXCEPT !.bad = c] /\ UNCHANGED stage
               [] OTHER -> stage' = "reporting" /\ UNCHANGED tested
  /\ UNCHANGED <<history, nightly, tip, drift, bad, good, result, said>>

\* ... until one suspect is left
Blame ==
  /\ stage = "bisecting"
  /\ Suspects = {tested.bad}
  /\ result' = {[good |-> good, culprit |-> tested.bad, note |-> FALSE]}
  /\ stage' = "reporting"
  /\ UNCHANGED <<history, nightly, tip, drift, bad, good, tested, said, accidents, clean>>

\* the job reaches its time limit: no results file
Expire ==
  /\ stage \in {"searching", "rerunning", "bisecting"} /\ accidents < MaxAccidents
  /\ accidents' = accidents + 1
  /\ clean' = FALSE
  /\ stage' = "reporting"
  /\ UNCHANGED <<history, nightly, tip, drift, bad, good, tested, result, said>>

Tell ==
  /\ stage = "reporting"
  /\ said' = FailureReport
  /\ stage' = "said"
  /\ UNCHANGED <<history, nightly, tip, drift, bad, good, tested, result, accidents, clean>>

Done ==
  /\ stage = "said"
  /\ stage' = "idle"
  /\ bad' = 1 /\ good' = 0
  /\ tested' = [good |-> {}, bad |-> 1]
  /\ result' = {}
  /\ said' = {}
  /\ clean' = TRUE
  /\ UNCHANGED <<history, nightly, tip, drift, accidents>>

NextBisect ==
  \/ \E c \in Commits : Push(c)
  \/ Drift
  \/ \E passed \in BOOLEAN : Pass(passed)
  \/ Fail
  \/ Search
  \/ Rerun
  \/ Step
  \/ Blame
  \/ Expire
  \/ Tell
  \/ Done

BisectSpec == InitBisect /\ [][NextBisect]_bisectVars

-----------------------------------------------------------------------------
BisectTypeOK ==
  /\ parents \in Histories /\ fails \subseteq Commits
  /\ nightly \in Seq([head : Commits, passed : BOOLEAN])
  /\ Len(nightly) <= Listed
  /\ tip \in Commits /\ bad \in Commits /\ good \in {0} \cup Commits
  /\ drift \in BOOLEAN /\ clean \in BOOLEAN
  /\ stage \in {"idle", "searching", "rerunning", "bisecting", "reporting", "said"}
  /\ tested \in [good : SUBSET Commits, bad : Commits]
  /\ \A r \in result : r \in [good : {0} \cup Commits, culprit : {0} \cup Commits, note : BOOLEAN]
  /\ accidents \in 0..MaxAccidents

Heads(runs) == {r.head : r \in runs}

(* The range of a report starts at a commit where the job has passed: the   *)
(* newest one of the listed nightlies, though the lists are in the order of *)
(* runs and the history has merges, and one of the merge queue only when no *)
(* listed nightly passed.                                                   *)
NewestGreen ==
  /\ BisectTypeOK
  /\ stage \in {"rerunning", "bisecting"} =>
       /\ good # bad /\ IsAncestor(good, bad)
       /\ IF Passing(nightly) = {} THEN good \in Heads({r \in Passing(legacy) : r.event \in Events})
          ELSE /\ good \in Heads(Passing(nightly))
               /\ \A c \in Heads(Passing(nightly)) : IsAncestor(c, good)

(* Without an accident since the job failed, a triage that has a good commit *)
(* to start from names a culprit, and the command fails there while every    *)
(* parent of it is an ancestor of a commit where the command works: with     *)
(* breakage that lasts, the culprit is the first bad commit.                 *)
CulpritBroke ==
  \A r \in result :
    (clean /\ ~drift /\ r.good \notin {0, bad}) =>
      /\ r.culprit \in fails \cap Ancestors(bad)
      /\ ~IsAncestor(r.culprit, r.good)
      /\ \A p \in parents[r.culprit] : \E c \in Commits \ fails : IsAncestor(p, c)

(* A job that fails because its runner does is not blamed on a commit: if the *)
(* toolchain was broken before the run, the report names no first bad commit. *)
BlamesCode ==
  (stage = "said" /\ drift /\ clean) => "first bad commit" \notin said
=============================================================================
