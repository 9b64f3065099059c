---------------------------- MODULE NightlyIssue ----------------------------
(***************************************************************************)
(* The nightly workflow as seen from its issue: runs of nightly.yml on one  *)
(* branch (schedule, dispatch, concurrency group, plan, jobs) and the       *)
(* report of scripts/nightly_triage.py, one step per request to GitHub.     *)
(* Between two requests people may close or reopen the issue, and the       *)
(* report may die; jobs break, are repaired, and sometimes a runner fails.  *)
(* How a failing job is bisected is in NightlyBisect.                       *)
(***************************************************************************)
EXTENDS Integers, Sequences, FiniteSets, SequencesExt

CONSTANTS
  Jobs,       \* the keys of JOBS
  MaxBreaks,  \* bound: how often commits break a job
  MaxCalls,   \* bound: how often a run is dispatched
  MaxHands,   \* bound: how often a person closes or reopens an issue
  MaxFaults   \* bound: lost runners, cancelled runs, jobs failing on no commit

ASSUME JobsAssumption == Jobs # {} /\ IsFiniteSet(Jobs)
ASSUME BoundsAssumption ==
  MaxBreaks \in Nat /\ MaxCalls \in Nat /\ MaxHands \in Nat /\ MaxFaults \in Nat

VARIABLES
  broken,   \* the jobs that fail on the head of the branch
  pending,  \* the waiting run of the concurrency group, at most one: [input, head]
  input,    \* input of the run under way
  head,     \* the jobs that fail at the commit of the run, GITHUB_SHA
  phase,    \* what the run does next; "idle" when none is under way
  concl,    \* conclusions in the run's job list
  at,       \* cmd_report: place of the issue open_issue returned, or 0
  label,    \* the repository has the label
  issues,   \* issues with the branch's title, oldest first: [open, recorded]
  hands, calls, breaks, faults

vars == <<broken, pending, input, head, phase, concl, at, label, issues,
          hands, calls, breaks, faults>>

budgets == <<hands, calls, breaks, faults>>

-----------------------------------------------------------------------------
(* The functions of nightly_triage.py.                                      *)

FAILED == {"failure", "timed_out"}
Conclusions == FAILED \cup {"success", "cancelled", "skipped"}

\* the job keys of a dispatch input; {} stands for the ValueError
ParseJobs(items) ==
  LET keys == ToSet(items) \ {""}
  IN IF items = <<>> \/ items = <<"all">> THEN Jobs
     ELSE IF keys \subseteq Jobs THEN keys
     ELSE {}

\* Slip: a job that ran into its time limit has not failed
FailingJobsSlip(jobs) == {j \in Jobs : jobs[j] = "failure"}

FailingJobs(jobs) == {j \in Jobs : jobs[j] \in FAILED}

JobPassed(jobs, j) == jobs[j] = "success"

\* Slip: an issue that records other jobs is not the one to update
OpenIssueSlip ==
  LET open == {i \in DOMAIN issues :
                 issues[i].open /\ FailingJobs(concl) \subseteq issues[i].recorded}
  IN IF open = {} THEN 0 ELSE CHOOSE i \in open : \A k \in open : k <= i

\* the newest open issue, 0 when there is none
OpenIssue ==
  LET open == {i \in DOMAIN issues : issues[i].open}
  IN IF open = {} THEN 0 ELSE CHOOSE i \in open : \A k \in open : k <= i

\* Slip: one recorded job that passes is enough
ShouldCloseLoose(green, recorded) == recorded \cap green # {}

\* Slip: the run must have run the recorded jobs and no others
ShouldCloseTight(green, recorded) == recorded # {} /\ recorded = green

ShouldClose(green, recorded) == recorded # {} /\ recorded \subseteq green

Green == {j \in ParseJobs(input) : JobPassed(concl, j)}

-----------------------------------------------------------------------------
\* what people type: nothing, all, a job once or twice, a comma, an unknown job
Inputs ==
  {<<>>, <<"all">>, <<"">>} \cup {<<j>> : j \in Jobs} \cup {<<j, "", j>> : j \in Jobs}
    \cup {<<j, "unknown">> : j \in Jobs}

Unrun == [j \in Jobs |-> "skipped"]

Init ==
  /\ broken = {}
  /\ pending = {}
  /\ input = <<>>
  /\ head = {}
  /\ phase = "idle"
  /\ concl = Unrun
  /\ at = 0
  /\ label = FALSE
  /\ issues = <<>>
  /\ hands = 0 /\ calls = 0 /\ breaks = 0 /\ faults = 0

\* the run is over: its locals are gone
Over ==
  /\ phase' = "idle"
  /\ input' = <<>>
  /\ head' = {}
  /\ concl' = Unrun
  /\ at' = 0

runVars == <<pending, input, head, phase, concl, at>>

\* commits break and repair jobs
Break(j) ==
  /\ j \notin broken /\ breaks < MaxBreaks
  /\ broken' = broken \cup {j}
  /\ breaks' = breaks + 1
  /\ UNCHANGED <<runVars, label, issues, hands, calls, faults>>

Repair(j) ==
  /\ j \in broken
  /\ broken' = broken \ {j}
  /\ UNCHANGED <<runVars, label, issues, budgets>>

\* a requested run takes the head of the branch as its commit, waits for the
\* run under way and replaces the one that waited before
Enqueue(items) ==
  /\ pending' = {[input |-> items, head |-> broken]}
  /\ UNCHANGED <<broken, input, head, phase, concl, at, label, issues, hands, breaks, faults>>

Night == Enqueue(<<>>) /\ UNCHANGED calls

Dispatch(items) ==
  /\ calls < MaxCalls
  /\ calls' = calls + 1
  /\ Enqueue(items)

\* a run starts: the plan job reads the input; without a plan no report runs
Plan ==
  /\ phase = "idle"
  /\ \E r \in pending :
       IF ParseJobs(r.input) = {}
       THEN Over
       ELSE /\ phase' = "running"
            /\ input' = r.input
            /\ head' = r.head
            /\ UNCHANGED <<concl, at>>
  /\ pending' = {}
  /\ UNCHANGED <<broken, label, issues, budgets>>

\* the jobs run; only those the plan names are started
Conclude ==
  /\ phase = "running"
  /\ LET planned == ParseJobs(input)
         likely(j) == IF j \in head THEN FAILED ELSE {"success"}
     IN \E c \in [Jobs -> Conclusions] :
          /\ \A j \in Jobs \ planned : c[j] = "skipped"
          /\ \A j \in planned : c[j] \in likely(j) \cup {"cancelled", "failure"}
          /\ \/ /\ \A j \in planned : c[j] \in likely(j)
                /\ UNCHANGED faults
             \/ /\ \E j \in planned : c[j] \notin likely(j)
                /\ faults < MaxFaults
                /\ faults' = faults + 1
          /\ concl' = c
  /\ phase' = "looking"
  /\ UNCHANGED <<broken, pending, input, head, at, label, issues, hands, calls, breaks>>

\* cmd_report, first requests: the job list and the open issue
Look ==
  /\ phase = "looking"
  /\ at' = OpenIssue
  /\ phase' = IF FailingJobs(concl) # {}
              THEN IF OpenIssue = 0 THEN "labelling" ELSE "commenting"
              ELSE IF OpenIssue = 0 THEN "done" ELSE "reading"
  /\ UNCHANGED <<broken, pending, input, head, concl, label, issues, budgets>>

\* no job failed: the comments are read; is every recorded job green?
Read ==
  /\ phase = "reading"
  /\ phase' = IF ShouldClose(Green, issues[at].recorded) THEN "noting" ELSE "done"
  /\ UNCHANGED <<broken, pending, input, head, concl, at, label, issues, budgets>>

\* the note that everything passes again; it carries no marker
Note ==
  /\ phase = "noting"
  /\ phase' = "closing"
  /\ UNCHANGED <<broken, pending, input, head, concl, at, label, issues, budgets>>

Close ==
  /\ phase = "closing"
  /\ issues' = [issues EXCEPT ![at].open = FALSE]
  /\ phase' = "done"
  /\ UNCHANGED <<broken, pending, input, head, concl, at, label, budgets>>

\* some job failed: a comment on the issue found, whatever became of it
Comment ==
  /\ phase = "commenting"
  /\ issues' = [issues EXCEPT ![at].recorded = @ \cup FailingJobs(concl)]
  /\ phase' = "done"
  /\ UNCHANGED <<broken, pending, input, head, concl, at, label, budgets>>

\* ... or a new issue, for which the label may have to be created first; when
\* every older one is closed, these are history
AllClosed == \A i \in DOMAIN issues : ~issues[i].open

EnsureLabel ==
  /\ phase = "labelling"
  /\ label' = TRUE
  /\ phase' = "filing"
  /\ UNCHANGED <<broken, pending, input, head, concl, at, issues, budgets>>

File ==
  /\ phase = "filing"
  /\ issues' = Append(IF AllClosed THEN <<>> ELSE issues,
                      [open |-> TRUE, recorded |-> FailingJobs(concl)])
  /\ phase' = "done"
  /\ UNCHANGED <<broken, pending, input, head, concl, at, label, budgets>>

Finish ==
  /\ phase = "done"
  /\ Over
  /\ UNCHANGED <<broken, pending, label, issues, budgets>>

Report == Look \/ Read \/ Note \/ Close \/ Comment \/ EnsureLabel \/ File \/ Finish

\* a run is cancelled, a runner is lost, or a request is answered by an error
Die ==
  /\ phase # "idle" /\ faults < MaxFaults
  /\ faults' = faults + 1
  /\ Over
  /\ UNCHANGED <<broken, pending, label, issues, hands, calls, breaks>>

\* a person closes an issue, or reopens the last one
Turn(i) ==
  /\ hands < MaxHands
  /\ issues' = [issues EXCEPT ![i].open = ~@]
  /\ hands' = hands + 1
  /\ UNCHANGED <<broken, runVars, label, calls, breaks, faults>>

Next ==
  \/ \E j \in Jobs : Break(j) \/ Repair(j)
  \/ Night
  \/ \E items \in Inputs : Dispatch(items)
  \/ Plan
  \/ Conclude
  \/ Report
  \/ Die
  \/ \E i \in DOMAIN issues : Turn(i)

Fairness ==
  /\ WF_vars(Night)
  /\ WF_vars(Plan)
  /\ WF_vars(Conclude)
  /\ WF_vars(Report)

Spec == Init /\ [][Next]_vars /\ Fairness

-----------------------------------------------------------------------------
TypeOK ==
  /\ broken \subseteq Jobs /\ head \subseteq Jobs
  /\ pending \subseteq [input : Inputs, head : SUBSET Jobs] /\ Cardinality(pending) <= 1
  /\ input \in Inputs
  /\ phase \in {"idle", "running", "looking", "reading", "noting", "closing",
               "commenting", "labelling", "filing", "done"}
  /\ concl \in [Jobs -> Conclusions]
  /\ at \in 0..Len(issues)
  /\ label \in BOOLEAN
  /\ issues \in Seq([open : BOOLEAN, recorded : SUBSET Jobs])
  /\ hands \in 0..MaxHands /\ calls \in 0..MaxCalls
  /\ breaks \in 0..MaxBreaks /\ faults \in 0..MaxFaults

(* However runs, lost reports and people interleave, the nights alone never *)
(* leave two open issues for the branch: each further one was reopened by a *)
(* person.  Every issue records a job, so a green run can close it, and it  *)
(* is never filed without its label.                                        *)
OneIssue ==
  /\ TypeOK
  /\ Cardinality({i \in DOMAIN issues : issues[i].open}) <= 1 + hands
  /\ \A i \in DOMAIN issues : issues[i].recorded # {} /\ label

Tickets ==
  [i \in DOMAIN issues |-> [open |-> issues[i].open, owed |-> issues[i].recorded]]

Results ==
  [j \in Jobs |-> CASE concl[j] = "success" -> "passed"
                    [] concl[j] \in FAILED -> "failed"
                    [] OTHER -> "none"]

Ticket == INSTANCE FailureTicket WITH tickets <- Tickets, results <- Results

(* Step by step the report keeps the promise of the workflow's header: only *)
(* a run without a failure in which every job the issue records at that     *)
(* moment has passed closes it, whatever happened since the comments were   *)
(* read, and a failure is never taken back.                                 *)
ImplementsTicket == Ticket!Spec

(* Once every job is repaired for good, no issue stays open: the nights go  *)
(* on, and a partial, cancelled or half reported run only delays them.      *)
ClosesWhenFixed == <>[](broken = {}) => <>[](\A i \in DOMAIN issues : ~issues[i].open)

(* A job that stays broken ends up recorded in an open issue for good, even *)
(* if a person closes the issue or a report is lost on the way.             *)
FilesWhenBroken ==
  \A j \in Jobs :
    <>[](j \in broken) =>
      <>[](\E i \in DOMAIN issues : issues[i].open /\ j \in issues[i].recorded)
=============================================================================
