---------------------------- MODULE NightlyProofs ----------------------------
(***************************************************************************)
(* The two halves of the nightly workflow.                                 *)
(*                                                                         *)
(* The issue of nightly.yml, for any set of jobs and any number of breaks, *)
(* dispatches, faults and hands on the issue: the nights alone never leave *)
(* two open issues, and the report, one request after another, keeps the   *)
(* promise of FailureTicket.  Between two requests anything may happen to  *)
(* the issue except that its records change; what the report decided at    *)
(* an earlier request is still true when it acts on it.                    *)
(*                                                                         *)
(* The triage of a failing nightly job, for every history, every set of    *)
(* failing commits and any number of accidents: where the range of the     *)
(* report starts, which commit it names, and when it names none.           *)
(***************************************************************************)
EXTENDS NightlyIssue, NightlyBisect, LeastNumber, SequenceTheorems

IssueRecord == [open : BOOLEAN, recorded : SUBSET Jobs]

Open(s) == {i \in DOMAIN s : s[i].open}

\* the report is on its way to file an issue: each one that is open now was
\* reopened by a person since the report looked
Filing ==
  /\ phase \in {"labelling", "filing"} => Cardinality(Open(issues)) <= hands
  /\ phase = "filing" => label

\* what the report looks back on
Decided ==
  /\ phase \in {"labelling", "filing", "commenting"} => FailingJobs(concl) # {}
  /\ phase \in {"reading", "noting", "closing"} => FailingJobs(concl) = {}
  /\ phase \in {"commenting", "reading", "noting", "closing"} => at # 0
  /\ phase \in {"noting", "closing"} => ShouldClose(Green, issues[at].recorded)
  /\ phase \in {"labelling", "filing"} => at = 0

IInv == OneIssue /\ Filing /\ Decided

-----------------------------------------------------------------------------
(* The open issues are finitely many.                                       *)
LEMMA OpenFinite ==
  ASSUME NEW s \in Seq(IssueRecord)
  PROVE  /\ IsFiniteSet(Open(s)) /\ Cardinality(Open(s)) \in Nat
         /\ Open(s) \subseteq 1..Len(s) /\ DOMAIN s = 1..Len(s) /\ Len(s) \in Nat
         /\ \A i \in 1..Len(s) : s[i] \in IssueRecord
<1>1. /\ Open(s) \subseteq 1..Len(s) /\ DOMAIN s = 1..Len(s) /\ Len(s) \in Nat
      /\ \A i \in 1..Len(s) : s[i] \in IssueRecord
  BY DEF Open
<1>2. IsFiniteSet(1..Len(s))
  <2>1. 1 \in Int /\ Len(s) \in Int
    BY <1>1
  <2> QED BY <2>1, FS_Interval, Zenon
<1>3. IsFiniteSet(Open(s))
  BY <1>1, <1>2, FS_Subset
<1> QED BY <1>1, <1>3, FS_CardinalityType

(* open_issue returns the newest open issue, or none if none is open.       *)
LEMMA OpenIssueFound ==
  ASSUME issues \in Seq(IssueRecord)
  PROVE  /\ OpenIssue \in 0..Len(issues)
         /\ OpenIssue = 0 <=> Open(issues) = {}
<1>1. Open(issues) \subseteq 1..Len(issues) /\ Len(issues) \in Nat
  BY OpenFinite
<1>2. CASE Open(issues) = {}
  BY <1>1, <1>2 DEF OpenIssue, Open
<1>3. CASE Open(issues) # {}
  <2>1. Open(issues) \subseteq 0..Len(issues)
    BY <1>1
  <2>2. \E m \in Open(issues) : \A k \in Open(issues) : k <= m
    BY <1>1, <1>3, <2>1, GreatestNatural
  <2>3. OpenIssue = CHOOSE i \in Open(issues) : \A k \in Open(issues) : k <= i
    BY <1>3 DEF OpenIssue, Open
  <2>4. OpenIssue \in Open(issues)
    BY <2>2, <2>3
  <2> QED BY <1>1, <1>3, <2>4
<1> QED BY <1>2, <1>3

(* One issue turns: one more is open at most.                               *)
LEMMA OneTurned ==
  ASSUME NEW s \in Seq(IssueRecord), NEW i \in DOMAIN s, NEW v \in BOOLEAN
  PROVE  LET t == [s EXCEPT ![i].open = v]
         IN  /\ t \in Seq(IssueRecord) /\ Len(t) = Len(s)
             /\ Cardinality(Open(t)) <= Cardinality(Open(s)) + 1
             /\ ~v => Cardinality(Open(t)) <= Cardinality(Open(s))
             /\ \A k \in DOMAIN s : t[k].recorded = s[k].recorded
<1> DEFINE t == [s EXCEPT ![i].open = v]
<1>1. i \in 1..Len(s) /\ s[i] \in IssueRecord /\ Len(s) \in Nat /\ DOMAIN s = 1..Len(s)
  BY OpenFinite
<1>2. [s[i] EXCEPT !.open = v] \in IssueRecord
  BY <1>1 DEF IssueRecord
<1>3. /\ t \in Seq(IssueRecord) /\ Len(t) = Len(s)
      /\ \A k \in 1..Len(s) : t[k] = IF k = i THEN [s[i] EXCEPT !.open = v] ELSE s[k]
  BY <1>1, <1>2, ExceptSeq
<1>4. \A k \in DOMAIN s : t[k].recorded = s[k].recorded
  BY <1>1, <1>2, <1>3 DEF IssueRecord
<1>5. Open(t) \subseteq Open(s) \cup {i} /\ (~v => Open(t) \subseteq Open(s))
  BY <1>1, <1>3, OpenFinite DEF Open, IssueRecord
<1>6. IsFiniteSet(Open(s)) /\ Cardinality(Open(s)) \in Nat /\ Cardinality(Open(t)) \in Nat
  BY <1>3, OpenFinite
<1>7. /\ IsFiniteSet(Open(s) \cup {i})
      /\ Cardinality(Open(s) \cup {i}) <= Cardinality(Open(s)) + 1
  <2>1. /\ IsFiniteSet(Open(s) \cup {i})
        /\ Cardinality(Open(s) \cup {i}) =
             IF i \in Open(s) THEN Cardinality(Open(s)) ELSE Cardinality(Open(s)) + 1
    BY <1>6, FS_AddElement, Zenon
  <2> QED BY <2>1, <1>6
<1>8. Cardinality(Open(t)) <= Cardinality(Open(s) \cup {i})
  BY <1>5, <1>7, FS_Subset
<1>9. ~v => Cardinality(Open(t)) <= Cardinality(Open(s))
  BY <1>5, <1>6, FS_Subset
<1>10. Cardinality(Open(s) \cup {i}) \in Nat
  BY <1>7, FS_CardinalityType
<1> QED BY <1>3, <1>4, <1>6, <1>7, <1>8, <1>9, <1>10

(* Two runs never wait at once.                                             *)
LEMMA OnePending ==
  ASSUME NEW items \in Inputs, NEW h \in SUBSET Jobs
  PROVE  LET p == {[input |-> items, head |-> h]}
         IN  p \subseteq [input : Inputs, head : SUBSET Jobs] /\ Cardinality(p) <= 1
<1>1. Cardinality({[input |-> items, head |-> h]}) = 1
  BY FS_Singleton, Zenon
<1> QED BY <1>1

(* At first nothing runs and no issue exists.                               *)
LEMMA Begins == Init => IInv
<1> SUFFICES ASSUME Init PROVE IInv
  OBVIOUS
<1>1. Cardinality({}) = 0
  BY FS_EmptySet
<1>2. Open(issues) = {}
  BY DEF Init, Open
<1>3. issues \in Seq(IssueRecord) /\ Len(issues) = 0 /\ DOMAIN issues = {}
  BY DEF Init
<1>4. TypeOK
  <2>1. Unrun \in [Jobs -> Conclusions] /\ <<>> \in Inputs
    BY DEF Unrun, Conclusions, FAILED, Inputs
  <2>2. pending \subseteq [input : Inputs, head : SUBSET Jobs] /\ Cardinality(pending) <= 1
    BY <1>1 DEF Init
  <2>3. at \in 0..Len(issues) /\ issues \in Seq([open : BOOLEAN, recorded : SUBSET Jobs])
    BY <1>3 DEF Init, IssueRecord
  <2>4. hands \in 0..MaxHands /\ calls \in 0..MaxCalls /\ breaks \in 0..MaxBreaks /\ faults \in 0..MaxFaults
    BY BoundsAssumption DEF Init
  <2>5. input \in Inputs /\ concl \in [Jobs -> Conclusions]
    BY <2>1 DEF Init
  <2>6. broken \subseteq Jobs /\ head \subseteq Jobs /\ label \in BOOLEAN /\ phase = "idle"
    BY DEF Init
  <2> QED BY <2>2, <2>3, <2>4, <2>5, <2>6 DEF TypeOK
<1>5. OneIssue
  BY <1>1, <1>2, <1>3, <1>4 DEF OneIssue, Open, Init
<1> QED BY <1>5 DEF Init, IInv, Filing, Decided

(* Everything a step of the branch or the queue leaves alone.               *)
LEMMA Queue_Kept ==
  ASSUME IInv,
         \/ \E j \in Jobs : Break(j) \/ Repair(j)
         \/ Night
         \/ \E items \in Inputs : Dispatch(items)
  PROVE  IInv'
<1>1. UNCHANGED <<input, head, phase, concl, at, label, issues, hands, faults>>
  BY DEF Break, Repair, Night, Dispatch, Enqueue, runVars, budgets
<1>2. TypeOK'
  <2>1. ASSUME NEW j \in Jobs, Break(j) \/ Repair(j) PROVE TypeOK'
    BY <1>1, <2>1, BoundsAssumption DEF Break, Repair, runVars, budgets, IInv, OneIssue, TypeOK
  <2>2. ASSUME NEW items \in Inputs, Enqueue(items), calls' \in 0..MaxCalls PROVE TypeOK'
    <3>1. broken' = broken /\ breaks' = breaks /\ pending' = {[input |-> items, head |-> broken]}
      BY <2>2 DEF Enqueue
    <3>2. pending' \subseteq [input : Inputs, head : SUBSET Jobs] /\ Cardinality(pending') <= 1
      BY <3>1, OnePending DEF IInv, OneIssue, TypeOK
    <3> QED BY <1>1, <2>2, <3>1, <3>2 DEF IInv, OneIssue, TypeOK
  <2>3. CASE Night
    BY <2>2, <2>3 DEF Night, Inputs, IInv, OneIssue, TypeOK
  <2>4. ASSUME NEW items \in Inputs, Dispatch(items) PROVE TypeOK'
    <3>1. Enqueue(items) /\ calls' \in 0..MaxCalls
      BY <2>4, BoundsAssumption DEF Dispatch, IInv, OneIssue, TypeOK
    <3> QED BY <2>2, <3>1
  <2> QED BY <2>1, <2>3, <2>4
<1>3. FailingJobs(concl)' = FailingJobs(concl) /\ Green' = Green /\ Open(issues)' = Open(issues)
  BY <1>1 DEF FailingJobs, Green, JobPassed, Open
<1> QED BY <1>1, <1>2, <1>3 DEF IInv, OneIssue, Filing, Decided

(* A run begins or ends; the issues stay as they are.                       *)
LEMMA Run_Kept ==
  ASSUME IInv, Plan \/ Conclude \/ Finish \/ Die
  PROVE  IInv'
<1>1. UNCHANGED <<broken, label, issues, hands, calls, breaks>>
  BY DEF Plan, Conclude, Finish, Die, Over, budgets
<1>2. phase' \in {"idle", "running", "looking"}
  BY DEF Plan, Conclude, Finish, Die, Over
<1>3. Unrun \in [Jobs -> Conclusions] /\ <<>> \in Inputs
  BY DEF Unrun, Conclusions, FAILED, Inputs
<1>4. TypeOK'
  <2> USE DEF IInv, OneIssue, TypeOK
  <2>1. CASE Plan
    <3>1. Cardinality({}) = 0
      BY FS_EmptySet
    <3>2. input' \in Inputs /\ head' \subseteq Jobs /\ concl' \in [Jobs -> Conclusions] /\ at' \in 0..Len(issues)
      BY <2>1, <1>3, OpenFinite DEF Plan, Over, IssueRecord
    <3> QED BY <1>1, <1>2, <2>1, <3>1, <3>2 DEF Plan, budgets
  <2>2. CASE Conclude
    BY <1>1, <1>2, <2>2, BoundsAssumption DEF Conclude
  <2>3. CASE Finish \/ Die
    BY <1>1, <1>2, <1>3, <2>3, BoundsAssumption DEF Finish, Die, Over, budgets
  <2> QED BY <2>1, <2>2, <2>3
<1>5. Open(issues)' = Open(issues)
  BY <1>1 DEF Open
<1> QED BY <1>1, <1>2, <1>4, <1>5 DEF IInv, OneIssue, Filing, Decided

\* what a step of the report, or a person, leaves alone
RunKept == UNCHANGED <<broken, pending, input, head, concl, calls, breaks, faults>>

(* What the jobs concluded stays what it was.                               *)
LEMMA SameVerdicts ==
  ASSUME RunKept
  PROVE  FailingJobs(concl)' = FailingJobs(concl) /\ Green' = Green
BY DEF RunKept, FailingJobs, Green, JobPassed

(* Requests that change no issue: after the first one the report knows      *)
(* which issue is open and which jobs failed.                               *)
LEMMA Look_Kept ==
  ASSUME IInv, Look \/ Read \/ Note \/ EnsureLabel
  PROVE  IInv'
<1>1. RunKept /\ issues' = issues /\ hands' = hands
  BY DEF RunKept, Look, Read, Note, EnsureLabel, budgets
<1>2. FailingJobs(concl)' = FailingJobs(concl) /\ Green' = Green /\ Open(issues)' = Open(issues)
  BY <1>1, SameVerdicts DEF Open
<1>3. /\ OpenIssue \in 0..Len(issues)
      /\ OpenIssue = 0 => Cardinality(Open(issues)) = 0
  <2>1. issues \in Seq(IssueRecord)
    BY DEF IInv, OneIssue, TypeOK, IssueRecord
  <2>2. OpenIssue \in 0..Len(issues) /\ (OpenIssue = 0 <=> Open(issues) = {})
    BY <2>1, OpenIssueFound
  <2> QED BY <2>2, FS_EmptySet
<1>4. CASE Look
  <2>1. /\ phase' = IF FailingJobs(concl) # {}
                    THEN IF OpenIssue = 0 THEN "labelling" ELSE "commenting"
                    ELSE IF OpenIssue = 0 THEN "done" ELSE "reading"
        /\ at' = OpenIssue /\ label' = label
    BY <1>4 DEF Look
  <2>2. /\ phase' \in {"labelling", "commenting", "reading", "done"}
        /\ phase' = "labelling" => OpenIssue = 0 /\ FailingJobs(concl) # {}
        /\ phase' = "commenting" => OpenIssue # 0 /\ FailingJobs(concl) # {}
        /\ phase' = "reading" => OpenIssue # 0 /\ FailingJobs(concl) = {}
    BY <2>1
  <2>3. TypeOK'
    BY <1>1, <1>3, <2>1, <2>2 DEF RunKept, IInv, OneIssue, TypeOK
  <2>4. OneIssue'
    BY <1>1, <1>2, <2>1, <2>3 DEF IInv, OneIssue
  <2>5. Filing'
    BY <1>1, <1>2, <1>3, <2>2 DEF Filing, IInv, OneIssue, TypeOK
  <2>6. Decided'
    BY <1>1, <1>2, <2>1, <2>2 DEF Decided
  <2> QED BY <2>4, <2>5, <2>6 DEF IInv
<1>5. CASE Read \/ Note
  <2>1. at' = at /\ label' = label
    BY <1>5 DEF Read, Note, budgets
  <2>2. /\ phase' \in {"noting", "closing", "done"} /\ phase \in {"reading", "noting"}
        /\ phase' # "done" => ShouldClose(Green, issues[at].recorded)
    BY <1>5 DEF Read, Note, IInv, Decided
  <2>3. TypeOK'
    BY <1>1, <2>1, <2>2 DEF RunKept, IInv, OneIssue, TypeOK
  <2>4. OneIssue'
    BY <1>1, <1>2, <2>1, <2>3 DEF IInv, OneIssue
  <2>5. Decided'
    BY <1>1, <1>2, <2>1, <2>2 DEF IInv, Decided
  <2> QED BY <2>2, <2>4, <2>5 DEF IInv, Filing
<1>6. CASE EnsureLabel
  <2>1. at' = at /\ label' = TRUE /\ phase = "labelling" /\ phase' = "filing"
    BY <1>6 DEF EnsureLabel, budgets
  <2>2. TypeOK'
    BY <1>1, <2>1 DEF RunKept, IInv, OneIssue, TypeOK
  <2>3. OneIssue'
    BY <1>1, <1>2, <2>1, <2>2 DEF IInv, OneIssue
  <2> QED BY <1>1, <1>2, <2>1, <2>3 DEF IInv, Filing, Decided
<1> QED BY <1>4, <1>5, <1>6

(* An issue is closed or reopened, by the report or by a person; its        *)
(* records stay, and only a person makes more of them open.                 *)
LEMMA Turn_Kept ==
  ASSUME IInv, Close \/ \E i \in DOMAIN issues : Turn(i)
  PROVE  IInv'
<1>1. RunKept /\ UNCHANGED <<at, label>>
  BY DEF RunKept, Close, Turn, budgets, runVars
<1>2. FailingJobs(concl)' = FailingJobs(concl) /\ Green' = Green
  BY <1>1, SameVerdicts
<1>3. issues \in Seq(IssueRecord) /\ hands \in Nat /\ DOMAIN issues = 1..Len(issues) /\ Len(issues) \in Nat
  BY OpenFinite, BoundsAssumption DEF IInv, OneIssue, TypeOK, IssueRecord
<1>4. /\ issues' \in Seq(IssueRecord) /\ Len(issues') = Len(issues)
      /\ \A k \in DOMAIN issues : issues'[k].recorded = issues[k].recorded
      /\ Cardinality(Open(issues)) \in Nat /\ Cardinality(Open(issues')) \in Nat
      /\ hands' \in 0..MaxHands /\ hands' >= hands
      /\ Cardinality(Open(issues')) - hands' <= Cardinality(Open(issues)) - hands
      /\ (phase' = phase /\ phase # "closing") \/ phase' = "done" \/ phase' = phase
  <2>1. CASE Close
    <3>1. at \in DOMAIN issues /\ hands' = hands /\ phase' = "done"
      BY <1>3, <2>1 DEF Close, IInv, Decided, OneIssue, TypeOK, budgets
    <3>2. issues' = [issues EXCEPT ![at].open = FALSE]
      BY <2>1 DEF Close
    <3>3. hands \in 0..MaxHands
      BY DEF IInv, OneIssue, TypeOK
    <3>4. /\ issues' \in Seq(IssueRecord) /\ Len(issues') = Len(issues)
          /\ Cardinality(Open(issues')) <= Cardinality(Open(issues))
          /\ \A k \in DOMAIN issues : issues'[k].recorded = issues[k].recorded
      BY <1>3, <3>1, <3>2, OneTurned
    <3>5. Cardinality(Open(issues)) \in Nat /\ Cardinality(Open(issues')) \in Nat
      BY <1>3, <3>4, OpenFinite
    <3> QED BY <1>3, <3>1, <3>3, <3>4, <3>5
  <2>2. ASSUME NEW i \in DOMAIN issues, Turn(i) PROVE <1>4!:
    <3>1. issues' = [issues EXCEPT ![i].open = ~@] /\ hands' = hands + 1 /\ phase' = phase
      BY <2>2 DEF Turn, runVars
    <3>2. hands' \in 0..MaxHands
      BY <1>3, <2>2, BoundsAssumption DEF Turn
    <3>3. /\ issues' \in Seq(IssueRecord) /\ Len(issues') = Len(issues)
          /\ Cardinality(Open(issues')) <= Cardinality(Open(issues)) + 1
          /\ \A k \in DOMAIN issues : issues'[k].recorded = issues[k].recorded
      <4>1. issues[i].open = TRUE \/ issues[i].open = FALSE
        BY <1>3, OpenFinite DEF IssueRecord
      <4>2. CASE issues[i].open = TRUE
        <5>1. issues' = [issues EXCEPT ![i].open = FALSE]
          BY <3>1, <4>2
        <5> QED BY <1>3, <5>1, OneTurned
      <4>3. CASE issues[i].open = FALSE
        <5>1. issues' = [issues EXCEPT ![i].open = TRUE]
          BY <3>1, <4>3
        <5> QED BY <1>3, <5>1, OneTurned
      <4> QED BY <4>1, <4>2, <4>3
    <3>4. Cardinality(Open(issues)) \in Nat /\ Cardinality(Open(issues')) \in Nat
      BY <1>3, <3>3, OpenFinite
    <3> QED BY <1>3, <3>1, <3>2, <3>3, <3>4
  <2> QED BY <2>1, <2>2
<1>5. DOMAIN issues' = DOMAIN issues
  BY <1>3, <1>4, OpenFinite
<1>6. TypeOK'
  BY <1>1, <1>4 DEF RunKept, IInv, OneIssue, TypeOK, IssueRecord
<1>7. OneIssue'
  BY <1>1, <1>3, <1>4, <1>5, <1>6 DEF IInv, OneIssue, Open
<1>8. Filing'
  BY <1>1, <1>3, <1>4 DEF IInv, Filing
<1>9. Decided'
  <2>1. at # 0 => at \in DOMAIN issues
    BY <1>3 DEF IInv, OneIssue, TypeOK
  <2> QED BY <1>1, <1>2, <1>4, <2>1 DEF IInv, Decided
<1> QED BY <1>7, <1>8, <1>9 DEF IInv

(* A failing job is recorded in the issue that was found ...                *)
LEMMA Comment_Kept ==
  ASSUME IInv, Comment
  PROVE  IInv'
<1>1. RunKept /\ UNCHANGED <<at, label, hands>> /\ phase' = "done"
  BY DEF RunKept, Comment, budgets
<1>2. issues \in Seq(IssueRecord) /\ Len(issues) \in Nat /\ at \in 1..Len(issues) /\ DOMAIN issues = 1..Len(issues)
  BY OpenFinite DEF Comment, IInv, Decided, OneIssue, TypeOK, IssueRecord
<1>3. issues[at] \in IssueRecord /\ FailingJobs(concl) \subseteq Jobs
  BY <1>2 DEF FailingJobs
<1>4. [issues[at] EXCEPT !.recorded = @ \cup FailingJobs(concl)] \in IssueRecord
  BY <1>3 DEF IssueRecord
<1>5. issues' = [issues EXCEPT ![at] = [issues[at] EXCEPT !.recorded = @ \cup FailingJobs(concl)]]
  BY DEF Comment
<1>6. /\ issues' \in Seq(IssueRecord) /\ Len(issues') = Len(issues)
      /\ \A k \in 1..Len(issues) : issues'[k] =
           IF k = at THEN [issues[at] EXCEPT !.recorded = @ \cup FailingJobs(concl)] ELSE issues[k]
  BY <1>2, <1>4, <1>5, ExceptSeq
<1>7. DOMAIN issues' = DOMAIN issues
  BY <1>2, <1>6, OpenFinite
<1>8. Open(issues') = Open(issues)
  BY <1>2, <1>3, <1>6, <1>7 DEF Open, IssueRecord
<1>9. TypeOK'
  BY <1>1, <1>6 DEF RunKept, IInv, OneIssue, TypeOK, IssueRecord
<1>10. \A k \in DOMAIN issues : issues'[k].recorded # {}
  BY <1>2, <1>3, <1>6 DEF IInv, OneIssue, IssueRecord
<1>11. OneIssue'
  BY <1>1, <1>7, <1>8, <1>9, <1>10 DEF IInv, OneIssue, Open
<1> QED BY <1>1, <1>11 DEF IInv, Filing, Decided

(* ... or in a new one, which is one more than people have opened.          *)
LEMMA File_Kept ==
  ASSUME IInv, File
  PROVE  IInv'
<1>1. RunKept /\ UNCHANGED <<at, label, hands>> /\ phase' = "done" /\ label = TRUE
  BY DEF RunKept, File, budgets, IInv, Filing
<1> DEFINE old == IF AllClosed THEN <<>> ELSE issues
           new == [open |-> TRUE, recorded |-> FailingJobs(concl)]
<1>2. issues \in Seq(IssueRecord) /\ old \in Seq(IssueRecord)
  BY DEF IInv, OneIssue, TypeOK, IssueRecord
<1>3. new \in IssueRecord /\ FailingJobs(concl) # {}
  BY DEF FailingJobs, IssueRecord, File, IInv, Decided
<1>4. issues' = Append(old, new)
  BY DEF File
<1>5. /\ issues' \in Seq(IssueRecord) /\ Len(issues') = Len(old) + 1
      /\ \A k \in 1..Len(old) : issues'[k] = old[k]
      /\ issues'[Len(old) + 1] = new
  <2> HIDE DEF old, new
  <2> QED BY <1>2, <1>3, <1>4, AppendProperties
<1>6. /\ DOMAIN old = 1..Len(old) /\ Len(old) \in Nat
      /\ DOMAIN issues' = 1..Len(old) + 1
      /\ IsFiniteSet(Open(old)) /\ Cardinality(Open(old)) \in Nat
      /\ Cardinality(Open(issues)) \in Nat
  BY <1>2, <1>5, OpenFinite
<1>7. Cardinality(Open(old)) <= Cardinality(Open(issues))
  <2>1. CASE AllClosed
    <3>1. Open(old) = {}
      BY <2>1 DEF Open
    <3> QED BY <1>6, <3>1, FS_EmptySet
  <2>2. CASE ~AllClosed
    BY <1>6, <2>2
  <2> QED BY <2>1, <2>2
<1>8. Open(issues') = Open(old) \cup {Len(old) + 1}
  BY <1>5, <1>6 DEF Open
<1>9. Cardinality(Open(issues')) <= Cardinality(Open(old)) + 1
  <2>1. Cardinality(Open(old) \cup {Len(old) + 1}) =
          IF Len(old) + 1 \in Open(old) THEN Cardinality(Open(old)) ELSE Cardinality(Open(old)) + 1
    BY <1>6, FS_AddElement, Zenon
  <2> QED BY <1>6, <1>8, <2>1
<1>10. Cardinality(Open(issues')) \in Nat /\ hands \in Nat
  BY <1>5, OpenFinite, BoundsAssumption DEF IInv, OneIssue, TypeOK
<1>11. Cardinality(Open(issues')) <= 1 + hands
  BY <1>6, <1>7, <1>9, <1>10 DEF File, IInv, Filing
<1>12. at = 0
  BY DEF File, IInv, Decided
<1>13. TypeOK'
  BY <1>1, <1>5, <1>6, <1>12 DEF RunKept, IInv, OneIssue, TypeOK, IssueRecord
<1>14. \A k \in DOMAIN issues' : issues'[k].recorded # {}
  <2>1. \A k \in 1..Len(old) : old[k].recorded # {}
    <3>1. CASE AllClosed
      BY <3>1
    <3>2. CASE ~AllClosed
      BY <1>6, <3>2 DEF IInv, OneIssue
    <3> QED BY <3>1, <3>2
  <2>2. new.recorded # {}
    BY <1>3
  <2> QED BY <1>5, <1>6, <2>1, <2>2
<1>15. OneIssue'
  BY <1>1, <1>11, <1>13, <1>14 DEF OneIssue, Open
<1> QED BY <1>1, <1>15 DEF IInv, Filing, Decided

(* Every step keeps the invariant.                                          *)
LEMMA Step_Kept == IInv /\ [Next]_vars => IInv'
<1> SUFFICES ASSUME IInv, [Next]_vars PROVE IInv'
  OBVIOUS
<1>1. CASE UNCHANGED vars
  <2>1. FailingJobs(concl)' = FailingJobs(concl) /\ Green' = Green /\ Open(issues)' = Open(issues)
    BY <1>1 DEF vars, FailingJobs, Green, JobPassed, Open
  <2> QED BY <1>1, <2>1 DEF vars, IInv, OneIssue, TypeOK, Filing, Decided
<1>2. CASE \/ \E j \in Jobs : Break(j) \/ Repair(j)
           \/ Night
           \/ \E items \in Inputs : Dispatch(items)
  BY <1>2, Queue_Kept
<1>3. CASE Plan \/ Conclude \/ Finish \/ Die
  BY <1>3, Run_Kept
<1>4. CASE Look \/ Read \/ Note \/ EnsureLabel
  BY <1>4, Look_Kept
<1>5. CASE Close \/ \E i \in DOMAIN issues : Turn(i)
  BY <1>5, Turn_Kept
<1>6. CASE Comment
  BY <1>6, Comment_Kept
<1>7. CASE File
  BY <1>7, File_Kept
<1> QED BY <1>1, <1>2, <1>3, <1>4, <1>5, <1>6, <1>7 DEF Next, Report

(* At every point between two requests the decisions of the report still    *)
(* hold, and at most one open issue per hand, and one more, exists.         *)
THEOREM Invariant == Spec => []IInv
<1>1. Init => IInv
  BY Begins
<1> QED BY <1>1, Step_Kept, PTL DEF Spec

(* However runs, lost reports and people interleave, each open issue beyond *)
(* the first was opened by a person, and every issue has its label and a    *)
(* recorded job by which a green run can close it (cmd_report).             *)
THEOREM Unique == Spec => []OneIssue
<1>1. IInv => OneIssue
  BY DEF IInv
<1> QED BY <1>1, Invariant, PTL

-----------------------------------------------------------------------------
(* The refinement.  An issue is a ticket that owes what it records.         *)
TicketRecord == [open : BOOLEAN, owed : SUBSET Jobs]

TicketsOf(s) == [i \in DOMAIN s |-> [open |-> s[i].open, owed |-> s[i].recorded]]

(* A list of issues is a list of tickets of the same length.                *)
LEMMA TicketsTyped ==
  ASSUME NEW s \in Seq(IssueRecord)
  PROVE  /\ TicketsOf(s) \in Seq(TicketRecord)
         /\ Len(TicketsOf(s)) = Len(s) /\ DOMAIN TicketsOf(s) = 1..Len(s) /\ Len(s) \in Nat
         /\ \A i \in 1..Len(s) :
              /\ TicketsOf(s)[i] = [open |-> s[i].open, owed |-> s[i].recorded]
              /\ TicketsOf(s)[i] \in TicketRecord
<1>1. DOMAIN s = 1..Len(s) /\ Len(s) \in Nat /\ \A i \in 1..Len(s) : s[i] \in IssueRecord
  BY OpenFinite
<1>2. \A i \in 1..Len(s) : [open |-> s[i].open, owed |-> s[i].recorded] \in TicketRecord
  BY <1>1 DEF IssueRecord, TicketRecord
<1>3. TicketsOf(s) \in [1..Len(s) -> TicketRecord]
  BY <1>1, <1>2 DEF TicketsOf
<1>4. TicketsOf(s) \in Seq(TicketRecord)
  BY <1>1, <1>3, SeqDef
<1>5. DOMAIN TicketsOf(s) = 1..Len(s)
  BY <1>1 DEF TicketsOf
<1>6. Len(TicketsOf(s)) = Len(s)
  BY <1>1, <1>4, <1>5, LenProperties
<1> QED BY <1>1, <1>2, <1>4, <1>5, <1>6 DEF TicketsOf

(* A run gives each job a result.                                           *)
LEMMA ResultsTyped ==
  ASSUME NEW c \in [Jobs -> Conclusions]
  PROVE  [j \in Jobs |-> CASE c[j] = "success" -> "passed"
                           [] c[j] \in FAILED -> "failed"
                           [] OTHER -> "none"] \in [Jobs -> Ticket!Verdicts]
<1> SUFFICES ASSUME NEW j \in Jobs
             PROVE  (CASE c[j] = "success" -> "passed"
                       [] c[j] \in FAILED -> "failed"
                       [] OTHER -> "none") \in Ticket!Verdicts
  OBVIOUS
<1> QED BY DEF FAILED, Ticket!Verdicts

(* What a run concludes of the jobs is what a ticket hears of them.         *)
LEMMA ResultsHeard ==
  ASSUME concl \in [Jobs -> Conclusions]
  PROVE  /\ Results \in [Jobs -> Ticket!Verdicts]
         /\ Ticket!With("failed") = FailingJobs(concl)
         /\ \A R \in SUBSET Jobs : R \subseteq Green => R \subseteq Ticket!With("passed")
<1>1. ASSUME NEW j \in Jobs
      PROVE  /\ concl[j] = "success" => Results[j] = "passed"
             /\ concl[j] \in FAILED => Results[j] = "failed"
             /\ concl[j] \notin FAILED \cup {"success"} => Results[j] = "none"
  BY DEF Results, FAILED
<1>2. Results \in [Jobs -> Ticket!Verdicts]
  BY ResultsTyped DEF Results
<1>3. Ticket!With("failed") = FailingJobs(concl)
  BY <1>1 DEF Ticket!With, FailingJobs, FAILED
<1>4. \A j \in Jobs : j \in Green => j \in Ticket!With("passed")
  BY <1>1 DEF Ticket!With, Green, JobPassed
<1> QED BY <1>2, <1>3, <1>4

(* At first there is no issue and no result.                                *)
LEMMA TicketBegins == Init => Ticket!Init
<1> SUFFICES ASSUME Init PROVE Ticket!Init
  OBVIOUS
<1>1. Tickets = <<>>
  <2>1. issues = <<>> /\ issues \in Seq(IssueRecord) /\ Len(issues) = 0
    BY DEF Init
  <2>2. TicketsOf(issues) \in Seq(TicketRecord) /\ Len(TicketsOf(issues)) = 0
    BY <2>1, TicketsTyped
  <2>3. TicketsOf(issues) = <<>>
    BY <2>2, EmptySeq
  <2> QED BY <2>3 DEF Tickets, TicketsOf
<1>2. Results = [j \in Jobs |-> "none"]
  BY DEF Init, Results, Unrun, FAILED
<1> QED BY <1>1, <1>2 DEF Ticket!Init, Init

(* A run that begins, concludes or ends gives new results and touches no    *)
(* ticket.                                                                  *)
LEMMA TicketHears ==
  ASSUME IInv', UNCHANGED <<issues, hands>>
  PROVE  Ticket!Results
<1>1. concl' \in [Jobs -> Conclusions]
  BY DEF IInv, OneIssue, TypeOK
<1>2. Results' \in [Jobs -> Ticket!Verdicts]
  BY <1>1, ResultsTyped DEF Results
<1>3. Tickets' = Tickets
  BY DEF Tickets
<1> QED BY <1>2, <1>3 DEF Ticket!Results

(* The report acts on the issue it found or files a new one; at each of     *)
(* these moments the promise of the ticket allows it.                       *)
LEMMA TicketActs ==
  ASSUME IInv, Close \/ Comment \/ File
  PROVE  Ticket!Next
<1>1. /\ issues \in Seq(IssueRecord) /\ concl \in [Jobs -> Conclusions]
      /\ UNCHANGED <<concl, hands>>
  BY DEF IInv, OneIssue, TypeOK, IssueRecord, Close, Comment, File, budgets
<1>2. UNCHANGED <<Results, hands>>
  BY <1>1 DEF Results
<1>3. /\ Ticket!With("failed") = FailingJobs(concl)
      /\ \A R \in SUBSET Jobs : R \subseteq Green => R \subseteq Ticket!With("passed")
  BY <1>1, ResultsHeard
<1>4. /\ Tickets = TicketsOf(issues) /\ Tickets' = TicketsOf(issues')
      /\ DOMAIN issues = 1..Len(issues) /\ Len(issues) \in Nat /\ DOMAIN Tickets = 1..Len(issues)
      /\ Tickets \in Seq(TicketRecord) /\ Len(Tickets) = Len(issues)
      /\ \A k \in 1..Len(issues) :
           /\ issues[k] \in IssueRecord /\ Tickets[k] \in TicketRecord
           /\ Tickets[k] = [open |-> issues[k].open, owed |-> issues[k].recorded]
  BY <1>1, OpenFinite, TicketsTyped DEF Tickets, TicketsOf
<1>5. \A k \in 1..Len(issues) :
          /\ issues[k] \in IssueRecord
          /\ Tickets[k] = [open |-> issues[k].open, owed |-> issues[k].recorded]
  BY <1>4
<1>6. phase \in {"closing", "commenting"} => at \in 1..Len(issues)
  BY <1>4 DEF IInv, Decided, OneIssue, TypeOK
<1>7. CASE Close
  <2>1. at \in 1..Len(issues) /\ FailingJobs(concl) = {}
        /\ issues[at].recorded # {} /\ issues[at].recorded \subseteq Green
    BY <1>6, <1>7 DEF Close, IInv, Decided, ShouldClose
  <2>2. issues' = [issues EXCEPT ![at].open = FALSE]
    BY <1>7 DEF Close
  <2>3. Tickets[at].owed = issues[at].recorded /\ issues[at].recorded \in SUBSET Jobs
    BY <1>4, <2>1 DEF IssueRecord
  <2>4. Tickets' = [Tickets EXCEPT ![at].open = FALSE]
    <3>1. DOMAIN issues' = DOMAIN issues
      BY <2>2
    <3>2. \A k \in 1..Len(issues) :
            [open |-> issues'[k].open, owed |-> issues'[k].recorded] =
              IF k = at THEN [Tickets[k] EXCEPT !.open = FALSE] ELSE Tickets[k]
      <4>1. DOMAIN issues = 1..Len(issues)
        BY <1>4
      <4>2. ASSUME NEW k \in 1..Len(issues), k # at
            PROVE  [open |-> issues'[k].open, owed |-> issues'[k].recorded] = Tickets[k]
        BY <1>5, <2>2, <4>1, <4>2
      <4>3. [open |-> issues'[at].open, owed |-> issues'[at].recorded] =
              [open |-> FALSE, owed |-> issues[at].recorded]
        BY <1>5, <2>1, <2>2, <4>1 DEF IssueRecord
      <4>4. [open |-> FALSE, owed |-> issues[at].recorded] =
              [Tickets[at] EXCEPT !.open = FALSE]
        <5>1. Tickets[at] = [open |-> issues[at].open, owed |-> issues[at].recorded]
          BY <1>5, <2>1
        <5>2. PICK v : v = FALSE
          OBVIOUS
        <5>3. [open |-> v, owed |-> issues[at].recorded] = [Tickets[at] EXCEPT !.open = v]
          BY <5>1
        <5> QED BY <5>2, <5>3
      <4> QED BY <4>2, <4>3, <4>4
    <3> QED BY <1>4, <2>1, <3>1, <3>2 DEF TicketsOf
  <2>5. Ticket!Settle(at)
    BY <1>3, <2>1, <2>3, <2>4 DEF Ticket!Settle
  <2> QED BY <1>2, <1>4, <2>1, <2>5 DEF Ticket!Next
<1>8. CASE Comment
  <2>1. at \in 1..Len(issues) /\ FailingJobs(concl) # {}
    BY <1>6, <1>8 DEF Comment, IInv, Decided
  <2>2. issues' = [issues EXCEPT ![at].recorded = @ \cup FailingJobs(concl)]
    BY <1>8 DEF Comment
  <2>3. Tickets' = [Tickets EXCEPT ![at].owed = @ \cup FailingJobs(concl)]
    <3>1. DOMAIN issues' = DOMAIN issues
      BY <2>2
    <3>2. \A k \in 1..Len(issues) :
            [open |-> issues'[k].open, owed |-> issues'[k].recorded] =
              IF k = at THEN [Tickets[k] EXCEPT !.owed = @ \cup FailingJobs(concl)] ELSE Tickets[k]
      <4>1. DOMAIN issues = 1..Len(issues)
        BY <1>4
      <4>2. ASSUME NEW k \in 1..Len(issues), k # at
            PROVE  [open |-> issues'[k].open, owed |-> issues'[k].recorded] = Tickets[k]
        BY <1>5, <2>2, <4>1, <4>2
      <4>3. [open |-> issues'[at].open, owed |-> issues'[at].recorded] =
              [open |-> issues[at].open, owed |-> issues[at].recorded \cup FailingJobs(concl)]
        BY <1>5, <2>1, <2>2, <4>1 DEF IssueRecord
      <4>4. [open |-> issues[at].open, owed |-> issues[at].recorded \cup FailingJobs(concl)] =
              [Tickets[at] EXCEPT !.owed = @ \cup FailingJobs(concl)]
        <5>1. Tickets[at] = [open |-> issues[at].open, owed |-> issues[at].recorded]
          BY <1>5, <2>1
        <5> QED BY <5>1
      <4> QED BY <4>2, <4>3, <4>4
    <3> QED BY <1>4, <2>1, <3>1, <3>2 DEF TicketsOf
  <2>4. Ticket!Extend(at)
    BY <1>3, <2>1, <2>3 DEF Ticket!Extend
  <2> QED BY <1>2, <1>4, <2>1, <2>4 DEF Ticket!Next
<1>9. CASE File
  <2> DEFINE old == IF AllClosed THEN <<>> ELSE issues
             new == [open |-> TRUE, recorded |-> FailingJobs(concl)]
             due == [open |-> TRUE, owed |-> FailingJobs(concl)]
  <2>1. /\ FailingJobs(concl) # {} /\ new \in IssueRecord /\ due \in TicketRecord
        /\ due = [open |-> new.open, owed |-> new.recorded]
    BY <1>9 DEF File, IInv, Decided, FailingJobs, IssueRecord, TicketRecord
  <2>2. issues' = Append(old, new)
    BY <1>9 DEF File
  <2>3. old \in Seq(IssueRecord)
    BY <1>1
  <2>4. Ticket!Current = TicketsOf(old)
    <3>1. AllClosed <=> ~ \E i \in DOMAIN Tickets : Tickets[i].open
      BY <1>1, <1>4 DEF AllClosed, IssueRecord
    <3>2. CASE AllClosed
      <4>1. old = <<>> /\ TicketsOf(old) \in Seq(TicketRecord) /\ Len(TicketsOf(old)) = Len(old)
        BY <2>3, <3>2, TicketsTyped
      <4>2. TicketsOf(old) = <<>>
        BY <4>1, EmptySeq
      <4> QED BY <3>1, <3>2, <4>2 DEF Ticket!Current
    <3>3. CASE ~AllClosed
      BY <1>4, <3>1, <3>3 DEF Ticket!Current
    <3> QED BY <3>2, <3>3
  <2>5. TicketsOf(Append(old, new)) = Append(TicketsOf(old), due)
    <3> HIDE DEF old, new, due
    <3>1. /\ Append(old, new) \in Seq(IssueRecord) /\ Len(Append(old, new)) = Len(old) + 1
          /\ \A k \in 1..Len(old) : Append(old, new)[k] = old[k]
          /\ Append(old, new)[Len(old) + 1] = new
      BY <2>1, <2>3, AppendProperties
    <3>2. /\ TicketsOf(old) \in Seq(TicketRecord) /\ Len(TicketsOf(old)) = Len(old) /\ Len(old) \in Nat
          /\ \A k \in 1..Len(old) : TicketsOf(old)[k] = [open |-> old[k].open, owed |-> old[k].recorded]
      BY <2>3, TicketsTyped
    <3>3. /\ Append(TicketsOf(old), due) \in Seq(TicketRecord)
          /\ Len(Append(TicketsOf(old), due)) = Len(old) + 1
          /\ \A k \in 1..Len(old) : Append(TicketsOf(old), due)[k] = TicketsOf(old)[k]
          /\ Append(TicketsOf(old), due)[Len(old) + 1] = due
      BY <2>1, <3>2, AppendProperties
    <3>4. /\ TicketsOf(Append(old, new)) \in Seq(TicketRecord)
          /\ Len(TicketsOf(Append(old, new))) = Len(old) + 1
          /\ \A k \in 1..Len(old) + 1 :
               TicketsOf(Append(old, new))[k] =
                 [open |-> Append(old, new)[k].open, owed |-> Append(old, new)[k].recorded]
      BY <3>1, TicketsTyped
    <3>5. \A k \in 1..Len(old) + 1 : TicketsOf(Append(old, new))[k] = Append(TicketsOf(old), due)[k]
      BY <2>1, <3>1, <3>2, <3>3, <3>4
    <3> QED BY <3>3, <3>4, <3>5, SeqEqual
  <2>6. Ticket!File
    BY <1>3, <1>4, <2>1, <2>2, <2>4, <2>5 DEF Ticket!File
  <2> QED BY <1>2, <2>6 DEF Ticket!Next
<1> QED BY <1>7, <1>8, <1>9

(* A person turns a ticket; its record stays.                               *)
LEMMA TicketTurned ==
  ASSUME IInv, NEW i \in DOMAIN issues, Turn(i)
  PROVE  Ticket!Hand(i) /\ i \in DOMAIN Tickets
<1>1. issues \in Seq(IssueRecord) /\ concl' = concl /\ hands' = hands + 1
  BY DEF IInv, OneIssue, TypeOK, IssueRecord, Turn, runVars
<1>2. issues' = [issues EXCEPT ![i].open = ~@]
  BY DEF Turn
<1>3. Results' = Results
  BY <1>1 DEF Results
<1>4. /\ Tickets = TicketsOf(issues) /\ Tickets' = TicketsOf(issues')
      /\ DOMAIN issues = 1..Len(issues) /\ Len(issues) \in Nat /\ DOMAIN Tickets = 1..Len(issues)
      /\ \A k \in 1..Len(issues) :
           /\ issues[k] \in IssueRecord
           /\ Tickets[k] = [open |-> issues[k].open, owed |-> issues[k].recorded]
  BY <1>1, OpenFinite, TicketsTyped DEF Tickets, TicketsOf
<1>5. Tickets' = [Tickets EXCEPT ![i].open = ~@]
  <2>1. DOMAIN issues' = DOMAIN issues
    BY <1>2
  <2>2. \A k \in 1..Len(issues) :
          [open |-> issues'[k].open, owed |-> issues'[k].recorded] =
            IF k = i THEN [Tickets[k] EXCEPT !.open = ~@] ELSE Tickets[k]
    BY <1>2, <1>4 DEF IssueRecord
  <2> QED BY <1>4, <2>1, <2>2 DEF TicketsOf
<1> QED BY <1>1, <1>3, <1>4, <1>5 DEF Ticket!Hand

(* Every step of the workflow is a step of the ticket, or none.             *)
LEMMA TicketSteps == IInv /\ IInv' /\ [Next]_vars => [Ticket!Next]_(Ticket!vars)
<1> SUFFICES ASSUME IInv, IInv', [Next]_vars PROVE [Ticket!Next]_(Ticket!vars)
  OBVIOUS
<1>1. ASSUME UNCHANGED <<issues, concl, hands>> PROVE UNCHANGED Ticket!vars
  BY <1>1 DEF Ticket!vars, Tickets, Results
<1>2. CASE UNCHANGED vars
  BY <1>1, <1>2 DEF vars
<1>3. CASE \/ \E j \in Jobs : Break(j) \/ Repair(j)
           \/ Night
           \/ \E items \in Inputs : Dispatch(items)
           \/ Look \/ Read \/ Note \/ EnsureLabel
  BY <1>1, <1>3 DEF Break, Repair, Night, Dispatch, Enqueue, Look, Read, Note, EnsureLabel, runVars, budgets
<1>4. CASE Plan \/ Conclude \/ Finish \/ Die
  <2>1. UNCHANGED <<issues, hands>>
    BY <1>4 DEF Plan, Conclude, Finish, Die, budgets
  <2> QED BY <2>1, TicketHears DEF Ticket!Next
<1>5. CASE Close \/ Comment \/ File
  BY <1>5, TicketActs
<1>6. CASE \E i \in DOMAIN issues : Turn(i)
  BY <1>6, TicketTurned DEF Ticket!Next
<1> QED BY <1>2, <1>3, <1>4, <1>5, <1>6 DEF Next, Report

(* Step by step the report keeps the promise of the workflow's header: only *)
(* a run without a failure in which every job the issue records at that     *)
(* moment has passed closes it, and a failure is never taken back.          *)
THEOREM Promise == Spec => ImplementsTicket
<1>1. Init => Ticket!Init
  BY TicketBegins
<1>2. IInv /\ IInv' /\ [Next]_vars => [Ticket!Next]_(Ticket!vars)
  BY TicketSteps
<1> QED BY <1>1, <1>2, Invariant, PTL DEF Spec, ImplementsTicket, Ticket!Spec

-----------------------------------------------------------------------------
(* Bisection.                                                              *)

NightlyRun == [head : Commits, passed : BOOLEAN]
LegacyRun == [head : Commits, event : STRING, passed : BOOLEAN]

-----------------------------------------------------------------------------
(* A commit is an ancestor of itself, and its ancestors do not come after   *)
(* it.                                                                      *)
LEMMA AncestorSelf ==
  ASSUME parents \in Histories, NEW c \in Commits
  PROVE  /\ c \in Ancestors(c)
         /\ \A a \in Ancestors(c) : a \in Commits /\ a <= c
BY BisectAssumption DEF Ancestors, Commits

(* So are its parents.                                                      *)
LEMMA AncestorParent ==
  ASSUME parents \in Histories, NEW c \in Commits, NEW p \in parents[c]
  PROVE  p \in Ancestors(c) /\ p # c
<1>1. p \in 1..c /\ p # c
  BY BisectAssumption DEF Histories, Commits
<1> QED BY <1>1 DEF Ancestors

(* The ancestors of an ancestor are ancestors.                              *)
LEMMA AncestorTransitive ==
  ASSUME parents \in Histories, NEW c \in Commits, NEW b \in Ancestors(c), NEW a \in Ancestors(b)
  PROVE  a \in Ancestors(c)
<1>1. b \in Commits /\ b \in 1..c /\ c \in Nat /\ a \in 1..b
  BY BisectAssumption DEF Ancestors, Commits
<1>2. ASSUME NEW S \in SUBSET (1..c), c \in S, \A d \in S : parents[d] \subseteq S
      PROVE  a \in S
  <2> DEFINE T == S \cap 1..b
  <2>1. b \in T
    BY <1>1, <1>2 DEF Ancestors
  <2>2. ASSUME NEW d \in T PROVE parents[d] \subseteq T
    BY <1>1, <1>2, <2>2, BisectAssumption DEF Histories, Commits
  <2>3. T \in SUBSET (1..b)
    OBVIOUS
  <2>4. a \in T
    BY <2>1, <2>2, <2>3 DEF Ancestors
  <2> QED BY <2>4
<1> QED BY <1>1, <1>2 DEF Ancestors

(* Two commits are not ancestors of each other.                             *)
LEMMA AncestorOrder ==
  ASSUME parents \in Histories, NEW c \in Commits, NEW b \in Ancestors(c), c \in Ancestors(b)
  PROVE  b = c
BY BisectAssumption DEF Ancestors, Commits

-----------------------------------------------------------------------------
(* The first accepted run of a list is found, by the place it has in it.    *)
LEMMA FirstHeadFound ==
  ASSUME NEW S, NEW runs \in Seq(S), NEW accepted
  PROVE  \/ /\ FirstHead(runs, accepted) = 0
            /\ \A i \in DOMAIN runs : runs[i] \notin accepted
         \/ \E i \in DOMAIN runs :
              /\ runs[i] \in accepted /\ FirstHead(runs, accepted) = runs[i].head
              /\ \A k \in DOMAIN runs : runs[k] \in accepted => i <= k
<1> DEFINE found == {i \in DOMAIN runs : runs[i] \in accepted}
<1>1. DOMAIN runs \subseteq Nat
  BY LenProperties
<1>2. CASE found = {}
  BY <1>2 DEF FirstHead
<1>3. CASE found # {}
  <2>1. \E m \in found : \A k \in found : m <= k
    BY <1>1, <1>3, LeastNatural
  <2>2. PICK i \in found : i = CHOOSE m \in found : \A k \in found : m <= k
    BY <2>1
  <2>3. \A k \in found : i <= k
    BY <2>1, <2>2
  <2>4. FirstHead(runs, accepted) = runs[i].head
    BY <1>3, <2>2 DEF FirstHead
  <2> QED BY <2>3, <2>4
<1> QED BY <1>2, <1>3

(* A page holds the newest runs of a list in their order.                   *)
LEMMA PageTyped ==
  ASSUME NEW S, NEW runs \in Seq(S)
  PROVE  /\ Page(runs) \in Seq(S) /\ Len(Page(runs)) \in Nat /\ Len(Page(runs)) <= Listed
         /\ DOMAIN Page(runs) = 1..Len(Page(runs)) /\ Len(runs) \in Nat /\ DOMAIN runs = 1..Len(runs)
         /\ Len(Page(runs)) <= Len(runs)
         /\ Len(runs) <= Listed => Len(Page(runs)) = Len(runs)
         /\ \A i \in 1..Len(Page(runs)) : Page(runs)[i] = runs[i]
<1>1. /\ Len(runs) \in Nat /\ DOMAIN runs = 1..Len(runs) /\ \A i \in 1..Len(runs) : runs[i] \in S
  BY LenProperties, ElementOfSeq
<1>2. PICK n \in Nat : /\ n <= Listed /\ n <= Len(runs) /\ (Len(runs) <= Listed => n = Len(runs))
                      /\ Page(runs) = SubSeq(runs, 1, n)
  <2>1. Len(runs) \in Nat /\ Listed \in Nat
    BY <1>1, BisectAssumption
  <2>2. CASE Len(runs) < Listed
    BY <2>1, <2>2 DEF Page
  <2>3. CASE ~(Len(runs) < Listed)
    BY <2>1, <2>3 DEF Page
  <2> QED BY <2>2, <2>3
<1>3. ASSUME NEW i \in 1..n PROVE runs[i] \in S
  <2>1. n <= Len(runs) /\ Len(runs) \in Nat
    BY <1>1, <1>2
  <2>2. i \in 1..Len(runs)
    BY <2>1
  <2> QED BY <1>1, <2>2
<1>4. /\ SubSeq(runs, 1, n) \in Seq(S)
      /\ Len(SubSeq(runs, 1, n)) = IF 1 <= n THEN n - 1 + 1 ELSE 0
      /\ \A i \in 1..n - 1 + 1 : SubSeq(runs, 1, n)[i] = runs[1 + i - 1]
  BY <1>2, <1>3, SubSeqProperties
<1>5. Len(Page(runs)) = n
  BY <1>2, <1>4
<1>6. \A i \in 1..n : Page(runs)[i] = runs[i]
  BY <1>2, <1>4
<1>7. DOMAIN Page(runs) = 1..n
  BY <1>2, <1>4, <1>5, LenProperties
<1> QED BY <1>1, <1>2, <1>4, <1>5, <1>6, <1>7

(* A run that is listed comes first; the others move one place down.        *)
LEMMA ListingTyped ==
  ASSUME nightly \in Seq(NightlyRun), NEW r \in NightlyRun
  PROVE  /\ Listing(r) \in Seq(NightlyRun) /\ Len(Listing(r)) \in Nat /\ Len(Listing(r)) <= Listed
         /\ DOMAIN Listing(r) = 1..Len(Listing(r)) /\ DOMAIN nightly = 1..Len(nightly)
         /\ Len(nightly) \in Nat
         /\ \A i \in 1..Len(Listing(r)) :
              IF i = 1 THEN Listing(r)[i] = r
              ELSE i - 1 \in 1..Len(nightly) /\ Listing(r)[i] = nightly[i - 1]
<1>1. <<r>> \in Seq(NightlyRun) /\ Len(<<r>>) = 1 /\ <<r>>[1] = r
  OBVIOUS
<1>2. Len(nightly) \in Nat /\ DOMAIN nightly = 1..Len(nightly)
  BY LenProperties
<1>3. /\ <<r>> \o nightly \in Seq(NightlyRun) /\ Len(<<r>> \o nightly) = 1 + Len(nightly)
      /\ \A i \in 1..1 + Len(nightly) :
           (<<r>> \o nightly)[i] = IF i <= 1 THEN <<r>>[i] ELSE nightly[i - 1]
  BY <1>1, ConcatProperties
<1>4. /\ Listing(r) \in Seq(NightlyRun) /\ Len(Listing(r)) \in Nat /\ Len(Listing(r)) <= Listed
      /\ DOMAIN Listing(r) = 1..Len(Listing(r)) /\ Len(Listing(r)) <= 1 + Len(nightly)
      /\ \A i \in 1..Len(Listing(r)) : Listing(r)[i] = (<<r>> \o nightly)[i]
  BY <1>3, PageTyped DEF Listing
<1> HIDE DEF Listing
<1>5. ASSUME NEW i \in 1..Len(Listing(r)), i # 1
      PROVE  i - 1 \in 1..Len(nightly) /\ Listing(r)[i] = nightly[i - 1]
  <2>1. i \in 1..1 + Len(nightly) /\ i - 1 \in 1..Len(nightly) /\ ~(i <= 1)
    BY <1>2, <1>4, <1>5
  <2> QED BY <1>3, <1>4, <2>1
<1>6. ASSUME 1 \in 1..Len(Listing(r)) PROVE Listing(r)[1] = r
  <2>1. 1 \in 1..1 + Len(nightly)
    BY <1>2
  <2> QED BY <1>1, <1>3, <1>4, <1>6, <2>1
<1> QED BY <1>2, <1>4, <1>5, <1>6

-----------------------------------------------------------------------------
\* the state, with what the lists and the marks contain
Typed ==
  /\ BisectTypeOK
  /\ legacy \in Seq(LegacyRun)

\* the nights follow the branch, which only moves forward
Chain ==
  /\ \A i \in DOMAIN nightly : IsAncestor(nightly[i].head, tip)
  /\ \A i, k \in DOMAIN nightly : i <= k => IsAncestor(nightly[k].head, nightly[i].head)

\* a listed run that passed did so at a commit that works
Honest ==
  /\ \A i \in DOMAIN legacy : legacy[i].passed => legacy[i].head \notin fails
  /\ \A i \in DOMAIN nightly : nightly[i].passed => nightly[i].head \notin fails

\* the range starts at the newest of them
RangeStart ==
  stage \in {"rerunning", "bisecting"} =>
    /\ good # bad /\ IsAncestor(good, bad)
    /\ IF Passing(nightly) = {} THEN good \in Heads({r \in Passing(legacy) : r.event \in Events})
       ELSE /\ good \in Heads(Passing(nightly))
            /\ \A c \in Heads(Passing(nightly)) : IsAncestor(c, good)

\* the marks of the bisection, and what no accident has turned
Marks ==
  /\ (stage # "idle" /\ clean /\ ~drift) => bad \in fails
  /\ stage = "bisecting" =>
       /\ tested.bad \in Ancestors(bad) /\ good \in tested.good
       /\ ~(drift /\ clean)
       /\ (clean /\ ~drift) => tested.bad \in fails /\ tested.good \cap fails = {}

\* the results file and the report that is made of it
Claims ==
  /\ stage \notin {"reporting", "said"} => result = {}
  /\ \A r \in result : (drift /\ clean) => r.culprit = 0
  /\ CulpritBroke
  /\ BlamesCode

BInv == Typed /\ Chain /\ Honest /\ RangeStart /\ Marks /\ Claims

(* At first nothing is listed.                                              *)
LEMMA BisectBegins == InitBisect => BInv
<1> SUFFICES ASSUME InitBisect PROVE BInv
  OBVIOUS
<1>1. 1 \in Commits /\ 0 \in 0..MaxAccidents /\ 0 <= Listed
  BY BisectAssumption DEF Commits
<1>2. nightly \in Seq([head : Commits, passed : BOOLEAN]) /\ Len(nightly) = 0 /\ DOMAIN nightly = {}
  BY DEF InitBisect
<1>3. BisectTypeOK
  BY <1>1, <1>2 DEF InitBisect, BisectTypeOK
<1>4. legacy \in Seq(LegacyRun)
  <2>1. CASE legacy = <<>>
    BY <2>1
  <2>2. ASSUME NEW r \in LegacyRun, legacy = <<r>> PROVE legacy \in Seq(LegacyRun)
    BY <2>2
  <2>3. QueueRuns \subseteq LegacyRun
    BY BisectAssumption DEF LegacyRun, Commits
  <2> QED BY <2>1, <2>2, <2>3 DEF InitBisect
<1>5. Chain /\ Honest
  BY <1>2 DEF Chain, Honest, InitBisect
<1>6. RangeStart /\ Marks /\ Claims
  BY DEF InitBisect, RangeStart, Marks, Claims, CulpritBroke, BlamesCode
<1> QED BY <1>3, <1>4, <1>5, <1>6 DEF BInv, Typed

(* What is true of commits, lists and marks that a step leaves alone.       *)
LEMMA SameHistory ==
  ASSUME UNCHANGED history
  PROVE  /\ \A c : Ancestors(c)' = Ancestors(c)
         /\ \A a, c : IsAncestor(a, c)' = IsAncestor(a, c)
BY DEF history, Ancestors, IsAncestor

(* The chain grows only at the head of the branch: a push, the runs of the  *)
(* night and everything else keep it.                                       *)
LEMMA Chain_Kept == BInv /\ [NextBisect]_bisectVars => Chain' /\ Honest'
<1> SUFFICES ASSUME BInv, [NextBisect]_bisectVars PROVE Chain' /\ Honest'
  OBVIOUS
<1> USE DEF BInv
<1>1. /\ UNCHANGED history /\ parents \in Histories
      /\ nightly \in Seq(NightlyRun) /\ tip \in Commits /\ DOMAIN nightly = 1..Len(nightly)
      /\ \A i \in DOMAIN nightly : nightly[i] \in NightlyRun
  <2>1. UNCHANGED history
    BY DEF NextBisect, bisectVars, history, Push, Drift, Pass, Fail, Search, Rerun, Step, Blame, Expire, Tell, Done
  <2>2. parents \in Histories /\ nightly \in Seq(NightlyRun) /\ tip \in Commits
    BY DEF Typed, BisectTypeOK, NightlyRun
  <2> QED BY <2>1, <2>2, LenProperties, ElementOfSeq
<1>2. CASE UNCHANGED <<nightly, tip>>
  BY <1>1, <1>2, SameHistory DEF Chain, Honest, history
<1>3. ASSUME NEW c \in Commits, Push(c) PROVE Chain' /\ Honest'
  <2>1. nightly' = nightly /\ tip' = c /\ tip \in Ancestors(c)
    BY <1>3 DEF Push, IsAncestor
  <2>2. \A i \in DOMAIN nightly : nightly[i].head \in Ancestors(c)
    BY <1>1, <2>1, AncestorTransitive DEF Chain, IsAncestor
  <2> QED BY <1>1, <2>1, <2>2, SameHistory DEF Chain, Honest, history, IsAncestor
<1>4. ASSUME NEW passed \in BOOLEAN, passed => Works(tip), tip' = tip,
             nightly' = Listing([head |-> tip, passed |-> passed])
      PROVE  Chain' /\ Honest'
  <2> DEFINE r == [head |-> tip, passed |-> passed]
  <2>1. r \in NightlyRun /\ r.head = tip /\ (r.passed => tip \notin fails)
    BY <1>1, <1>4 DEF NightlyRun, Works
  <2> HIDE DEF r
  <2>2. /\ nightly' = Listing(r) /\ DOMAIN Listing(r) = 1..Len(Listing(r)) /\ Len(Listing(r)) \in Nat
        /\ Len(nightly) \in Nat
        /\ \A i \in 1..Len(Listing(r)) :
             IF i = 1 THEN Listing(r)[i] = r
             ELSE i - 1 \in 1..Len(nightly) /\ Listing(r)[i] = nightly[i - 1]
    BY <1>1, <1>4, <2>1, ListingTyped DEF r
  <2> DEFINE L == Listing(r)
  <2> HIDE DEF L
  <2>3. tip \in Ancestors(tip)
    BY <1>1, AncestorSelf
  <2>4. \A i \in DOMAIN L : L[i].head \in Ancestors(tip)
    BY <1>1, <2>1, <2>2, <2>3 DEF L, Chain, IsAncestor
  <2>5. ASSUME NEW i \in DOMAIN L, NEW k \in DOMAIN L, i <= k
        PROVE  L[k].head \in Ancestors(L[i].head)
    <3>1. CASE i = 1
      BY <2>1, <2>2, <2>4, <3>1 DEF L
    <3>2. CASE i # 1
      <4>1. i \in 1..Len(L) /\ k \in 1..Len(L) /\ i # 1 /\ k # 1 /\ i - 1 <= k - 1
        BY <2>2, <2>5, <3>2 DEF L
      <4>2. /\ i - 1 \in DOMAIN nightly /\ L[i] = nightly[i - 1]
            /\ k - 1 \in DOMAIN nightly /\ L[k] = nightly[k - 1]
        BY <1>1, <2>2, <4>1 DEF L
      <4> QED BY <4>1, <4>2 DEF Chain, IsAncestor
    <3> QED BY <3>1, <3>2
  <2>6. \A i \in DOMAIN L : L[i].passed => L[i].head \notin fails
    BY <1>1, <2>1, <2>2 DEF L, Honest
  <2>7. nightly' = L
    BY <2>2 DEF L
  <2> QED BY <1>1, <1>4, <2>4, <2>5, <2>6, <2>7, SameHistory DEF Chain, Honest, history, IsAncestor
<1>5. CASE \E passed \in BOOLEAN : Pass(passed)
  BY <1>4, <1>5 DEF Pass
<1>6. CASE Fail
  BY <1>4, <1>6 DEF Fail
<1> QED BY <1>2, <1>3, <1>5, <1>6
    DEF NextBisect, bisectVars, Drift, Search, Rerun, Step, Blame, Expire, Tell, Done

(* last_green returns the newest commit at which a listed night passed      *)
(* among the ancestors of the failing one, or a commit of the merge queue   *)
(* if no night did.                                                         *)
LEMMA LastGreenFound ==
  ASSUME Typed, Chain
  PROVE  /\ LastGreen \in {0} \cup Commits
         /\ LastGreen # 0 =>
              /\ IsAncestor(LastGreen, bad)
              /\ IF Passing(nightly) = {}
                 THEN LastGreen \in Heads({r \in Passing(legacy) : r.event \in Events})
                 ELSE /\ LastGreen \in Heads(Passing(nightly))
                      /\ \A c \in Heads(Passing(nightly)) : IsAncestor(c, LastGreen)
<1> DEFINE recent == FirstHead(Page(nightly), Passing(nightly))
           queued == {r \in Passing(legacy) : r.event \in Events}
           earlier == FirstHead(Page(legacy), queued)
<1>1. LastGreen = IF recent # 0 THEN recent ELSE earlier
  BY DEF LastGreen
<1>2. nightly \in Seq(NightlyRun) /\ Len(nightly) <= Listed /\ legacy \in Seq(LegacyRun)
  BY DEF Typed, BisectTypeOK, NightlyRun
<1>3. /\ DOMAIN Page(nightly) = DOMAIN nightly
      /\ \A i \in DOMAIN nightly : Page(nightly)[i] = nightly[i] /\ nightly[i] \in NightlyRun
  <2>1. /\ DOMAIN Page(nightly) = 1..Len(Page(nightly)) /\ DOMAIN nightly = 1..Len(nightly)
        /\ Len(Page(nightly)) = Len(nightly)
        /\ \A i \in 1..Len(Page(nightly)) : Page(nightly)[i] = nightly[i]
    BY <1>2, PageTyped
  <2> QED BY <1>2, <2>1, ElementOfSeq
<1>4. /\ DOMAIN Page(legacy) \subseteq DOMAIN legacy
      /\ \A i \in DOMAIN Page(legacy) : Page(legacy)[i] = legacy[i] /\ legacy[i] \in LegacyRun
  <2>1. /\ DOMAIN Page(legacy) = 1..Len(Page(legacy)) /\ DOMAIN legacy = 1..Len(legacy)
        /\ Len(Page(legacy)) \in Nat /\ Len(legacy) \in Nat /\ Len(Page(legacy)) <= Len(legacy)
        /\ \A i \in 1..Len(Page(legacy)) : Page(legacy)[i] = legacy[i]
    BY <1>2, PageTyped
  <2>2. \A i \in 1..Len(legacy) : legacy[i] \in LegacyRun
    BY <1>2, ElementOfSeq
  <2> QED BY <2>1, <2>2
<1>5. \A c \in Commits : c # 0
  BY DEF Commits
<1>6. CASE /\ recent = 0
           /\ \A i \in DOMAIN Page(nightly) : Page(nightly)[i] \notin Passing(nightly)
  <2>1. Passing(nightly) = {}
    BY <1>3, <1>6 DEF Passing, ToSet
  <2>2. LastGreen = earlier
    BY <1>1, <1>6
  <2>3. \/ earlier = 0
        \/ \E i \in DOMAIN Page(legacy) :
             Page(legacy)[i] \in queued /\ earlier = Page(legacy)[i].head
    <3>1. Page(legacy) \in Seq(LegacyRun)
      BY <1>2, PageTyped
    <3> HIDE DEF queued
    <3> QED BY <3>1, FirstHeadFound
  <2> HIDE DEF earlier
  <2>4. CASE earlier = 0
    BY <2>1, <2>2, <2>4
  <2>5. ASSUME NEW i \in DOMAIN Page(legacy),
               Page(legacy)[i] \in queued, earlier = Page(legacy)[i].head
        PROVE  earlier \in Commits /\ IsAncestor(earlier, bad) /\ earlier \in Heads(queued)
    BY <1>4, <2>5 DEF LegacyRun, Passing, Heads
  <2> QED BY <2>1, <2>2, <2>3, <2>4, <2>5
<1>7. ASSUME NEW i \in DOMAIN Page(nightly),
             Page(nightly)[i] \in Passing(nightly), recent = Page(nightly)[i].head,
             \A k \in DOMAIN Page(nightly) : Page(nightly)[k] \in Passing(nightly) => i <= k
      PROVE  /\ LastGreen \in Commits /\ IsAncestor(LastGreen, bad) /\ Passing(nightly) # {}
             /\ LastGreen \in Heads(Passing(nightly))
             /\ \A c \in Heads(Passing(nightly)) : IsAncestor(c, LastGreen)
  <2> HIDE DEF recent
  <2>1. i \in DOMAIN nightly /\ nightly[i] \in Passing(nightly) /\ recent = nightly[i].head
        /\ nightly[i].head \in Commits
    BY <1>3, <1>7 DEF NightlyRun
  <2>2. LastGreen = nightly[i].head
    BY <1>1, <1>5, <2>1
  <2>3. IsAncestor(nightly[i].head, bad) /\ nightly[i].head \in Heads(Passing(nightly))
    BY <2>1 DEF Passing, Heads
  <2>4. ASSUME NEW c \in Heads(Passing(nightly)) PROVE IsAncestor(c, nightly[i].head)
    <3>1. PICK r \in Passing(nightly) : c = r.head
      BY DEF Heads
    <3>2. PICK k \in DOMAIN nightly : r = nightly[k]
      BY <3>1 DEF Passing, ToSet
    <3>3. i <= k
      BY <1>3, <1>7, <3>1, <3>2
    <3> QED BY <2>1, <3>1, <3>2, <3>3 DEF Chain
  <2> QED BY <2>1, <2>2, <2>3, <2>4
<1>8. \/ /\ recent = 0
         /\ \A i \in DOMAIN Page(nightly) : Page(nightly)[i] \notin Passing(nightly)
      \/ \E i \in DOMAIN Page(nightly) :
           /\ Page(nightly)[i] \in Passing(nightly) /\ recent = Page(nightly)[i].head
           /\ \A k \in DOMAIN Page(nightly) : Page(nightly)[k] \in Passing(nightly) => i <= k
  <2>1. Page(nightly) \in Seq(NightlyRun)
    BY <1>2, PageTyped
  <2> QED BY <2>1, FirstHeadFound
<1> QED BY <1>6, <1>7, <1>8

(* An accident ends the innocence of a run; without one the status of the   *)
(* command tells whether it works.                                          *)
LEMMA RunTaken ==
  ASSUME BisectTypeOK, NEW c, NEW status, Runs(c, status)
  PROVE  /\ accidents' \in 0..MaxAccidents
         /\ clean' \in BOOLEAN
         /\ clean' => clean /\ (Works(c) <=> status = 0)
<1>1. accidents \in 0..MaxAccidents /\ MaxAccidents \in Nat /\ clean \in BOOLEAN
  BY BisectAssumption DEF BisectTypeOK
<1>2. accidents' \in 0..MaxAccidents
  BY <1>1 DEF Runs
<1>3. clean' \in BOOLEAN
  BY <1>1, Zenon DEF Runs
<1>4. clean' => clean /\ (Works(c) <=> status = 0)
  BY Zenon DEF Runs
<1> QED BY <1>2, <1>3, <1>4

(* A step of git bisect marks one of the suspects, and bad whatever the     *)
(* command returned: there is no status that skips a commit.                *)
LEMMA StepTaken ==
  ASSUME BisectTypeOK, Step
  PROVE  \E c \in Suspects \ {tested.bad}, status \in Statuses :
           /\ c \in Commits /\ c \in Ancestors(tested.bad)
           /\ Runs(c, status)
           /\ \/ status = 0 /\ tested' = [good |-> tested.good \cup {c}, bad |-> tested.bad]
              \/ status # 0 /\ tested' = [good |-> tested.good, bad |-> c]
           /\ stage' = stage
<1>1. PICK c \in Suspects \ {tested.bad}, status \in Statuses :
        /\ Runs(c, status)
        /\ LET mark == Marked(RunCommand(status))
           IN CASE mark = "good" ->
                     tested' = [tested EXCEPT !.good = @ \cup {c}] /\ UNCHANGED stage
                [] mark = "bad" -> tested' = [tested EXCEPT !.bad = c] /\ UNCHANGED stage
                [] OTHER -> stage' = "reporting" /\ UNCHANGED tested
  BY DEF Step
<1>2. tested \in [good : SUBSET Commits, bad : Commits]
  BY DEF BisectTypeOK
<1>3. c \in Ancestors(tested.bad) /\ c \in Commits
  <2>1. c \in Ancestors(tested.bad) /\ tested.bad \in Commits
    BY <1>2, Zenon DEF Suspects
  <2>2. parents \in Histories
    BY DEF BisectTypeOK
  <2> QED BY <2>1, <2>2, AncestorSelf
<1>4. CASE status = 0
  <2>1. Marked(RunCommand(status)) = "good"
    BY <1>4 DEF RunCommand, Marked
  <2>2. tested' = [tested EXCEPT !.good = @ \cup {c}] /\ stage' = stage
    BY <1>1, <2>1
  <2>3. tested' = [good |-> tested.good \cup {c}, bad |-> tested.bad]
    BY <1>2, <2>2
  <2> QED BY <1>1, <1>3, <1>4, <2>2, <2>3
<1>5. CASE status # 0
  <2>1. Marked(RunCommand(status)) = "bad"
    BY <1>5 DEF RunCommand, Marked
  <2>2. tested' = [tested EXCEPT !.bad = c] /\ stage' = stage
    BY <1>1, <2>1
  <2>3. tested' = [good |-> tested.good, bad |-> c]
    BY <1>2, <2>2
  <2> QED BY <1>1, <1>3, <1>5, <2>2, <2>3
<1> QED BY <1>4, <1>5

(* The types hold at every step; last_green finds a commit or none.         *)
LEMMA Typed_Kept == BInv /\ [NextBisect]_bisectVars => Typed'
<1> SUFFICES ASSUME BInv, [NextBisect]_bisectVars PROVE Typed'
  OBVIOUS
<1>1. Typed /\ BisectTypeOK /\ Chain /\ UNCHANGED history
  BY DEF BInv, Typed, NextBisect, bisectVars, history, Push, Drift, Pass, Fail, Search, Rerun, Step, Blame,
         Expire, Tell, Done
<1>2. SUFFICES BisectTypeOK'
  BY <1>1 DEF Typed, history
<1>3. UNCHANGED <<parents, fails>>
  BY <1>1 DEF history
<1>3a. accidents \in 0..MaxAccidents /\ MaxAccidents \in Nat
  BY <1>1, BisectAssumption DEF BisectTypeOK
<1>4. CASE UNCHANGED bisectVars
  BY <1>1, <1>4 DEF BisectTypeOK, bisectVars
<1>5. CASE \E c \in Commits : Push(c)
  BY <1>1, <1>3, <1>5 DEF BisectTypeOK, Push
<1>6. CASE Drift
  BY <1>1, <1>3, <1>6, BisectAssumption DEF BisectTypeOK, Drift
<1>7. ASSUME NEW passed \in BOOLEAN
      PROVE  LET l == Listing([head |-> tip, passed |-> passed])
             IN  l \in Seq([head : Commits, passed : BOOLEAN]) /\ Len(l) <= Listed
  <2>1. nightly \in Seq(NightlyRun) /\ [head |-> tip, passed |-> passed] \in NightlyRun
    BY <1>1 DEF BisectTypeOK, NightlyRun
  <2>2. \A r \in NightlyRun : Listing(r) \in Seq(NightlyRun) /\ Len(Listing(r)) <= Listed
    BY <2>1, ListingTyped
  <2> QED BY <2>1, <2>2 DEF NightlyRun
<1>8. ASSUME NEW passed \in BOOLEAN, Pass(passed) PROVE BisectTypeOK'
  <2>1. nightly' \in Seq([head : Commits, passed : BOOLEAN]) /\ Len(nightly') <= Listed
    BY <1>7, <1>8 DEF Pass
  <2> QED BY <1>1, <1>3, <1>8, <2>1 DEF BisectTypeOK, Pass
<1>9. CASE Fail
  <2>1. nightly' \in Seq([head : Commits, passed : BOOLEAN]) /\ Len(nightly') <= Listed
    BY <1>7, <1>9 DEF Fail
  <2>2. accidents' \in 0..MaxAccidents /\ bad' = tip /\ stage' = "searching"
    BY <1>3a, <1>9 DEF Fail
  <2>2a. clean' \in BOOLEAN
    BY <1>9, Zenon DEF Fail
  <2>3. UNCHANGED <<tip, drift, good, tested, result>>
    BY <1>9 DEF Fail
  <2> QED BY <1>1, <1>3, <2>1, <2>2, <2>2a, <2>3 DEF BisectTypeOK
<1>10. CASE Search
  <2>1. LastGreen \in {0} \cup Commits
    BY <1>1, LastGreenFound
  <2>2. \A b \in BOOLEAN :
          [good |-> LastGreen, culprit |-> 0, note |-> b]
            \in [good : {0} \cup Commits, culprit : {0} \cup Commits, note : BOOLEAN]
    BY <2>1
  <2>3. /\ UNCHANGED <<nightly, tip, drift, bad, tested, said, accidents, clean>>
        /\ good' = LastGreen /\ stage' \in {"reporting", "rerunning"}
    BY <1>10 DEF Search
  <2>4. \/ result' = result
        \/ \E b \in BOOLEAN : result' = {[good |-> LastGreen, culprit |-> 0, note |-> b]}
    BY <1>10 DEF Search
  <2>5. \A r \in result' :
           r \in [good : {0} \cup Commits, culprit : {0} \cup Commits, note : BOOLEAN]
    BY <1>1, <2>2, <2>4 DEF BisectTypeOK
  <2> QED BY <1>1, <1>3, <2>1, <2>3, <2>5 DEF BisectTypeOK
<1>11. CASE Rerun \/ Step \/ Blame
  <2>1. /\ UNCHANGED <<nightly, tip, drift, bad, good, said>>
        /\ stage' \in {"bisecting", "reporting"}
    BY <1>1, <1>11 DEF Rerun, Step, Blame, BisectTypeOK
  <2>2. clean' \in BOOLEAN /\ accidents' \in 0..MaxAccidents
    <3>1. CASE Rerun
      BY <1>1, <3>1, RunTaken DEF Rerun
    <3>2. CASE Step
      BY <1>1, <3>2, RunTaken, StepTaken
    <3>3. CASE Blame
      BY <1>1, <3>3 DEF Blame, BisectTypeOK
    <3> QED BY <1>11, <3>1, <3>2, <3>3
  <2>3. tested' \in [good : SUBSET Commits, bad : Commits]
    <3>1. CASE Rerun
      <4>1. good # 0 /\ good \in {0} \cup Commits /\ bad \in Commits
        BY <1>1, <3>1 DEF Rerun, BisectTypeOK, BInv, RangeStart, IsAncestor, Ancestors, Commits
      <4> QED BY <1>1, <3>1, <4>1 DEF Rerun, BisectTypeOK
    <3>2. CASE Step
      BY <1>1, <3>2, StepTaken DEF BisectTypeOK
    <3>3. CASE Blame
      BY <1>1, <3>3 DEF Blame, BisectTypeOK
    <3> QED BY <1>11, <3>1, <3>2, <3>3
  <2>4. \A r \in result' :
           r \in [good : {0} \cup Commits, culprit : {0} \cup Commits, note : BOOLEAN]
    <3>1. /\ good \in {0} \cup Commits /\ tested.bad \in Commits
          /\ \A r \in result :
               r \in [good : {0} \cup Commits, culprit : {0} \cup Commits, note : BOOLEAN]
      BY <1>1 DEF BisectTypeOK
    <3>2. /\ [good |-> good, culprit |-> 0, note |-> TRUE]
               \in [good : {0} \cup Commits, culprit : {0} \cup Commits, note : BOOLEAN]
          /\ [good |-> good, culprit |-> tested.bad, note |-> FALSE]
               \in [good : {0} \cup Commits, culprit : {0} \cup Commits, note : BOOLEAN]
      BY <3>1
    <3>3. \/ result' = result
          \/ result' = {[good |-> good, culprit |-> 0, note |-> TRUE]}
          \/ result' = {[good |-> good, culprit |-> tested.bad, note |-> FALSE]}
      BY <1>11 DEF Rerun, Step, Blame
    <3> QED BY <3>1, <3>2, <3>3
  <2> QED BY <1>1, <1>3, <2>1, <2>2, <2>3, <2>4 DEF BisectTypeOK
<1>12. CASE Expire
  <2>1. accidents' \in 0..MaxAccidents /\ stage' = "reporting"
    BY <1>3a, <1>12 DEF Expire
  <2>2. clean' \in BOOLEAN
    BY <1>12, Zenon DEF Expire
  <2> QED BY <1>1, <1>3, <1>12, <2>1, <2>2 DEF BisectTypeOK, Expire
<1>13. CASE Tell
  BY <1>1, <1>3, <1>13 DEF BisectTypeOK, Tell
<1>14. CASE Done
  <2>1. 1 \in Commits
    BY BisectAssumption DEF Commits
  <2> QED BY <1>1, <1>3, <1>14, <2>1 DEF BisectTypeOK, Done
<1> QED BY <1>4, <1>5, <1>6, <1>8, <1>9, <1>10, <1>11, <1>12, <1>13, <1>14 DEF NextBisect

(* The good commit is looked up once; while the command is rerun and        *)
(* bisected no run is listed and the range stays what it was.               *)
LEMMA Range_Kept == BInv /\ [NextBisect]_bisectVars => RangeStart'
<1> SUFFICES ASSUME BInv, [NextBisect]_bisectVars PROVE RangeStart'
  OBVIOUS
<1>1. UNCHANGED history /\ RangeStart /\ Typed /\ Chain
  BY DEF BInv, NextBisect, bisectVars, history, Push, Drift, Pass, Fail, Search, Rerun, Step, Blame, Expire,
         Tell, Done
<1>2. ASSUME bad' = bad, nightly' = nightly
      PROVE  /\ Passing(nightly)' = Passing(nightly) /\ Passing(legacy)' = Passing(legacy)
             /\ \A a, c : IsAncestor(a, c)' = IsAncestor(a, c)
  BY <1>1, <1>2, SameHistory DEF Passing, history
<1>3. CASE stage' \notin {"rerunning", "bisecting"}
  BY <1>3 DEF RangeStart
<1>4. CASE UNCHANGED <<nightly, bad, good>> /\ stage \in {"rerunning", "bisecting"}
  <2>1. Passing(nightly)' = Passing(nightly) /\ Passing(legacy)' = Passing(legacy)
    BY <1>2, <1>4
  <2>2. \A a, c : IsAncestor(a, c)' = IsAncestor(a, c)
    BY <1>2, <1>4
  <2>3. IsAncestor(good, bad)' = IsAncestor(good, bad)
    BY <1>1, <1>4 DEF IsAncestor, Ancestors, history
  <2>4. \A c : IsAncestor(c, good)' = IsAncestor(c, good)
    BY <1>1, <1>4 DEF IsAncestor, Ancestors, history
  <2> QED BY <1>1, <1>4, <2>1, <2>3, <2>4 DEF RangeStart, Heads
<1>5. CASE Search /\ stage' = "rerunning"
  <2>1. good' = LastGreen /\ LastGreen # 0 /\ LastGreen # bad /\ bad' = bad /\ nightly' = nightly
    BY <1>5 DEF Search
  <2>2. /\ IsAncestor(LastGreen, bad)
        /\ IF Passing(nightly) = {}
           THEN LastGreen \in Heads({r \in Passing(legacy) : r.event \in Events})
           ELSE /\ LastGreen \in Heads(Passing(nightly))
                /\ \A c \in Heads(Passing(nightly)) : IsAncestor(c, LastGreen)
    BY <1>1, <2>1, LastGreenFound
  <2>3. Passing(nightly)' = Passing(nightly) /\ Passing(legacy)' = Passing(legacy)
    BY <1>2, <2>1
  <2>4. IsAncestor(good, bad)' = IsAncestor(LastGreen, bad)
    BY <1>1, <2>1 DEF IsAncestor, Ancestors, history
  <2>5. \A c : IsAncestor(c, good)' = IsAncestor(c, LastGreen)
    BY <1>1, <2>1 DEF IsAncestor, Ancestors, history
  <2> HIDE DEF LastGreen
  <2> QED BY <2>1, <2>2, <2>3, <2>4, <2>5 DEF RangeStart, Heads
<1> QED BY <1>3, <1>4, <1>5
    DEF NextBisect, bisectVars, Push, Drift, Pass, Fail, Search, Rerun, Step, Blame, Expire, Tell, Done

(* Marks tell the truth as long as no accident happens, and with a broken   *)
(* toolchain the rerun at the good commit lets no bisection begin.          *)
LEMMA Marks_Kept == BInv /\ [NextBisect]_bisectVars => Marks'
<1> SUFFICES ASSUME BInv, [NextBisect]_bisectVars PROVE Marks'
  OBVIOUS
<1>1. /\ UNCHANGED <<parents, fails>> /\ Marks /\ Typed /\ BisectTypeOK /\ RangeStart
      /\ parents \in Histories /\ bad \in Commits
  <2>1. UNCHANGED history
    BY DEF NextBisect, bisectVars, history, Push, Drift, Pass, Fail, Search, Rerun, Step, Blame, Expire, Tell, Done
  <2> QED BY <2>1 DEF BInv, Typed, BisectTypeOK, history
<1>2. \A c : Ancestors(c)' = Ancestors(c)
  BY <1>1 DEF Ancestors
<1>3. CASE stage' = "idle"
  BY <1>3 DEF Marks
<1>4. CASE UNCHANGED <<bad, good, tested, stage>> /\ drift' /\ ~clean'
  BY <1>1, <1>2, <1>4 DEF Marks, Ancestors
<1>5. CASE /\ UNCHANGED <<bad, drift>> /\ stage # "idle" /\ (clean' => clean)
           /\ \/ stage' \in {"searching", "rerunning", "reporting", "said"}
              \/ UNCHANGED <<good, tested, stage>>
  <2>1. CASE stage' \in {"searching", "rerunning", "reporting", "said"}
    BY <1>1, <1>5, <2>1 DEF Marks
  <2>2. CASE UNCHANGED <<good, tested, stage>>
    BY <1>1, <1>5, <2>2 DEF Marks, Ancestors
  <2> QED BY <1>5, <2>1, <2>2
<1>6. CASE Fail
  <2>1. stage' = "searching" /\ bad' = tip /\ drift' = drift
    BY <1>6 DEF Fail
  <2>2. clean' /\ ~drift' => tip \in fails
    BY <1>6, <2>1 DEF Fail, Works
  <2> QED BY <1>1, <2>1, <2>2 DEF Marks
<1>7. CASE Rerun /\ stage' = "bisecting"
  <2>1. PICK status \in Statuses : Runs(good, status) /\ RunCommand(status) = 0
    BY <1>7 DEF Rerun
  <2>2. tested' = [good |-> {good}, bad |-> bad] /\ UNCHANGED <<good, bad, drift>> /\ stage = "rerunning"
    BY <1>7 DEF Rerun
  <2>3. clean' => clean /\ ~drift /\ good \notin fails
    BY <1>1, <2>1, RunTaken DEF RunCommand, Works
  <2>4. bad \in Ancestors(bad)
    BY <1>1, AncestorSelf
  <2>5. tested'.bad = bad /\ tested'.good = {good}
    BY <2>2
  <2>6. bad \in Ancestors(bad)'
    BY <1>2, <2>2, <2>4
  <2>7. clean' => bad \in fails
    BY <1>1, <2>2, <2>3 DEF Marks
  <2>8. Ancestors(bad)' = Ancestors(bad)
    BY <1>1, <2>2 DEF Ancestors
  <2> QED BY <1>1, <1>7, <2>2, <2>3, <2>4, <2>5, <2>7, <2>8 DEF Marks
<1>8. CASE Step
  <2>1. PICK c \in Suspects \ {tested.bad}, status \in Statuses :
          /\ c \in Commits /\ c \in Ancestors(tested.bad) /\ Runs(c, status)
          /\ \/ status = 0 /\ tested' = [good |-> tested.good \cup {c}, bad |-> tested.bad]
             \/ status # 0 /\ tested' = [good |-> tested.good, bad |-> c]
          /\ stage' = stage
    BY <1>1, <1>8, StepTaken
  <2>2. UNCHANGED <<good, bad, drift>> /\ stage = "bisecting"
    BY <1>8 DEF Step
  <2>3. clean' => clean /\ (Works(c) <=> status = 0)
    BY <1>1, <2>1, RunTaken
  <2>4. Ancestors(bad)' = Ancestors(bad)
    BY <1>1, <2>2 DEF Ancestors
  <2>5. tested.bad \in Ancestors(bad) /\ c \in Ancestors(bad)
    BY <1>1, <2>1, <2>2, AncestorTransitive DEF Marks
  <2>6. tested'.bad \in Ancestors(bad) /\ good \in tested'.good
    BY <1>1, <2>1, <2>2, <2>5 DEF Marks
  <2>7. clean' => ~drift /\ tested'.bad \in fails /\ tested'.good \cap fails = {}
    BY <1>1, <2>1, <2>2, <2>3 DEF Marks, Works
  <2>8. clean' => bad \in fails
    BY <1>1, <2>2, <2>3, <2>7 DEF Marks
  <2> QED BY <1>1, <2>1, <2>2, <2>4, <2>6, <2>7, <2>8 DEF Marks
<1>9. CASE UNCHANGED bisectVars
  BY <1>1, <1>3, <1>5, <1>9 DEF bisectVars
<1>10. CASE Drift
  BY <1>3, <1>4, <1>10 DEF Drift
<1>11. CASE \/ \E c \in Commits : Push(c)
            \/ \E passed \in BOOLEAN : Pass(passed)
            \/ Done
  BY <1>3, <1>11 DEF Push, Pass, Done
<1>12. CASE Search \/ Blame \/ Expire \/ Tell
  BY <1>5, <1>12 DEF Search, Blame, Expire, Tell
<1>13. CASE Rerun /\ stage' # "bisecting"
  <2>1. \E status \in Statuses : Runs(good, status)
    BY <1>13 DEF Rerun
  <2>2. clean' => clean
    BY <1>1, <2>1, RunTaken
  <2> QED BY <1>5, <1>13, <2>2 DEF Rerun
<1> QED BY <1>6, <1>7, <1>8, <1>9, <1>10, <1>11, <1>12, <1>13 DEF NextBisect

(* A report names a first bad commit only if the results file does.         *)
LEMMA ReportNames ==
  ASSUME \A r \in result : r.culprit = 0
  PROVE  "first bad commit" \notin FailureReport
BY DEF FailureReport

(* What the results file claims: the commit that is blamed is a suspect,    *)
(* the last one, so that every parent of it is an ancestor of a good mark.  *)
LEMMA Blame_Claims ==
  ASSUME BInv, Blame
  PROVE  /\ \A r \in result' : (drift' /\ clean') => r.culprit = 0
         /\ CulpritBroke'
<1>1. /\ UNCHANGED <<parents, fails, bad, drift, clean>> /\ parents \in Histories
      /\ result' = {[good |-> good, culprit |-> tested.bad, note |-> FALSE]}
      /\ stage = "bisecting" /\ Suspects = {tested.bad}
      /\ tested.bad \in Commits /\ tested.good \subseteq Commits /\ bad \in Commits
  BY DEF Blame, history, BInv, Typed, BisectTypeOK
<1>2. /\ tested.bad \in Ancestors(bad) /\ good \in tested.good
      /\ ~(drift /\ clean)
      /\ (clean /\ ~drift) => tested.bad \in fails /\ tested.good \cap fails = {}
  BY <1>1 DEF BInv, Marks
<1>3. ~IsAncestor(tested.bad, good)
  BY <1>1, <1>2 DEF Suspects, IsAncestor
<1>4. ASSUME NEW p \in parents[tested.bad] PROVE \E c \in tested.good : IsAncestor(p, c)
  <2>1. p \in Ancestors(tested.bad) /\ p # tested.bad
    BY <1>1, AncestorParent
  <2>2. p \notin Suspects
    BY <1>1, <2>1
  <2> QED BY <2>1, <2>2 DEF Suspects, IsAncestor
<1>5. /\ Ancestors(bad)' = Ancestors(bad)
      /\ IsAncestor(tested.bad, good) = (tested.bad \in Ancestors(good))
      /\ \A c : Ancestors(c)' = Ancestors(c)
  BY <1>1 DEF Ancestors, IsAncestor
<1>6. ASSUME clean, ~drift
      PROVE  /\ tested.bad \in fails \cap Ancestors(bad)
             /\ ~IsAncestor(tested.bad, good)
             /\ \A p \in parents[tested.bad] : \E c \in Commits \ fails : IsAncestor(p, c)
  BY <1>1, <1>2, <1>3, <1>4, <1>6
<1>7. CulpritBroke'
  <2> SUFFICES ASSUME clean', ~drift', NEW r \in result'
               PROVE  /\ r.culprit \in fails' \cap Ancestors(bad)'
                      /\ ~IsAncestor(r.culprit, r.good)'
                      /\ \A p \in parents'[r.culprit] :
                           \E c \in Commits \ fails' : IsAncestor(p, c)'
    BY DEF CulpritBroke
  <2>1. r.culprit = tested.bad /\ r.good = good
    BY <1>1
  <2>2. \A a, c : IsAncestor(a, c)' = IsAncestor(a, c)
    BY <1>1 DEF IsAncestor, Ancestors
  <2> QED BY <1>1, <1>5, <1>6, <2>1, <2>2
<1> QED BY <1>1, <1>2, <1>7

(* The good commit of a range is one where the command worked.              *)
LEMMA GoodWorked ==
  ASSUME Typed, Honest, RangeStart, stage = "rerunning"
  PROVE  good \notin fails
<1>1. CASE Passing(nightly) = {}
  <2>1. PICK r \in Passing(legacy) : good = r.head
    BY <1>1 DEF RangeStart, Heads
  <2> QED BY <2>1 DEF Passing, ToSet, Honest
<1>2. CASE Passing(nightly) # {}
  <2>1. PICK r \in Passing(nightly) : good = r.head
    BY <1>2 DEF RangeStart, Heads
  <2> QED BY <2>1 DEF Passing, ToSet, Honest
<1> QED BY <1>1, <1>2

(* What the report claims stays true until the run is over.                 *)
LEMMA Claims_Kept == BInv /\ [NextBisect]_bisectVars => Claims'
<1> SUFFICES ASSUME BInv, [NextBisect]_bisectVars PROVE Claims'
  OBVIOUS
<1>1. UNCHANGED <<parents, fails, legacy>> /\ Claims /\ Typed /\ BisectTypeOK
  <2>1. UNCHANGED history
    BY DEF NextBisect, bisectVars, history, Push, Drift, Pass, Fail, Search, Rerun, Step, Blame, Expire, Tell, Done
  <2> QED BY <2>1 DEF BInv, Typed, history
<1>2. \A a, c : IsAncestor(a, c)' = IsAncestor(a, c)
  BY <1>1 DEF IsAncestor, Ancestors
<1>3. CASE result' = {} /\ (stage' # "said" \/ ~drift' \/ ~clean')
  BY <1>3 DEF Claims, CulpritBroke, BlamesCode
<1>4. CASE ~clean' /\ result' = result /\ (stage' \notin {"reporting", "said"} => result = {})
  BY <1>4 DEF Claims, CulpritBroke, BlamesCode
<1>5. CASE /\ UNCHANGED <<result, bad, drift>> /\ (clean' => clean)
           /\ stage' \notin {"reporting", "said"} => result = {}
           /\ BlamesCode'
  <2>1. CulpritBroke'
    <3>1. Ancestors(bad)' = Ancestors(bad)
      BY <1>1, <1>5 DEF Ancestors
    <3> QED BY <1>1, <1>2, <1>5, <3>1 DEF Claims, CulpritBroke
  <2> QED BY <1>1, <1>5, <2>1 DEF Claims
<1>6. CASE UNCHANGED bisectVars
  BY <1>1, <1>5, <1>6 DEF bisectVars, Claims, BlamesCode
<1>7. CASE \/ \E c \in Commits : Push(c)
           \/ \E passed \in BOOLEAN : Pass(passed)
           \/ Fail \/ Done
  <2>1. stage' # "said" /\ result' = {}
    BY <1>1, <1>7 DEF Push, Pass, Fail, Done, Claims
  <2> QED BY <1>3, <2>1
<1>8. CASE Drift
  <2>1. stage' = stage /\ result' = result /\ clean' = (stage = "idle")
    BY <1>8 DEF Drift
  <2>2. CASE stage = "idle"
    BY <1>1, <1>3, <2>1, <2>2 DEF Claims
  <2>3. CASE stage # "idle"
    BY <1>1, <1>4, <2>1, <2>3 DEF Claims
  <2> QED BY <2>2, <2>3
<1>9. CASE Search
  <2>1. CASE LastGreen \in {0, bad}
    <3>1. /\ result' = {[good |-> LastGreen, culprit |-> 0, note |-> LastGreen = bad]}
          /\ stage' = "reporting" /\ bad' = bad
      BY <1>9, <2>1 DEF Search
    <3>2. \A r \in result' : r.culprit = 0 /\ r.good \in {0, bad}
      BY <2>1, <3>1
    <3> QED BY <3>1, <3>2 DEF Claims, CulpritBroke, BlamesCode
  <2>2. CASE LastGreen \notin {0, bad}
    <3>1. stage' = "rerunning" /\ result' = result /\ stage = "searching"
      BY <1>9, <2>2 DEF Search
    <3> QED BY <1>1, <1>3, <3>1 DEF Claims
  <2> QED BY <2>1, <2>2
<1>10. CASE Rerun
  <2>1. PICK status \in Statuses :
          /\ Runs(good, status)
          /\ IF RunCommand(status) = 0
             THEN stage' = "bisecting" /\ UNCHANGED result
             ELSE /\ result' = {[good |-> good, culprit |-> 0, note |-> TRUE]}
                  /\ stage' = "reporting"
    BY <1>10 DEF Rerun
  <2>2. stage = "rerunning" /\ UNCHANGED <<bad, good, drift>>
    BY <1>10 DEF Rerun
  <2>3. CASE RunCommand(status) = 0
    BY <1>1, <1>3, <2>1, <2>2, <2>3 DEF Claims
  <2>4. CASE RunCommand(status) # 0
    <3>1. status # 0
      BY <2>4 DEF RunCommand
    <3>2. clean' /\ ~drift' => good \in fails
      BY <1>1, <2>1, <2>2, <3>1, RunTaken DEF Works
    <3>3. good \notin fails
      BY <2>2, GoodWorked DEF BInv
    <3>4. \A r \in result' : r.culprit = 0
      BY <2>1, <2>4
    <3> QED BY <2>1, <2>4, <3>2, <3>3, <3>4 DEF Claims, CulpritBroke, BlamesCode
  <2> QED BY <2>3, <2>4
<1>11. CASE Step
  <2>1. stage' = "bisecting" /\ result' = {}
    BY <1>1, <1>11, StepTaken DEF Step, Claims
  <2> QED BY <1>3, <2>1
<1>12. CASE Blame
  <2>1. stage' = "reporting"
    BY <1>12 DEF Blame
  <2> QED BY <1>12, <2>1, Blame_Claims DEF Claims, BlamesCode
<1>13. CASE Expire
  BY <1>4, <1>13 DEF Expire
<1>14. CASE Tell
  <2>1. /\ said' = FailureReport /\ stage' = "said" /\ stage = "reporting"
        /\ UNCHANGED <<result, bad, drift, clean>>
    BY <1>14 DEF Tell
  <2>2. BlamesCode'
    BY <1>1, <2>1, ReportNames DEF Claims, BlamesCode
  <2> QED BY <1>5, <2>1, <2>2
<1> QED BY <1>6, <1>7, <1>8, <1>9, <1>10, <1>11, <1>12, <1>13, <1>14 DEF NextBisect

(* Every step keeps the invariant.                                          *)
LEMMA Step_Same == BInv /\ [NextBisect]_bisectVars => BInv'
BY Typed_Kept, Chain_Kept, Range_Kept, Marks_Kept, Claims_Kept DEF BInv

(* The nights are a chain, their passes are honest and the marks true.      *)
THEOREM BisectInvariant == BisectSpec => []BInv
<1>1. InitBisect => BInv
  BY BisectBegins
<1> QED BY <1>1, Step_Same, PTL DEF BisectSpec

(* The range of a report starts at a commit where the job has passed: the   *)
(* newest one of the listed nightlies, and one of the merge queue only when *)
(* no listed nightly passed (last_green).                                   *)
THEOREM Newest == BisectSpec => []NewestGreen
<1>1. BInv => NewestGreen
  BY DEF BInv, Typed, RangeStart, NewestGreen
<1> QED BY <1>1, BisectInvariant, PTL

(* Without an accident the commit that bisect names fails, and each of its  *)
(* parents is an ancestor of a commit that works.                           *)
THEOREM Broke == BisectSpec => []CulpritBroke
<1>1. BInv => CulpritBroke
  BY DEF BInv, Claims
<1> QED BY <1>1, BisectInvariant, PTL

(* No commit is blamed for a toolchain that was broken before the run.      *)
THEOREM Blames == BisectSpec => []BlamesCode
<1>1. BInv => BlamesCode
  BY DEF BInv, Claims
<1> QED BY <1>1, BisectInvariant, PTL

=============================================================================
