---------------------------- MODULE Documentation ----------------------------
(***************************************************************************)
(* The checks that CTest runs on the text of the repository:                *)
(* check_derivative_kernel_inventory.py (KernelInventory), on its own; and, *)
(* on files that the project has changed before (GeneratedKernels),         *)
(* check_documentation.py, whose last check runs the first script as a      *)
(* subprocess. What that returns there is what the property OwnedOnce says. *)
(* The documents are chosen as they are read, link by link, module by       *)
(* module and row by row; "faulty" remembers whether one of them was out of *)
(* order, "errors" whether the list of errors has a member.                 *)
(***************************************************************************)
EXTENDS GeneratedKernels, KernelInventory, Sequences, SequencesExt

CONSTANTS
  Required,   \* documents that maintained_markdown names: README.md, ROADMAP.md ...
  Roadmap,    \* ROADMAP.md
  Documents,  \* documents under docs/, docs/README.md apart
  Headings,   \* headings of a document
  MaxLength   \* bound: headings of a document, rows of a table

ASSUME DocumentationAssumption == Roadmap \in Required /\ MaxLength \in Nat

VARIABLES
  pc,      \* the check that is under way
  missing, \* required documents that are not there
  errors, faulty,
  exit     \* exit code of check_documentation

docVars == <<pc, missing, errors, faulty, exit>>
documentationVars == <<generatedVars, kernelVars, docVars>>

Unread == UNCHANGED <<missing, exit, generatedVars, kernelVars>>

\* what a loop adds to the list, and what it was shown
Noted(error, fault) ==
  /\ errors' = (errors \/ error)
  /\ faulty' = (faulty \/ fault)
  /\ Unread

At(check) == pc = check /\ UNCHANGED pc
Then(check, next) == pc = check /\ pc' = next

\* an exception ends the script with exit code 1 and nothing else
Raise(fault) ==
  /\ pc' = "end" /\ exit' = 1
  /\ faulty' = (faulty \/ fault)
  /\ UNCHANGED <<missing, errors, generatedVars, kernelVars>>

InitDocuments ==
  /\ InitGenerated /\ InitKernels
  /\ pc \in {"maintain", "derivative_kernel_inventory"}
  /\ missing \in (IF pc = "maintain" THEN SUBSET Required ELSE {{}})
  /\ errors = FALSE /\ faulty = FALSE
  /\ exit = -1

Change == At("maintain") /\ Maintain /\ UNCHANGED <<missing, errors, faulty, exit, kernelVars>>

\* the files are as they are when the checks start
Start ==
  /\ Then("maintain", "check_links")
  /\ UNCHANGED <<missing, errors, faulty, exit, generatedVars, kernelVars>>

-----------------------------------------------------------------------------
(* anchors: the second heading of a name gets the anchor name-1             *)

Anchors(lines) ==
  LET loop[i \in 0..Len(lines)] ==
        IF i = 0 THEN [counts |-> [h \in Headings |-> 0], result |-> {}]
        ELSE [counts |-> [loop[i - 1].counts EXCEPT ![lines[i]] = @ + 1],
              result |-> loop[i - 1].result \cup {<<lines[i], loop[i - 1].counts[lines[i]]>>}]
  IN loop[Len(lines)].result

\* the anchors that the document has when it is rendered
Rendered(lines) ==
  {<<lines[i], Cardinality({k \in 1..(i - 1) : lines[k] = lines[i]})>> : i \in DOMAIN lines}

\* links: to another site, to a document, to a file of another kind, to
\* nothing; the fragment of one without any is <<>>
Link ==
  [to : {"elsewhere", "document", "file", "nowhere"},
   fragment : (Headings \X (0..MaxLength)) \cup {<<>>}]

\* check_links: the document that the link is in is the target of one without a file
LinkBroken(link, lines) ==
  /\ link.to # "elsewhere"
  /\ \/ link.to = "nowhere"
     \/ link.to = "document" /\ link.fragment # <<>> /\ link.fragment \notin Anchors(lines)

\* what the loop may note for a link and a target, and what it should
LinkVerdicts ==
  {[error |-> LinkBroken(link, lines),
    fault |-> \/ link.to = "nowhere"
              \/ link.to = "document" /\ link.fragment \notin Rendered(lines) \cup {<<>>}] :
     link \in Link, lines \in UNION {[1..n -> Headings] : n \in 0..MaxLength}}

CheckLink == At("check_links") /\ \E v \in LinkVerdicts : Noted(v.error, v.fault)

LinksChecked ==
  /\ Then("check_links", "check_docs_map")
  /\ Noted(missing # {}, missing # {})

\* check_docs_map: what docs/README.md links, with any fragment, or to elsewhere
CheckDocsMap ==
  /\ Then("check_docs_map", "check_api")
  /\ \E linked \in SUBSET (Documents \cup {"elsewhere"}) :
       Noted(Documents \ linked # {}, \E d \in Documents : d \notin linked)

\* docs/README.md is not there; nobody has looked whether it is
MapAbsent == pc = "check_docs_map" /\ Raise(TRUE)

\* check_api: sources are files with modules, the first of which counts; the
\* exclusions and the generated, binding and test sources are passed over
CheckModule ==
  /\ At("check_api")
  /\ \E module, passed, mentioned \in BOOLEAN :
       LET undocumented == module /\ ~passed /\ ~mentioned
       IN Noted(undocumented, undocumented)

\* names in api.md with a prefix of the project's must occur in a source
CheckSymbol ==
  /\ At("check_api")
  /\ \E ours, occurs \in BOOLEAN :
       LET absent == ours /\ ~occurs IN Noted(absent, absent)

ApiChecked == Then("check_api", "check_terminology") /\ Noted(FALSE, FALSE)

-----------------------------------------------------------------------------
\* check_terminology: a document that is not there cannot be read either;
\* ROADMAP.md may use the old terms
CheckTerms ==
  /\ At("check_terminology") /\ missing \subseteq {Roadmap}
  /\ \E d \in Required \cup Documents, legacy \in BOOLEAN :
       Noted(d # Roadmap /\ legacy, d # Roadmap /\ legacy)

TermsChecked ==
  /\ missing \subseteq {Roadmap}
  /\ Then("check_terminology", "check_generated_revision")
  /\ Noted(FALSE, FALSE)

TermsUnread == pc = "check_terminology" /\ ~(missing \subseteq {Roadmap}) /\ Raise(FALSE)

-----------------------------------------------------------------------------
\* sources of fortsym that are not of the revision in their lock
Drifted == {s \in Sources \ Foreign : made[s] # lock[LockOf(s)]}

\* the inventory exempts a source that fortsym wrote, or none that fortad did
Misclassified == (exempt \ Foreign) \cup (Foreign \ exempt)

CheckRevision ==
  /\ Then("check_generated_revision", "check_generated_cost")
  /\ Noted(RevisionErrors # {}, Drifted # {} \/ lock["rk54"] = 0 \/ lock["fortsym"] = 0
                                \/ Misclassified # {})

CheckCost ==
  /\ Then("check_generated_cost", "check_report")
  /\ Noted(CostErrors # {}, \E s \in Sources \ (Foreign \cup costed) : Regenerable(s))

-----------------------------------------------------------------------------
(* check_report: a table of measurements and a report that quotes it        *)

Mechanisms == {"analytical", "autodiff"}
Tables == UNION {[1..n -> [state : {"sound", "timing", "unrecorded"}, mechanism : Mechanisms]] : n \in 0..MaxLength}

\* what the report has to quote; it was written for some table
Statistics(table) ==
  [rows |-> Len(table),
   selected |-> [m \in Mechanisms |-> Cardinality({i \in DOMAIN table : table[i].mechanism = m})]]

\* the report is not looked at when the table is empty or a row is wrong
ReportErrors(table, written) ==
  \/ table = <<>>
  \/ \E i \in DOMAIN table : table[i].state # "sound"
  \/ Statistics(table) # Statistics(written)

ReportVerdicts == {ReportErrors(table, written) : table \in Tables, written \in Tables}

CheckReport ==
  /\ Then("check_report", "check_no_figures")
  /\ \E e \in ReportVerdicts : Noted(e, e)

\* pictures under docs/ and benchmark/report/ that are not in a build directory
CheckFigures ==
  /\ Then("check_no_figures", "check_inventory")
  /\ \E picture, built \in BOOLEAN : LET e == picture /\ ~built IN Noted(e, e)

-----------------------------------------------------------------------------
(* check_inventory: the subprocess returns 0 if all is owned, 1 if not or    *)
(* if it raised; and the end of main                                        *)

CheckInventory ==
  /\ Then("check_inventory", "end")
  /\ \E owned \in BOOLEAN :
       /\ errors' = (errors \/ ~owned)
       /\ faulty' = (faulty \/ ~owned)
  /\ exit' = IF errors' THEN 1 ELSE 0
  /\ UNCHANGED <<missing, generatedVars, kernelVars>>

\* the test of the inventory itself
Inventory == At("derivative_kernel_inventory") /\ NextKernels /\ UNCHANGED <<docVars, generatedVars>>

NextDocuments ==
  \/ Change \/ Start
  \/ CheckLink \/ LinksChecked \/ CheckDocsMap \/ MapAbsent
  \/ CheckModule \/ CheckSymbol \/ ApiChecked
  \/ CheckTerms \/ TermsChecked \/ TermsUnread
  \/ CheckRevision \/ CheckCost \/ CheckReport \/ CheckFigures
  \/ CheckInventory \/ Inventory

DocumentationSpec == InitDocuments /\ [][NextDocuments]_documentationVars

-----------------------------------------------------------------------------
DocumentationTypeOK ==
  /\ KernelTypeOK
  /\ lock \in [Locks -> 0..MaxRevision] /\ made \in [Sources -> 0..MaxRevision]
  /\ costed \subseteq Sources /\ exempt \subseteq Sources
  /\ \A s \in Sources : made[s] = 0 <=> s \in Foreign
  /\ exit \in {-1, 0, 1} /\ (exit # -1 <=> pc = "end")
  /\ exit = 0 => ~errors /\ missing = {}
  /\ missing \subseteq Required
  /\ errors \in BOOLEAN /\ faulty \in BOOLEAN

\* what check_generated_revision and check_generated_cost do not look at:
\* the revisions of CUDA sources, and sources that the inventory has wrong
Overlooked == Drifted \cap Cuda # {} \/ exempt \ Foreign # {}

(* "rejects broken local links, missing document-map entries, ...           *)
(* generator-lock drift, ... unindexed derivative ownership": unless a      *)
(* fault is overlooked, check_documentation ends with exit code 0 exactly   *)
(* when nothing that it was shown is out of order, whichever of the checks  *)
(* returned early or raised.                                                *)
ExitTellsDrift ==
  /\ DocumentationTypeOK
  /\ exit # -1 /\ ~Overlooked => (exit = 0 <=> ~faulty)

(* check_documentation rejects "generator-lock drift": when it ends with    *)
(* exit code 0 every source that fortsym generated is of the revision that  *)
(* its lock names, if the inventory tells fortad's sources from fortsym's.  *)
NoDrift == exit = 0 /\ exempt = Foreign => Drifted = {}
=============================================================================
