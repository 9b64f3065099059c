--------------------------- MODULE GeneratedKernels ---------------------------
(***************************************************************************)
(* The kernels that generators write into src/generated, and the checks     *)
(* that they are up to date: check_generated_revision and                   *)
(* check_generated_cost of scripts/check_documentation.py. The project      *)
(* moves a lock to another revision of fortsym, runs a generator or removes *)
(* one, and files kernels in the ownership inventory, in any order; the     *)
(* checks look at the files as they are.                                    *)
(***************************************************************************)
EXTENDS Integers, FiniteSets

CONSTANTS
  Sources,     \* files of src/generated
  Cuda,        \* those of them that are CUDA
  Foreign,     \* those that fortad wrote, without a revision of fortsym
  Removable,   \* those written by one generator that may be taken out again
  Rk54, Midpoint, \* those written by the generators with a lock of their own
  MaxRevision, \* bound: revisions of fortsym
  MaxEdits     \* bound: changes to the project before the checks run

ASSUME GeneratedAssumption ==
  /\ Cuda \cup Foreign \cup Removable \cup Rk54 \cup Midpoint \subseteq Sources
  /\ Rk54 \cap Midpoint = {} /\ Cuda \cap Foreign = {}
  /\ MaxRevision \in Nat \ {0} /\ MaxEdits \in Nat

VARIABLES
  lock,   \* revision in each lock file, 0 for a text that is none
  made,   \* revision in the banner of each source
  costed, \* sources with a complete cost block
  exempt, \* sources that the inventory classes as fortad-generated
  present, \* the generator of the Removable sources is in tools/codegen/app
  edits   \* changes made so far

generatedVars == <<lock, made, costed, exempt, present, edits>>

Locks == {"fortsym", "rk54", "verified-midpoint"}

\* the lock that a source is regenerated under
LockOf(s) == IF s \in Midpoint THEN "verified-midpoint" ELSE IF s \in Rk54 THEN "rk54" ELSE "fortsym"

InitGenerated ==
  /\ lock = [l \in Locks |-> 1]
  /\ made = [s \in Sources |-> IF s \in Foreign THEN 0 ELSE 1]
  /\ costed = Sources \ Foreign
  /\ exempt = Foreign
  /\ present = TRUE
  /\ edits = 0

Edit == edits < MaxEdits /\ edits' = edits + 1

\* a lock is moved to a revision, or spoilt
Relock(l) ==
  /\ Edit
  /\ \E r \in 0..MaxRevision : r # lock[l] /\ lock' = [lock EXCEPT ![l] = r]
  /\ UNCHANGED <<made, costed, exempt, present>>

\* a generator writes its sources, with their cost blocks
Regenerate(written) ==
  /\ Edit
  /\ \A s \in written : s \notin Foreign /\ lock[LockOf(s)] # 0
  /\ made' = [s \in Sources |-> IF s \in written THEN lock[LockOf(s)] ELSE made[s]]
  /\ costed' = costed \cup written
  /\ UNCHANGED <<lock, exempt, present>>

\* a source is edited by hand, and its cost block no longer reads as one
Garble(s) ==
  /\ Edit
  /\ s \in costed
  /\ costed' = costed \ {s}
  /\ UNCHANGED <<lock, made, exempt, present>>

Reclassify(s) ==
  /\ Edit
  /\ exempt' = IF s \in exempt THEN exempt \ {s} ELSE exempt \cup {s}
  /\ UNCHANGED <<lock, made, costed, present>>

RemoveGenerator ==
  /\ Edit
  /\ present
  /\ present' = FALSE
  /\ UNCHANGED <<lock, made, costed, exempt>>

Maintain ==
  \/ \E l \in Locks : Relock(l)
  \/ \E written \in SUBSET Sources : Regenerate(written)
  \/ \E s \in Sources : Garble(s) \/ Reclassify(s)
  \/ RemoveGenerator

-----------------------------------------------------------------------------
(* check_generated_revision                                                 *)

LocksRead == lock["fortsym"] # 0 /\ lock["rk54"] # 0

\* Slip: a third lock is not thought of
ExpectedSlip(s) == lock[IF s \in Rk54 THEN "rk54" ELSE "fortsym"]

\* the revision that the banner must have; that of a lock that is no revision
\* is an error of its own
Expected(s) == lock[LockOf(s)]

RevisionErrors ==
  IF ~LocksRead THEN {"lock"}
  ELSE {s \in Sources \ (Cuda \cup exempt) : Expected(s) = 0 \/ made[s] # Expected(s)}

(* check_generated_cost: sources whose generator is not in                  *)
(* tools/codegen/app are passed over, CUDA sources are not                  *)
Regenerable(s) == s \notin Foreign /\ (s \in Removable => present)

CostErrors == {s \in Sources \ exempt : Regenerable(s) /\ s \notin costed}
=============================================================================
