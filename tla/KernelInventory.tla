--------------------------- MODULE KernelInventory ---------------------------
(***************************************************************************)
(* scripts/check_derivative_kernel_inventory.py: the rows of the ownership  *)
(* inventory are read one by one, then the sources are scanned, then the    *)
(* two are compared, then the wrappers that a generator emits are compared. *)
(* Rows and sources are chosen as they are read. "claims", "sound",         *)
(* "defined" and "emitted" remember what was there; the script keeps the    *)
(* other variables. How a procedure is recognised is in SourceScan.         *)
(***************************************************************************)
EXTENDS Integers, FiniteSets

CONSTANTS
  Files,      \* Fortran sources
  Generated,  \* those under src/generated
  ValueOnly,  \* those of them whose name ends with _value_kernel.f90
  Symbols,    \* names of procedures
  Products,   \* names with jvp, vjp, adjoint or sensitivity in them
  Exported,   \* names that begin with fortnum_
  Generator,  \* WRAPPER_GENERATOR
  Artifacts,  \* files it may emit
  MaxRows     \* bound: rows of the inventory

ASSUME KernelAssumption ==
  /\ Generated \subseteq Files /\ ValueOnly \subseteq Generated
  /\ Products \subseteq Symbols /\ Exported \subseteq Symbols
  /\ Generator \notin Files /\ MaxRows \in Nat

VARIABLES
  step,               \* what main does next
  rows, claims, sound,
  seen, source_entries, wrapper_artifacts,
  todo, defined, discovered,
  emitted,
  flawed,             \* the list of errors is not empty
  code                \* exit code

ruled == <<rows, claims, sound>>
read == <<seen, source_entries, wrapper_artifacts>>
scanned == <<todo, defined, discovered>>
kernelVars == <<step, ruled, read, scanned, emitted, flawed, code>>

Names == Symbols \cup Artifacts
Entries == (Files \cup {Generator}) \X Names

\* a row; "fit" when its class and mechanisms are known and it has a reason
Row == [path : Files \cup {Generator}, symbols : SUBSET Names, hybrid : BOOLEAN, fit : BOOLEAN]

\* its class is that of a wrapper if and only if it claims wrappers
Filed(row) ==
  /\ row.hybrid => row.path = Generator
  /\ row.path = Generator /\ row.symbols # {} => row.hybrid

Keys(row) == {row.path} \X row.symbols

\* Slip: a name must be new in the inventory, in whatever file
RepeatedSlip(row) == \E key \in seen : key[2] \in row.symbols

\* the row names what an earlier row named
Repeated(row) == Keys(row) \cap seen # {}

InitKernels ==
  /\ step = "load" /\ rows = 0
  /\ claims = [e \in Entries |-> 0] /\ sound = TRUE
  /\ seen = {} /\ source_entries = {} /\ wrapper_artifacts = {}
  /\ todo = Files /\ defined = {} /\ discovered = {} /\ emitted = {}
  /\ flawed = FALSE /\ code = -1

\* load_inventory, one row
LoadRow(row) ==
  /\ step = "load" /\ rows < MaxRows
  /\ rows' = rows + 1
  /\ claims' = [e \in Entries |-> claims[e] + IF e \in Keys(row) THEN 1 ELSE 0]
  /\ sound' = (sound /\ row.fit /\ Filed(row))
  /\ flawed' = (flawed \/ ~row.fit \/ Repeated(row) \/ (row.hybrid /\ row.path # Generator))
  /\ seen' = seen \cup Keys(row)
  /\ IF row.hybrid
     THEN wrapper_artifacts' = wrapper_artifacts \cup row.symbols /\ UNCHANGED source_entries
     ELSE source_entries' = source_entries \cup Keys(row) /\ UNCHANGED wrapper_artifacts
  /\ UNCHANGED <<step, scanned, emitted, code>>

\* the columns of the table are not the expected ones: no row is read
LoadNothing ==
  /\ step = "load" /\ rows = 0
  /\ step' = "scan" /\ sound' = FALSE /\ flawed' = TRUE
  /\ UNCHANGED <<rows, claims, read, scanned, emitted, code>>

Loaded ==
  /\ step = "load"
  /\ step' = "scan"
  /\ UNCHANGED <<ruled, read, scanned, emitted, flawed, code>>

\* the procedures of a file that need an owner
Kernels(file, symbols) ==
  {s \in symbols : s \in Products \/ (file \in Generated \ ValueOnly /\ s \in Exported)}

\* discover_source_kernels, one file
ScanFile(file, symbols) ==
  /\ step = "scan" /\ file \in todo
  /\ todo' = todo \ {file}
  /\ defined' = defined \cup ({file} \X symbols)
  /\ discovered' = discovered \cup ({file} \X Kernels(file, symbols))
  /\ UNCHANGED <<step, ruled, read, emitted, flawed, code>>

CompareKernels ==
  /\ step = "scan" /\ todo = {}
  /\ flawed' = (flawed \/ discovered \ source_entries # {} \/ source_entries \ discovered # {})
  /\ step' = "wrappers"
  /\ UNCHANGED <<ruled, read, scanned, emitted, code>>

CompareWrappers(artifacts) ==
  /\ step = "wrappers"
  /\ emitted' = artifacts
  /\ flawed' = (flawed \/ artifacts # wrapper_artifacts)
  /\ code' = IF flawed' THEN 1 ELSE 0
  /\ step' = "end"
  /\ UNCHANGED <<ruled, read, scanned>>

\* discover_wrapper_artifacts finds no loop over the scalar wrappers and
\* raises: the errors noted so far are not printed
WrappersUnread ==
  /\ step = "wrappers"
  /\ sound' = FALSE
  /\ code' = 1
  /\ step' = "end"
  /\ UNCHANGED <<rows, claims, read, scanned, emitted, flawed>>

NextKernels ==
  \/ \E row \in Row : LoadRow(row)
  \/ LoadNothing \/ Loaded
  \/ \E file \in todo, symbols \in SUBSET Symbols : ScanFile(file, symbols)
  \/ CompareKernels
  \/ \E artifacts \in SUBSET Artifacts : CompareWrappers(artifacts)
  \/ WrappersUnread

KernelSpec == InitKernels /\ [][NextKernels]_kernelVars

-----------------------------------------------------------------------------
(* what has to be owned: procedures by source, wrappers by their generator  *)
Due ==
  {e \in defined : \/ e[2] \in Products
                   \/ e[1] \in Generated /\ e[1] \notin ValueOnly /\ e[2] \in Exported}
  \cup ({Generator} \X emitted)

KernelTypeOK ==
  /\ step \in {"load", "scan", "wrappers", "end"}
  /\ source_entries \subseteq seen /\ seen \subseteq Entries
  /\ discovered \subseteq defined /\ defined \subseteq Entries
  /\ wrapper_artifacts \subseteq Names /\ emitted \subseteq Artifacts /\ todo \subseteq Files
  /\ code \in {-1, 0, 1} /\ (code = -1 <=> step # "end")
  /\ flawed \in BOOLEAN /\ sound \in BOOLEAN

(* The inventory check passes exactly when every kernel that is defined and *)
(* every wrapper that is emitted is claimed by one row and by no second     *)
(* one, and no row claims anything else.                                    *)
OwnedOnce ==
  code # -1 => (code = 0 <=> sound /\ \A e \in Entries : claims[e] = IF e \in Due THEN 1 ELSE 0)
=============================================================================
