----------------------------- MODULE SourceScan -----------------------------
(***************************************************************************)
(* Two scripts read Fortran sources line by line: audit_modules.py (what is *)
(* public, is it documented in api.md) and the scanner of                   *)
(* check_derivative_kernel_inventory.py (which procedures are defined).     *)
(* Here a source is written line by line, by the rules of the language, and *)
(* both scanners read along; "place", "stmt" and the truth variables say    *)
(* what the text means, the other variables what the scanners made of it.   *)
(* A line is a record: its kind, the first name it holds, the names after   *)
(* it, and whether it ends with an ampersand.                               *)
(***************************************************************************)
EXTENDS Integers, Sequences, FiniteSets, SequencesExt

CONSTANTS
  Habits,   \* ways of writing that one of the scanners does not read
  MaxHabits, \* bound: how many of them one text takes up
  Modules,  \* bound: modules in one source
  MaxDepth, \* bound: nesting of scopes
  ApiLines  \* bound: lines of docs/api.md

ASSUME ScanAssumption == {MaxHabits, Modules, MaxDepth, ApiLines} \subseteq Nat

VARIABLES
  \* the text
  place,    \* enclosing scopes
  stmt,     \* the statement that a line left unfinished, at most one
  written,  \* modules begun so far
  \* what the text means
  default,  \* the module has made its names private
  names,    \* its public names
  procs,    \* procedures defined outside interface blocks
  owed,     \* its public names belong in api.md
  told,     \* the names that api.md documents
  leaks, undocumented,  \* verdicts on the finished modules
  used,     \* habits met
  \* audit_modules.py
  buf,      \* logical line being joined, at most one
  current,  \* the module being read, at most one
  inIface,
  documented,
  violations, warnings,
  \* check_derivative_kernel_inventory.py
  depth, definitions

text == <<place, stmt, written>>
truth == <<default, names, procs, owed, told, leaks, undocumented, used>>
audit == <<buf, current, inIface, documented, violations, warnings>>
inventory == <<depth, definitions>>
vars == <<text, truth, audit, inventory>>

Line(kind, first, rest, more) == [kind |-> kind, first |-> first, rest |-> rest, more |-> more]
Plain(kind) == Line(kind, "", {}, FALSE)

\* the names in a line
NamesOf(line) == ({line.first} \ {""}) \cup line.rest

-----------------------------------------------------------------------------
(* parse_api_md: names in backticks anywhere, in headings outside a code    *)
(* block and in signatures inside one; every fence turns in_code over. Each *)
(* such line of api.md here names the same thing, "a".                      *)

ApiKinds == {"fence", "ticked", "heading", "signature"}

ParseApi(lines) ==
  LET loop[i \in 0..Len(lines)] ==
        IF i = 0 THEN [in_code |-> FALSE, documented |-> {}]
        ELSE IF lines[i] = "fence"
             THEN [in_code |-> ~loop[i - 1].in_code, documented |-> loop[i - 1].documented]
             ELSE IF lines[i] = "ticked" \/ (lines[i] = "signature") = loop[i - 1].in_code
                  THEN [in_code |-> loop[i - 1].in_code, documented |-> {"a"}]
                  ELSE loop[i - 1]
  IN loop[Len(lines)].documented

\* what the text says: the same by the number of fences before a line
Documented(lines) ==
  LET InBlock(i) == Cardinality({k \in 1..(i - 1) : lines[k] = "fence"}) % 2 = 1
  IN {n \in {"a"} : \E i \in DOMAIN lines :
        \/ lines[i] = "ticked"
        \/ lines[i] = "heading" /\ ~InBlock(i)
        \/ lines[i] = "signature" /\ InBlock(i)}

-----------------------------------------------------------------------------
(* audit_modules.py                                                         *)

\* Slip: the line read last takes the place of what was joined
JoinedSlip(line) == line

\* _continuation_lines: a line is joined to what an ampersand left open
Joined(line) ==
  IF buf = {} THEN line
  ELSE LET b == CHOOSE x \in buf : TRUE
       IN [b EXCEPT !.rest = @ \cup NamesOf(line), !.more = line.more]

\* names a logical line adds to public_names
PublicNames(line) ==
  CASE line.kind \in {"public", "public type"} -> NamesOf(line)
    [] line.kind \in {"constants", "bound"} -> {line.first}
    [] OTHER -> {}

\* the body of the loop of parse_module, for the module being read
ReadOn(m, line) ==
  CASE line.kind = "abstract interface" ->
         inIface' = inIface + 1 /\ UNCHANGED current
    [] line.kind = "end interface" ->
         inIface' = (IF inIface > 0 THEN inIface - 1 ELSE 0) /\ UNCHANGED current
    [] line.kind = "private" ->
         current' = {[m EXCEPT !.private = TRUE]} /\ UNCHANGED inIface
    [] OTHER ->
         /\ current' = {IF inIface > 0 THEN m
                        ELSE [m EXCEPT !.public = @ \cup PublicNames(line)]}
         /\ UNCHANGED inIface

\* audit: the two checks of one module
Audited(m) ==
  /\ violations' = (violations \/ ~m.private)
  /\ warnings' = (warnings \/ (m.listed /\ ~(m.public \subseteq documented)))

AuditLine(line) ==
  IF current = {}
  THEN /\ current' = IF line.kind = "module"
                     THEN {[listed |-> line.first = "listed", private |-> FALSE, public |-> {}]}
                     ELSE {}
       /\ inIface' = 0
       /\ UNCHANGED <<violations, warnings>>
  ELSE \E m \in current :
         IF line.kind = "end module"
         THEN current' = {} /\ inIface' = 0 /\ Audited(m)
         ELSE ReadOn(m, line) /\ UNCHANGED <<violations, warnings>>

AuditRead(line) ==
  /\ UNCHANGED documented
  /\ IF line.more
     THEN buf' = {Joined(line)} /\ UNCHANGED <<current, inIface, violations, warnings>>
     ELSE buf' = {} /\ AuditLine(Joined(line))

-----------------------------------------------------------------------------
(* procedure_definitions: line by line, ampersands are not looked at.       *)


\* Slip: the end of any interface block ends them all
InventoryReadSlip(line) ==
  CASE line.kind \in {"abstract interface", "interface"} ->
         depth' = depth + 1 /\ UNCHANGED definitions
    [] line.kind = "end interface" ->
         depth' = 0 /\ UNCHANGED definitions
    [] line.kind \in {"procedure", "end procedure"} /\ depth = 0 ->
         definitions' = definitions \cup NamesOf(line) /\ UNCHANGED depth
    [] OTHER -> UNCHANGED inventory

InventoryRead(line) ==
  CASE line.kind \in {"abstract interface", "interface"} ->
         depth' = depth + 1 /\ UNCHANGED definitions
    [] line.kind = "end interface" ->
         depth' = (IF depth > 0 THEN depth - 1 ELSE 0) /\ UNCHANGED definitions
    [] line.kind \in {"procedure", "end procedure"} /\ depth = 0 ->
         definitions' = definitions \cup NamesOf(line) /\ UNCHANGED depth
    [] OTHER -> UNCHANGED inventory

-----------------------------------------------------------------------------
(* The text and its meaning.                                                *)

Inside == IF place = <<>> THEN "file" ELSE Last(place)
Enter(scope) == place' = Append(place, scope) /\ Len(place) < MaxDepth
Leave == place' = Front(place)

\* a procedure is an interface body if any scope around it is an interface
InInterface == \E i \in DOMAIN place : place[i] = "interface"

Habit(h) == h \in Habits \ used /\ Cardinality(used) < MaxHabits /\ used' = used \cup {h}
Ordinary == UNCHANGED used

Truth(private, public, defined) ==
  /\ default' = (default \/ private)
  /\ names' = names \cup public
  /\ procs' = procs \cup defined

Unmoved == UNCHANGED place
NoVerdict == UNCHANGED <<written, owed, leaks, undocumented>>

\* both scripts read the line
Scan(line) == AuditRead(line) /\ InventoryRead(line) /\ UNCHANGED told

\* Helper modules and C bindings are excused from api.md (:217-225, :252-259).
\* What is public in any other module belongs there, also in one that nobody
\* has entered in a list of the script.
BeginModule ==
  /\ Inside = "file" /\ stmt = {} /\ written < Modules
  /\ Enter("module")
  /\ written' = written + 1
  /\ default' = FALSE /\ names' = {}
  /\ \/ Ordinary /\ owed' = TRUE /\ Scan(Line("module", "listed", {}, FALSE))
     \/ Ordinary /\ owed' = FALSE /\ Scan(Line("module", "excused", {}, FALSE))
     \/ Habit("unlisted module") /\ owed' = TRUE /\ Scan(Line("module", "unlisted", {}, FALSE))
  /\ UNCHANGED <<stmt, procs, leaks, undocumented>>

EndModule ==
  /\ Inside \in {"module", "contains"} /\ stmt = {}
  /\ place' = <<>>
  /\ leaks' = (leaks \/ ~default)
  /\ undocumented' = (undocumented \/ (owed /\ ~(names \subseteq told)))
  /\ Scan(Plain("end module"))
  /\ UNCHANGED <<stmt, written, default, names, procs, owed, used>>

\* a statement of one line in the specification part, or in a type
Private ==
  /\ Inside \in {"module", "type"} /\ stmt = {}
  /\ IF Inside = "module" THEN ~default /\ Ordinary ELSE Habit("private in type")
  /\ Truth(Inside = "module", {}, {})
  /\ Scan(Plain("private")) /\ Unmoved /\ NoVerdict /\ UNCHANGED stmt

Constants ==
  /\ Inside = "module" /\ stmt = {}
  /\ \/ Ordinary /\ Truth(FALSE, {"k"}, {}) /\ Scan(Line("constants", "k", {}, FALSE))
     \/ /\ Habit("several constants")
        /\ Truth(FALSE, {"k", "l"}, {}) /\ Scan(Line("constants", "k", {"l"}, FALSE))
  /\ Unmoved /\ NoVerdict /\ UNCHANGED stmt

BoundProcedure ==
  /\ Inside = "type" /\ stmt = {}
  /\ Habit("bound procedure")
  /\ Truth(FALSE, {}, {})
  /\ Scan(Line("bound", "m", {}, FALSE)) /\ Unmoved /\ NoVerdict /\ UNCHANGED stmt

BeginType ==
  /\ Inside = "module" /\ stmt = {}
  /\ Enter("type")
  /\ \/ Truth(FALSE, {"t"}, {}) /\ Scan(Line("public type", "t", {}, FALSE))
     \/ Truth(FALSE, {}, {}) /\ Scan(Plain("type"))
  /\ Ordinary /\ NoVerdict /\ UNCHANGED stmt

EndType ==
  /\ Inside = "type" /\ stmt = {}
  /\ Leave
  /\ Truth(FALSE, {}, {}) /\ Scan(Plain("end type"))
  /\ Ordinary /\ NoVerdict /\ UNCHANGED stmt

\* interface blocks may stand in a module, a procedure or an interface body
BeginInterface ==
  /\ Inside \in {"module", "procedure"} /\ stmt = {}
  /\ Enter("interface")
  /\ \E kind \in {"interface", "abstract interface"} : Scan(Plain(kind))
  /\ Truth(FALSE, {}, {})
  /\ Ordinary /\ NoVerdict /\ UNCHANGED stmt

EndInterface ==
  /\ Inside = "interface" /\ stmt = {}
  /\ Leave
  /\ \/ Ordinary /\ Scan(Plain("end interface"))
     \/ Habit("closed up") /\ Scan(Plain("endinterface"))
  /\ Truth(FALSE, {}, {}) /\ NoVerdict /\ UNCHANGED stmt

BeginProcedures ==
  /\ Inside = "module" /\ stmt = {}
  /\ place' = <<"contains">>
  /\ Truth(FALSE, {}, {}) /\ Scan(Plain("contains"))
  /\ Ordinary /\ NoVerdict /\ UNCHANGED stmt

\* the name of a procedure that is defined, or declared in an interface
Symbol == IF InInterface THEN "declared" ELSE "defined"

BeginProcedure ==
  /\ Inside \in {"contains", "interface"} /\ stmt = {}
  /\ Enter("procedure")
  /\ Truth(FALSE, {}, {Symbol} \ {"declared"})
  /\ \/ Ordinary /\ Scan(Line("procedure", Symbol, {}, FALSE)) /\ UNCHANGED stmt
     \/ /\ Habit("split heading") /\ Scan(Line("procedure", "", {}, TRUE))
        /\ stmt' = {Line("procedure", Symbol, {}, TRUE)}
  /\ NoVerdict

EndProcedure ==
  /\ Inside = "procedure" /\ stmt = {}
  /\ Leave
  /\ \E n \in {"", Symbol} : Scan(Line("end procedure", n, {}, FALSE))
  /\ Truth(FALSE, {}, {})
  /\ Ordinary /\ NoVerdict /\ UNCHANGED stmt

\* public :: a, possibly going on in the next line
PublicList ==
  /\ Inside = "module" /\ stmt = {}
  /\ \E more \in BOOLEAN :
       /\ Scan(Line("public", "a", {}, more))
       /\ stmt' = IF more THEN {Line("public", "a", {}, TRUE)} ELSE {}
  /\ Truth(FALSE, {"a"}, {})
  /\ Unmoved /\ Ordinary /\ NoVerdict

\* the rest of an unfinished statement
GoOn ==
  /\ \E s \in stmt :
       IF s.kind = "public"
       THEN Scan(Line("names", "b", {}, FALSE)) /\ Truth(FALSE, {"b"}, {})
       ELSE Scan(Line("names", s.first, {}, FALSE)) /\ Truth(FALSE, {}, {})
  /\ stmt' = {}
  /\ Unmoved /\ Ordinary /\ NoVerdict

\* a comment or an empty line, which may also stand inside a statement
Comment ==
  /\ IF stmt = {} THEN Ordinary ELSE Habit("comment in statement")
  /\ Scan(Plain("comment"))
  /\ Truth(FALSE, {}, {})
  /\ Unmoved /\ NoVerdict /\ UNCHANGED stmt

Init ==
  /\ \E lines \in UNION {[1..n -> ApiKinds] : n \in 0..ApiLines} :
       documented = ParseApi(lines) /\ told = Documented(lines)
  /\ place = <<>> /\ stmt = {} /\ written = 0
  /\ default = FALSE /\ names = {} /\ procs = {} /\ owed = FALSE
  /\ leaks = FALSE /\ undocumented = FALSE /\ used = {}
  /\ buf = {} /\ current = {} /\ inIface = 0
  /\ violations = FALSE /\ warnings = FALSE
  /\ depth = 0 /\ definitions = {}

Next ==
  \/ BeginModule \/ EndModule
  \/ Private \/ PublicList \/ Constants \/ BoundProcedure \/ GoOn
  \/ BeginType \/ EndType
  \/ BeginInterface \/ EndInterface
  \/ BeginProcedures \/ BeginProcedure \/ EndProcedure
  \/ Comment

Spec == Init /\ [][Next]_vars

-----------------------------------------------------------------------------
TypeOK ==
  /\ place \in Seq({"module", "type", "interface", "procedure", "contains"}) /\ Len(place) <= MaxDepth
  /\ Len(place) > 0 => place[1] \in {"module", "contains"}
  /\ used \subseteq Habits
  /\ current = {} <=> place = <<>>
  /\ inIface \in 0..MaxDepth
  /\ depth \in Nat
  /\ {default, owed, leaks, undocumented, violations, warnings} \subseteq BOOLEAN

\* habits that one script or the other does not understand
AuditBlind ==
  {"private in type", "several constants", "bound procedure", "comment in statement", "closed up",
   "unlisted module"}
InventoryBlind == {"closed up", "split heading"}

(* "every module uses 'private' default", "each explicitly public name is    *)
(* documented in docs/api.md" (audit_modules.py:5-7): between two modules    *)
(* the verdicts of the audit, on which "all public surfaces match api.md"    *)
(* (:354) rests, are what the sources mean, whatever interfaces, types,      *)
(* procedures and continued lines they hold, if they keep from the six       *)
(* habits that the audit does not see. One of them is to leave a module out  *)
(* of all its lists: the names of such a module are never looked up.         *)
AuditHonest ==
  /\ TypeOK
  /\ used \cap AuditBlind = {} /\ stmt = {} =>
       /\ violations = leaks /\ warnings = undocumented
       /\ \A m \in current : m.private = default /\ m.public = names

(* The inventory sees each procedure that is defined and none that is only  *)
(* declared, at any nesting of interface blocks.                            *)
InventoryReads ==
  (used \cap InventoryBlind = {}) => definitions = procs
=============================================================================
