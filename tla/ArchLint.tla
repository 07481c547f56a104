------------------------------ MODULE ArchLint ------------------------------
(***************************************************************************)
(* The import linter: every import of every package of the module is held  *)
(* against the deny rules, and any violation fails the build.              *)
(* (tools/archlint/main.go)                                                *)
(*                                                                         *)
(* The linter compares paths as strings.  A path is a sequence of pieces   *)
(* in which "/" is one and a name may be made of several, so that          *)
(* "orderbook" begins with "order".                                        *)
(*                                                                         *)
(* A definition whose name ends in a fault (RulesOneWay, ...) stands just  *)
(* before the one it is a wrong version of; no step uses it.               *)
(***************************************************************************)
EXTENDS Integers, SequencesExt

CONSTANT Programs  \* what packages.Load may find: package -> its imports

ASSUME ProgramsAssumption ==
    \A p \in Programs : \A pkg \in DOMAIN p :
        pkg \in Seq(STRING) /\ p[pkg] \subseteq Seq(STRING)

moduleRoot == <<"root">>
Module(name) == <<"internal", "/", name>>
Modules == {"order", "inventory", "shipment"}

RulesOneWay ==
    <<[module |-> Module("order"), deny |-> {Module("inventory"), Module("shipment")}],
      [module |-> Module("inventory"), deny |-> {Module("shipment")}],
      [module |-> Module("shipment"), deny |-> {Module("order"), Module("inventory")}]>>

Rules ==
    <<[module |-> Module("order"), deny |-> {Module("inventory"), Module("shipment")}],
      [module |-> Module("inventory"), deny |-> {Module("order"), Module("shipment")}],
      [module |-> Module("shipment"), deny |-> {Module("order"), Module("inventory")}]>>

hasPrefix(s, prefix) == IsPrefix(prefix, s)

isForbidden(from, to) ==
    /\ hasPrefix(to, moduleRoot)
    /\ \E i \in DOMAIN Rules :
         /\ hasPrefix(from, moduleRoot \o <<"/">> \o Rules[i].module)
         /\ \E d \in Rules[i].deny : hasPrefix(to, moduleRoot \o <<"/">> \o d)

VARIABLES
    program,  \* what Scan returns
    todo,     \* packages that are still to be checked
    found,    \* violations: from, to
    verdict   \* "none", or the exit status

lintVars == <<program, todo, found, verdict>>

LintInit ==
    /\ program \in Programs
    /\ todo = DOMAIN program
    /\ found = {}
    /\ verdict = "none"

\* packages.Load fails: no package is looked at.
ScanFails ==
    /\ verdict = "none"
    /\ todo = DOMAIN program
    /\ verdict' = "error"
    /\ UNCHANGED <<program, todo, found>>

\* checkPackages, for one package.
Check(pkg) ==
    /\ verdict = "none"
    /\ pkg \in todo
    /\ todo' = todo \ {pkg}
    /\ found' = found \cup {<<pkg, imp>> : imp \in {i \in program[pkg] : isForbidden(pkg, i)}}
    /\ UNCHANGED <<program, verdict>>

\* main: the violations are listed and fail the build.
Finish ==
    /\ verdict = "none"
    /\ todo = {}
    /\ verdict' = IF found = {} THEN "clean" ELSE "violations"
    /\ UNCHANGED <<program, todo, found>>

LintNext == ScanFails \/ (\E pkg \in todo : Check(pkg)) \/ Finish

LintSpec == LintInit /\ [][LintNext]_lintVars

-----------------------------------------------------------------------------
(* Properties                                                              *)

\* The business module a path belongs to, by whole path elements.
Within(path, m) ==
    LET base == moduleRoot \o <<"/">> \o Module(m)
    IN  path = base \/ IsPrefix(base \o <<"/">>, path)

\* "A deliberate cross-module import fails the lint" (ROADMAP.md:70), every one
\* of them is listed, and a package of one module may import its own module, the
\* other packages of the repository and other people's (main.go:113-159).
\* Packages whose name only begins like a module's are left to the reviewer: the
\* linter takes them for the module.
BoundariesKept ==
    verdict \in {"clean", "violations"} =>
        \A from \in DOMAIN program : \A to \in program[from] :
            LET crosses == \E m, n \in Modules : m # n /\ Within(from, m) /\ Within(to, n)
                alike == \E m \in Modules, path \in {from, to} :
                           /\ hasPrefix(path, moduleRoot \o <<"/">> \o Module(m))
                           /\ ~Within(path, m)
            IN  /\ crosses => <<from, to>> \in found
                /\ <<from, to>> \in found => crosses \/ alike
                /\ crosses => verdict = "violations"
=============================================================================
