---------------------------- MODULE ToolsProofs ----------------------------
(***************************************************************************)
(* Proofs about the import linter and config.Load, for every program and   *)
(* for every environment and .env file.                                    *)
(***************************************************************************)
EXTENDS Config, ArchLint, SequenceTheorems, WellFoundedInduction, TLAPS

(***************************************************************************)
(* Texts                                                                   *)
(***************************************************************************)

\* u is s followed by t, part by part.
Joins(u, s, t) ==
    /\ Len(u) = Len(s) + Len(t)
    /\ \A i \in 1..Len(s) : u[i] = s[i]
    /\ \A i \in 1..Len(t) : u[Len(s) + i] = t[i]

LEMMA Joined ==
    ASSUME NEW S, NEW s \in Seq(S), NEW t \in Seq(S)
    PROVE  s \o t \in Seq(S) /\ Joins(s \o t, s, t)
BY ConcatProperties DEF Joins

(***************************************************************************)
(* The import linter                                                       *)
(***************************************************************************)

\* What hasPrefix compares, character by character.
LEMMA PrefixElements ==
    ASSUME NEW S, NEW T, NEW s \in Seq(S), NEW t \in Seq(T)
    PROVE  IsPrefix(s, t) <=> Len(s) <= Len(t) /\ \A i \in 1..Len(s) : s[i] = t[i]
<1> DEFINE left == SubSeq(s, 1, Len(s))
           right == SubSeq(t, 1, Len(s))
<1>1. ASSUME Len(s) <= Len(t)
      PROVE  /\ left = [i \in 1..Len(s) |-> s[i]]
             /\ right = [i \in 1..Len(s) |-> t[i]]
  BY <1>1
<1>2. ASSUME Len(s) <= Len(t)
      PROVE  left = right <=> \A i \in 1..Len(s) : s[i] = t[i]
  BY <1>1, <1>2
<1> QED
  BY <1>2 DEF IsPrefix

\* The root of a business module, one piece after the other.
Base(m) == <<"root", "/", "internal", "/", m>>

LEMMA BaseOf ==
    ASSUME NEW m
    PROVE  moduleRoot \o <<"/">> \o Module(m) = Base(m)
<1> DEFINE C == {"root", "/", "internal", m}
           a == <<"root", "/">>
           b == <<"internal", "/", m>>
<1>1. moduleRoot \o <<"/">> = a
  <2> DEFINE c == <<"root">>
             d == <<"/">>
  <2>1. /\ c \in Seq(C) /\ d \in Seq(C) /\ Len(c) = 1 /\ Len(d) = 1
        /\ a \in Seq(C) /\ Len(a) = 2 /\ a[1] = c[1] /\ a[2] = d[1]
    OBVIOUS
  <2> HIDE DEF C, a, c, d
  <2>2. /\ c \o d \in Seq(C) /\ Len(c \o d) = 2
        /\ (c \o d)[1] = c[1] /\ (c \o d)[1 + 1] = d[1]
    <3>1. c \o d \in Seq(C) /\ Joins(c \o d, c, d)
      BY <2>1, Joined, Zenon
    <3> QED
      BY <2>1, <3>1 DEF Joins
  <2>3. \A i \in 1..2 : (c \o d)[i] = a[i]
    BY <2>1, <2>2
  <2>4. c \o d = a
    BY <2>1, <2>2, <2>3, SeqEqual
  <2> QED
    BY <2>4 DEF moduleRoot, c, d
<1>2. a \o b = Base(m)
  <2>1. /\ a \in Seq(C) /\ b \in Seq(C) /\ Len(a) = 2 /\ Len(b) = 3
        /\ Base(m) \in Seq(C) /\ Len(Base(m)) = 5
        /\ Base(m)[1] = a[1] /\ Base(m)[2] = a[2]
        /\ Base(m)[3] = b[1] /\ Base(m)[4] = b[2] /\ Base(m)[5] = b[3]
    BY DEF Base
  <2> HIDE DEF C, a, b
  <2>2. /\ a \o b \in Seq(C) /\ Len(a \o b) = 5
        /\ (a \o b)[1] = a[1] /\ (a \o b)[2] = a[2]
        /\ (a \o b)[2 + 1] = b[1] /\ (a \o b)[2 + 2] = b[2] /\ (a \o b)[2 + 3] = b[3]
    <3>1. a \o b \in Seq(C) /\ Joins(a \o b, a, b)
      BY <2>1, Joined, Zenon
    <3> QED
      BY <2>1, <3>1 DEF Joins
  <2>3. \A i \in 1..5 : (a \o b)[i] = Base(m)[i]
    BY <2>1, <2>2
  <2> QED
    BY <2>1, <2>2, <2>3, SeqEqual
<1> QED
  BY <1>1, <1>2 DEF Module

\* Paths that begin with a module's root, or with that and a slash.
LEMMA BasePrefix ==
    ASSUME NEW m, NEW path \in Seq(STRING)
    PROVE  /\ hasPrefix(path, moduleRoot \o <<"/">> \o Module(m)) <=>
                Len(path) >= 5 /\ \A i \in 1..5 : path[i] = Base(m)[i]
           /\ Within(path, m) => hasPrefix(path, moduleRoot \o <<"/">> \o Module(m))
           /\ Within(path, m) => hasPrefix(path, moduleRoot)
<1> DEFINE C == {"root", "/", "internal", m}
           long == Base(m) \o <<"/">>
<1>1. Base(m) \in Seq(C) /\ Len(Base(m)) = 5
  BY DEF Base
<1>2. hasPrefix(path, Base(m)) <=> Len(path) >= 5 /\ \A i \in 1..5 : path[i] = Base(m)[i]
  <2>1. IsPrefix(Base(m), path) <=>
          Len(Base(m)) <= Len(path) /\ \A i \in 1..Len(Base(m)) : Base(m)[i] = path[i]
    <3> HIDE DEF C
    <3> QED BY <1>1, PrefixElements
  <2> QED
    BY <1>1, <2>1 DEF hasPrefix
<1>3. long \in Seq(C) /\ Len(long) = 6 /\ \A i \in 1..5 : long[i] = Base(m)[i]
  BY DEF Base
<1>4. Within(path, m) => Len(path) >= 5 /\ \A i \in 1..5 : path[i] = Base(m)[i]
  <2>1. IsPrefix(long, path) => Len(path) >= 6 /\ \A i \in 1..6 : path[i] = long[i]
    <3> HIDE DEF long
    <3> QED BY <1>3, PrefixElements
  <2>2. CASE path = Base(m)
    BY <2>2, <1>1
  <2>3. CASE IsPrefix(long, path)
    <3> HIDE DEF long
    <3> QED BY <2>1, <2>3, <1>3
  <2> QED
    BY <2>2, <2>3, BaseOf DEF Within
<1>5. Len(path) >= 5 /\ (\A i \in 1..5 : path[i] = Base(m)[i]) => hasPrefix(path, moduleRoot)
  <2> SUFFICES ASSUME Len(path) >= 5, \A i \in 1..5 : path[i] = Base(m)[i]
               PROVE  IsPrefix(moduleRoot, path)
    BY DEF hasPrefix
  <2>1. moduleRoot \in Seq(C) /\ Len(moduleRoot) = 1 /\ moduleRoot[1] = "root"
    BY DEF moduleRoot
  <2>2. path[1] = "root"
    BY DEF Base
  <2> QED
    BY <2>1, <2>2, PrefixElements
<1> QED
  BY <1>2, <1>4, <1>5, BaseOf

\* The rules forbid what lies between two different modules, and nothing else.
LEMMA ForbiddenPairs ==
    ASSUME NEW from \in Seq(STRING), NEW to \in Seq(STRING)
    PROVE  isForbidden(from, to) <=>
             /\ hasPrefix(to, moduleRoot)
             /\ \E m, n \in Modules :
                  /\ m # n
                  /\ hasPrefix(from, moduleRoot \o <<"/">> \o Module(m))
                  /\ hasPrefix(to, moduleRoot \o <<"/">> \o Module(n))
<1> DEFINE F(m) == hasPrefix(from, moduleRoot \o <<"/">> \o m)
           T(m) == hasPrefix(to, moduleRoot \o <<"/">> \o m)
           o == Module("order")
           v == Module("inventory")
           h == Module("shipment")
<1> HIDE DEF F, T
<1>1. (\E i \in DOMAIN Rules : F(Rules[i].module) /\ \E d \in Rules[i].deny : T(d)) <=>
        \/ F(o) /\ (T(v) \/ T(h))
        \/ F(v) /\ (T(o) \/ T(h))
        \/ F(h) /\ (T(o) \/ T(v))
  <2>1. /\ DOMAIN Rules = 1..3
        /\ Rules[1].module = o /\ Rules[1].deny = {v, h}
        /\ Rules[2].module = v /\ Rules[2].deny = {o, h}
        /\ Rules[3].module = h /\ Rules[3].deny = {o, v}
    BY DEF Rules
  <2> HIDE DEF o, v, h
  <2> QED
    BY <2>1
<1>2. (\E m, n \in Modules : m # n /\ F(Module(m)) /\ T(Module(n))) <=>
        \/ F(o) /\ (T(v) \/ T(h))
        \/ F(v) /\ (T(o) \/ T(h))
        \/ F(h) /\ (T(o) \/ T(v))
  BY DEF Modules
<1> QED
  BY <1>1, <1>2 DEF isForbidden, F, T

\* A package of one module that imports another is forbidden it, and what is
\* forbidden crosses a boundary or has a name that begins like a module's.
LEMMA ForbiddenCrosses ==
    ASSUME NEW from \in Seq(STRING), NEW to \in Seq(STRING)
    PROVE  LET crosses == \E m, n \in Modules : m # n /\ Within(from, m) /\ Within(to, n)
               alike == \E m \in Modules, path \in {from, to} :
                          /\ hasPrefix(path, moduleRoot \o <<"/">> \o Module(m))
                          /\ ~Within(path, m)
           IN  /\ crosses => isForbidden(from, to)
               /\ isForbidden(from, to) => crosses \/ alike
<1>1. ASSUME NEW m \in Modules, NEW n \in Modules, m # n, Within(from, m), Within(to, n)
      PROVE  isForbidden(from, to)
  <2>1. /\ hasPrefix(to, moduleRoot)
        /\ hasPrefix(from, moduleRoot \o <<"/">> \o Module(m))
        /\ hasPrefix(to, moduleRoot \o <<"/">> \o Module(n))
    BY <1>1, BasePrefix
  <2> QED
    BY <1>1, <2>1, ForbiddenPairs, Zenon
<1>2. ASSUME isForbidden(from, to)
      PROVE  \/ \E m, n \in Modules : m # n /\ Within(from, m) /\ Within(to, n)
             \/ \E m \in Modules, path \in {from, to} :
                  /\ hasPrefix(path, moduleRoot \o <<"/">> \o Module(m))
                  /\ ~Within(path, m)
  BY <1>2, ForbiddenPairs, Zenon
<1> QED
  BY <1>1, <1>2

(***************************************************************************)
(* What holds while the packages are looked at one after the other: the    *)
(* violations found are those of the packages that are done.               *)
(***************************************************************************)
LintInv ==
    /\ program \in Programs
    /\ \A from \in DOMAIN program : \A to \in program[from] :
         <<from, to>> \in found <=> from \notin todo /\ isForbidden(from, to)
    /\ verdict \in {"clean", "violations"} =>
         todo = {} /\ verdict = IF found = {} THEN "clean" ELSE "violations"

LEMMA LintStart == LintInit => LintInv
BY DEF LintInit, LintInv

LEMMA LintStep == LintInv /\ [LintNext]_lintVars => LintInv'
<1> SUFFICES ASSUME LintInv, [LintNext]_lintVars
             PROVE  LintInv'
  OBVIOUS
<1>1. CASE ScanFails
  BY <1>1 DEF LintInv, ScanFails
<1>2. ASSUME NEW pkg \in todo, Check(pkg)
      PROVE  LintInv'
  <2>1. /\ verdict' = "none" /\ program' = program /\ todo' = todo \ {pkg}
        /\ found' = found \cup {<<pkg, imp>> : imp \in {i \in program[pkg] : isForbidden(pkg, i)}}
    BY <1>2 DEF Check
  <2>2. ASSUME NEW from \in DOMAIN program, NEW to \in program[from]
        PROVE  <<from, to>> \in found' <=> from \notin todo' /\ isForbidden(from, to)
    <3>1. <<from, to>> \in found <=> from \notin todo /\ isForbidden(from, to)
      BY DEF LintInv
    <3>2. CASE from = pkg
      BY <2>1, <3>1, <3>2
    <3>3. CASE from # pkg
      BY <2>1, <3>1, <3>3
    <3> QED
      BY <3>2, <3>3
  <2> QED
    BY <2>1, <2>2 DEF LintInv
<1>3. CASE Finish
  BY <1>3 DEF LintInv, Finish
<1>4. CASE UNCHANGED lintVars
  BY <1>4 DEF LintInv, lintVars
<1> QED
  BY <1>1, <1>2, <1>3, <1>4 DEF LintNext

\* For every program: a linter that ends without an error has listed every import
\* that crosses a module boundary and failed the build if there is one
\* (main.go:113-159).
THEOREM BoundariesAlwaysKept == LintSpec => []BoundariesKept
<1>1. LintInv => BoundariesKept
  <2> SUFFICES ASSUME LintInv, verdict \in {"clean", "violations"},
                      NEW from \in DOMAIN program, NEW to \in program[from]
               PROVE  LET crosses == \E m, n \in Modules :
                                       m # n /\ Within(from, m) /\ Within(to, n)
                          alike == \E m \in Modules, path \in {from, to} :
                                     /\ hasPrefix(path, moduleRoot \o <<"/">> \o Module(m))
                                     /\ ~Within(path, m)
                      IN  /\ crosses => <<from, to>> \in found
                          /\ <<from, to>> \in found => crosses \/ alike
                          /\ crosses => verdict = "violations"
    BY DEF BoundariesKept
  <2>1. from \in Seq(STRING) /\ to \in Seq(STRING)
    BY ProgramsAssumption DEF LintInv
  <2>2. <<from, to>> \in found <=> isForbidden(from, to)
    BY DEF LintInv
  <2>3. <<from, to>> \in found => verdict = "violations"
    BY DEF LintInv
  <2> QED
    BY <2>1, <2>2, <2>3, ForbiddenCrosses, Zenon
<1> QED
  BY <1>1, LintStart, LintStep, PTL DEF LintSpec

(***************************************************************************)
(* config.Load: what the scanner's helpers return                          *)
(***************************************************************************)

LEMMA FirstOf ==
    ASSUME NEW S \in SUBSET Nat, S # {}
    PROVE  Min(S) \in S /\ \A y \in S : Min(S) <= y
<1>1. PICK x \in S : \A y \in S : ~(<<y, x>> \in OpToRel(<, Nat))
  BY NatLessThanWellFounded, WFMin
<1>2. ASSUME NEW y \in S PROVE x <= y
  <2>1. ~(y < x)
    BY <1>1 DEF OpToRel
  <2> QED
    BY <2>1
<1> QED
  BY <1>2 DEF Min

LEMMA LastOf ==
    ASSUME NEW n \in Nat, NEW S \in SUBSET (1..n), S # {}
    PROVE  Max(S) \in S /\ \A y \in S : Max(S) >= y
<1> DEFINE R == {n - x : x \in S}
<1>1. R \in SUBSET Nat /\ R # {}
  <2>1. \A x \in S : n - x \in Nat
    OBVIOUS
  <2> QED
    BY <2>1
<1>2. PICK r \in R : \A y \in R : r <= y
  BY <1>1, FirstOf
<1>3. PICK x \in S : r = n - x
  OBVIOUS
<1>4. \A y \in S : x >= y
  <2> TAKE y \in S
  <2>1. n - x <= n - y
    BY <1>2, <1>3
  <2> QED
    BY <2>1
<1> QED
  BY <1>4 DEF Max

\* Where a character is found first.
LEMMA IndexFirst ==
    ASSUME NEW C, NEW s \in Seq(C), NEW chars, NEW n \in 1..Len(s), s[n] \in chars,
           \A i \in 1..(n - 1) : s[i] \notin chars
    PROVE  IndexAny(s, chars) = n
<1> DEFINE I == {i \in 1..Len(s) : s[i] \in chars}
<1>1. IndexAny(s, chars) = Min(I)
  BY DEF IndexAny, SelectInSeq
<1>2. I \in SUBSET Nat /\ n \in I /\ \A y \in I : n <= y
  OBVIOUS
<1> HIDE DEF I
<1>3. Min(I) \in I /\ \A y \in I : Min(I) <= y
  BY <1>2, FirstOf
<1>4. Min(I) \in Nat /\ n <= Min(I) /\ Min(I) <= n
  BY <1>2, <1>3
<1> QED
  BY <1>1, <1>4

LEMMA IndexNone ==
    ASSUME NEW C, NEW s \in Seq(C), NEW chars, \A i \in 1..Len(s) : s[i] \notin chars
    PROVE  IndexAny(s, chars) = 0
BY DEF IndexAny, SelectInSeq

LEMMA IndexPlace ==
    ASSUME NEW C, NEW s \in Seq(C), NEW chars
    PROVE  /\ IndexAny(s, chars) \in 0..Len(s)
           /\ IndexAny(s, chars) > 0 => s[IndexAny(s, chars)] \in chars
<1> DEFINE I == {i \in 1..Len(s) : s[i] \in chars}
<1>1. CASE I = {}
  BY <1>1, IndexNone
<1>2. CASE I # {}
  <2>1. IndexAny(s, chars) = Min(I)
    BY <1>2 DEF IndexAny, SelectInSeq
  <2>2. Min(I) \in I
    <3>1. I \in SUBSET Nat
      OBVIOUS
    <3> HIDE DEF I
    <3> QED BY <1>2, <3>1, FirstOf
  <2> QED
    BY <2>1, <2>2
<1> QED
  BY <1>1, <1>2

\* TrimSpace keeps what lies between the first and the last character that is
\* not a blank.
LEMMA Trimmed ==
    ASSUME NEW C, NEW s \in Seq(C), NEW a \in 1..Len(s), NEW b \in 1..Len(s), a <= b,
           s[a] # Blank, s[b] # Blank,
           \A i \in 1..Len(s) : i < a \/ b < i => s[i] = Blank
    PROVE  TrimSpace(s) = SubSeq(s, a, b)
<1> DEFINE I == {i \in DOMAIN s : s[i] # Blank}
<1>1. /\ I \in SUBSET (1..Len(s)) /\ I \in SUBSET Nat /\ a \in I /\ b \in I
      /\ \A y \in I : a <= y /\ y <= b
  <2>1. DOMAIN s = 1..Len(s)
    OBVIOUS
  <2>2. ASSUME NEW y \in 1..Len(s), s[y] # Blank PROVE a <= y /\ y <= b
    BY <2>2
  <2> QED
    BY <2>1, <2>2
<1> HIDE DEF I
<1>2. Min(I) \in I /\ \A y \in I : Min(I) <= y
  BY <1>1, FirstOf
<1>3. Max(I) \in I /\ \A y \in I : Max(I) >= y
  <2>1. Len(s) \in Nat
    OBVIOUS
  <2> QED
    BY <1>1, <2>1, LastOf
<1>4. Min(I) = a /\ Max(I) = b
  <2>1. Min(I) \in Nat /\ Max(I) \in Nat
    BY <1>1, <1>2, <1>3
  <2>2. a <= Min(I) /\ Min(I) <= a /\ Max(I) <= b /\ b <= Max(I)
    BY <1>1, <1>2, <1>3
  <2> QED
    BY <2>1, <2>2
<1>5. I # {} => TrimSpace(s) = SubSeq(s, Min(I), Max(I))
  BY DEF TrimSpace, I
<1> QED
  BY <1>1, <1>4, <1>5

LEMMA TrimSame ==
    ASSUME NEW C, NEW s \in Seq(C), s # <<>>, s[1] # Blank, s[Len(s)] # Blank
    PROVE  TrimSpace(s) = s
<1>1. Len(s) \in Nat \ {0}
  BY EmptySeq
<1>2. TrimSpace(s) = SubSeq(s, 1, Len(s))
  <2>1. 1 \in 1..Len(s) /\ Len(s) \in 1..Len(s) /\ 1 <= Len(s)
    BY <1>1
  <2>2. \A i \in 1..Len(s) : i < 1 \/ Len(s) < i => s[i] = Blank
    BY <1>1
  <2> QED
    BY <2>1, <2>2, Trimmed
<1> QED
  BY <1>2, SubSeqFull

LEMMA TrimBlank ==
    ASSUME NEW C, NEW s \in Seq(C), \A i \in 1..Len(s) : s[i] = Blank
    PROVE  TrimSpace(s) = <<>>
<1>1. {i \in DOMAIN s : s[i] # Blank} = {}
  <2>1. DOMAIN s = 1..Len(s)
    OBVIOUS
  <2> QED
    BY <2>1
<1> QED
  BY <1>1 DEF TrimSpace

\* A text that TrimSpace leaves alone has no blanks at its ends.
LEMMA TrimFixed ==
    ASSUME NEW C, NEW s \in Seq(C), s # <<>>, s = TrimSpace(s)
    PROVE  s[1] # Blank /\ s[Len(s)] # Blank
<1> DEFINE I == {i \in DOMAIN s : s[i] # Blank}
<1>1. I # {}
  BY DEF TrimSpace
<1>2. I \in SUBSET (1..Len(s)) /\ I \in SUBSET Nat
  <2>1. DOMAIN s = 1..Len(s)
    OBVIOUS
  <2> QED
    BY <2>1
<1>3. Min(I) \in I /\ Max(I) \in I /\ Min(I) <= Max(I)
  <2> HIDE DEF I
  <2>1. Min(I) \in I /\ \A y \in I : Min(I) <= y
    BY <1>1, <1>2, FirstOf
  <2>2. Max(I) \in I
    <3>1. Len(s) \in Nat
      OBVIOUS
    <3> QED
      BY <1>1, <1>2, <3>1, LastOf
  <2> QED BY <2>1, <2>2
<1>4. s = SubSeq(s, Min(I), Max(I))
  BY <1>1 DEF TrimSpace
<1> DEFINE lo == Min(I)
           hi == Max(I)
<1>5. lo \in 1..Len(s) /\ hi \in 1..Len(s) /\ lo <= hi /\ s[lo] # Blank /\ s[hi] # Blank
  BY <1>2, <1>3
<1> HIDE DEF lo, hi, I
<1>6. s = SubSeq(s, lo, hi)
  BY <1>4 DEF lo, hi
<1>7. Len(s) = hi - lo + 1
  <2>1. \A i \in lo..hi : s[i] \in C
    BY <1>5, ElementOfSeq
  <2>2. Len(SubSeq(s, lo, hi)) = hi - lo + 1
    BY <1>5, <2>1, SubSeqProperties
  <2> QED
    BY <1>6, <2>2
<1>8. lo = 1 /\ hi = Len(s)
  BY <1>5, <1>7
<1> QED
  BY <1>5, <1>8

(***************************************************************************)
(* config.Load: what becomes of one line                                   *)
(***************************************************************************)

\* The characters of a line.
Chars == STRING \cup Settings \cup Quotes \cup {"=", Blank, "#", "v", "'"}

LEMMA CharsDiffer ==
    /\ \A k \in Settings : k # "=" /\ k # "#" /\ k # Blank
    /\ "=" # Blank /\ "#" # Blank /\ "'" # Blank /\ "#" # "="
    /\ Blank \notin Quotes
<1>1. ToSet(Required) = {"POSTGRES_DSN", "JWT_SECRET"}
  <2>1. DOMAIN Required = 1..2 /\ Required[1] = "POSTGRES_DSN" /\ Required[2] = "JWT_SECRET"
    BY DEF Required
  <2> QED
    BY <2>1 DEF ToSet
<1>2. \A k \in Settings : k # "=" /\ k # "#"
  BY <1>1 DEF Settings, Numbers, Strings
<1>3. \A k \in Settings : k # Blank
  BY <1>1, Zenon DEF Settings, Numbers, Strings, Blank
<1>4. "=" # Blank /\ "#" # Blank /\ "'" # Blank
  BY Zenon DEF Blank
<1>5. Blank \notin Quotes
  BY Zenon DEF Blank, Quotes
<1> QED
  BY <1>2, <1>3, <1>4, <1>5

\* The key and the "=" of a line, whatever follows them.
LEMMA KeyPart ==
    ASSUME NEW k \in Settings, NEW rest \in Seq(Chars), NEW line,
           line = <<k, "=">> \o rest
    PROVE  /\ keyOf(line) = <<k>>
           /\ SubSeq(line, IndexAny(line, {"="}) + 1, Len(line)) = rest
<1> DEFINE head == <<k, "=">>
<1>1. head \in Seq(Chars) /\ Len(head) = 2 /\ head[1] = k /\ head[2] = "="
  BY DEF Chars
<1> HIDE DEF head
<1>2. line \in Seq(Chars) /\ Joins(line, head, rest)
  BY <1>1, Joined DEF head
<1>3. /\ Len(line) = Len(rest) + 2 /\ line[1] = k /\ line[2] = "="
      /\ \A i \in 1..Len(rest) : line[i + 2] = rest[i]
  <2>1. \A i \in 1..Len(rest) : line[2 + i] = rest[i]
    BY <1>1, <1>2 DEF Joins
  <2> QED
    BY <1>1, <1>2, <2>1 DEF Joins
<1>4. Len(rest) \in Nat
  OBVIOUS
<1>5. IndexAny(line, {"="}) = 2
  <2>1. 2 \in 1..Len(line) /\ line[2] \in {"="}
    BY <1>3, <1>4
  <2>2. \A i \in 1..(2 - 1) : line[i] \notin {"="}
    BY <1>3, CharsDiffer
  <2> QED
    BY <1>2, <2>1, <2>2, IndexFirst
<1>6. keyOf(line) = <<k>>
  <2>1. SubSeq(line, 1, 1) = <<k>>
    <3> DEFINE one == <<k>>
    <3>1. one \in Seq(Chars) /\ Len(one) = 1 /\ one[1] = k
      BY DEF Chars
    <3>2. \A i \in 1..1 : line[i] \in Chars
      BY <1>3 DEF Chars
    <3>3. /\ SubSeq(line, 1, 1) \in Seq(Chars) /\ Len(SubSeq(line, 1, 1)) = 1
          /\ \A i \in 1..1 : SubSeq(line, 1, 1)[i] = line[i]
      BY <3>2, SubSeqProperties
    <3> HIDE DEF one
    <3>4. SubSeq(line, 1, 1) = one
      BY <1>3, <3>1, <3>3, SeqEqual
    <3> QED
      BY <3>4 DEF one
  <2>2. <<k>> \in Seq(Chars) /\ <<k>> # <<>> /\ Len(<<k>>) = 1 /\ <<k>>[1] = k
    BY DEF Chars
  <2>3. TrimSpace(<<k>>) = <<k>>
    <3> DEFINE one == <<k>>
    <3> HIDE DEF one
    <3>1. one \in Seq(Chars) /\ one # <<>> /\ one[1] # Blank /\ one[Len(one)] # Blank
      BY <2>2, CharsDiffer DEF one
    <3>2. TrimSpace(one) = one
      BY <3>1, TrimSame
    <3> QED
      BY <3>2 DEF one
  <2>4. line # <<>> /\ line[1] # "#"
    BY <1>2, <1>3, <1>4, CharsDiffer
  <2> QED
    <3>1. IndexAny(line, {"="}) - 1 = 1 /\ IndexAny(line, {"="}) # 0
      BY <1>5
    <3> QED
      BY <2>1, <2>3, <2>4, <3>1, Zenon DEF keyOf
<1>7. SubSeq(line, 3, Len(line)) = rest
  <2>1. \A i \in 3..Len(line) : line[i] \in Chars
    BY <1>2, ElementOfSeq
  <2>2. /\ SubSeq(line, 3, Len(line)) \in Seq(Chars)
        /\ Len(SubSeq(line, 3, Len(line))) = Len(rest)
        /\ \A i \in 1..Len(rest) : SubSeq(line, 3, Len(line))[i] = line[3 + i - 1]
    BY <1>2, <1>3, <1>4, <2>1, SubSeqProperties
  <2>3. \A i \in 1..Len(rest) : SubSeq(line, 3, Len(line))[i] = rest[i]
    BY <1>3, <2>2
  <2> QED
    BY <2>2, <2>3, SeqEqual
<1>8. IndexAny(line, {"="}) + 1 = 3
  BY <1>5
<1> QED
  BY <1>6, <1>7, <1>8, Zenon

\* What TrimSpace leaves of a line: all of it, or no more than the "=" when only
\* blanks follow.
LEMMA TrimLine ==
    ASSUME NEW k \in Settings, NEW rest \in Seq(Chars)
    PROVE  /\ rest # <<>> /\ rest[Len(rest)] # Blank =>
                TrimSpace(<<k, "=">> \o rest) = <<k, "=">> \o rest
           /\ (\A i \in 1..Len(rest) : rest[i] = Blank) =>
                TrimSpace(<<k, "=">> \o rest) = <<k, "=">> \o <<>>
<1> DEFINE head == <<k, "=">>
           raw == head \o rest
<1>1. head \in Seq(Chars) /\ Len(head) = 2 /\ head[1] = k /\ head[2] = "="
  BY DEF Chars
<1> HIDE DEF head
<1>2. raw \in Seq(Chars) /\ Joins(raw, head, rest)
  BY <1>1, Joined
<1> HIDE DEF raw
<1>3. /\ Len(raw) = Len(rest) + 2 /\ raw[1] = k /\ raw[2] = "="
      /\ \A i \in 1..Len(rest) : raw[i + 2] = rest[i]
  <2>1. \A i \in 1..Len(rest) : raw[2 + i] = rest[i]
    BY <1>1, <1>2 DEF Joins
  <2> QED
    BY <1>1, <1>2, <2>1 DEF Joins
<1>4. Len(rest) \in Nat /\ k # Blank /\ "=" # Blank
  BY CharsDiffer
<1>5. ASSUME rest # <<>>, rest[Len(rest)] # Blank
      PROVE  TrimSpace(raw) = raw
  <2>1. Len(rest) \in Nat \ {0}
    BY <1>5, EmptySeq
  <2>2. raw[Len(raw)] # Blank
    BY <1>3, <1>5, <2>1
  <2>3. raw # <<>> /\ raw[1] # Blank
    BY <1>2, <1>3, <1>4
  <2> QED
    BY <1>2, <2>2, <2>3, TrimSame
<1>6. ASSUME \A i \in 1..Len(rest) : rest[i] = Blank
      PROVE  TrimSpace(raw) = head
  <2>1. \A i \in 1..Len(raw) : i < 1 \/ 2 < i => raw[i] = Blank
    <3> SUFFICES ASSUME NEW i \in 1..Len(raw), 2 < i
                 PROVE  raw[i] = Blank
      OBVIOUS
    <3>1. (i - 2) \in 1..Len(rest) /\ (i - 2) + 2 = i
      BY <1>3, <1>4
    <3> QED
      BY <1>3, <1>6, <3>1
  <2>2. TrimSpace(raw) = SubSeq(raw, 1, 2)
    <3>1. 1 \in 1..Len(raw) /\ 2 \in 1..Len(raw) /\ 1 <= 2 /\ raw[1] # Blank /\ raw[2] # Blank
      BY <1>3, <1>4
    <3> QED
      BY <1>2, <2>1, <3>1, Trimmed
  <2>3. \A i \in 1..2 : raw[i] \in Chars
    BY <1>2, <1>3, <1>4, ElementOfSeq
  <2>4. /\ SubSeq(raw, 1, 2) \in Seq(Chars) /\ Len(SubSeq(raw, 1, 2)) = 2
        /\ \A i \in 1..2 : SubSeq(raw, 1, 2)[i] = raw[i]
    BY <2>3, SubSeqProperties
  <2>5. \A i \in 1..2 : SubSeq(raw, 1, 2)[i] = head[i]
    BY <1>1, <1>3, <2>4
  <2> QED
    BY <1>1, <2>2, <2>4, <2>5, SeqEqual
<1>7. head \o <<>> = head
  BY <1>1, ConcatEmptySeq
<1> QED
  BY <1>5, <1>6, <1>7 DEF raw, head

\* A value in quotes ends at the matching one.
LEMMA QuotedValue ==
    ASSUME NEW q \in Quotes, NEW t \in Seq(Chars), q \notin ToSet(t),
           NEW w \in Seq(Chars), Len(w) >= Len(t) + 2,
           w[1] = q, \A i \in 1..Len(t) : w[i + 1] = t[i], w[Len(t) + 2] = q,
           w[Len(w)] # Blank
    PROVE  valueOf(w) = t
<1>1. Len(t) \in Nat /\ Len(w) \in Nat /\ w # <<>>
  OBVIOUS
<1>2. TrimSpace(w) = w
  <2>1. w[1] # Blank
    BY CharsDiffer
  <2> QED
    BY <1>1, <2>1, TrimSame
<1>3. /\ Tail(w) \in Seq(Chars) /\ Len(Tail(w)) = Len(w) - 1
      /\ \A i \in 1..(Len(w) - 1) : Tail(w)[i] = w[i + 1]
  BY <1>1
<1> DEFINE u == Tail(w)
           n == Len(t) + 1
<1>4. IndexAny(u, {q}) = n
  <2>1. n \in 1..Len(u) /\ u[n] \in {q}
    BY <1>1, <1>3
  <2>2. ASSUME NEW i \in 1..(n - 1) PROVE u[i] \notin {q}
    <3>1. i \in 1..Len(t) /\ i \in 1..(Len(w) - 1) /\ i \in DOMAIN t
      BY <1>1
    <3>2. u[i] = t[i]
      BY <1>3, <3>1
    <3>3. t[i] # q
      BY <3>1 DEF ToSet
    <3> QED
      BY <3>2, <3>3
  <2> HIDE DEF u, n
  <2>3. u \in Seq(Chars)
    BY <1>3 DEF u
  <2> QED
    BY <2>1, <2>2, <2>3, IndexFirst
<1>5. SubSeq(w, 2, n) = t
  <2>1. \A i \in 2..n : w[i] \in Chars
    BY <1>1, ElementOfSeq
  <2>2. /\ SubSeq(w, 2, n) \in Seq(Chars) /\ Len(SubSeq(w, 2, n)) = Len(t)
        /\ \A i \in 1..Len(t) : SubSeq(w, 2, n)[i] = w[2 + i - 1]
    BY <1>1, <2>1, SubSeqProperties
  <2>3. \A i \in 1..Len(t) : SubSeq(w, 2, n)[i] = t[i]
    BY <2>2
  <2> QED
    BY <2>2, <2>3, SeqEqual
<1>6. n > 0
  BY <1>1
<1> HIDE DEF n
<1> QED
  BY <1>1, <1>2, <1>4, <1>5, <1>6, Zenon DEF valueOf

\* A bare value is all there is, unless a blank and a "#" are in it ...
LEMMA BareValue ==
    ASSUME NEW raw, NEW t \in Seq(Chars), t # <<>>, TrimSpace(raw) = t,
           t[1] \notin Quotes, "#" \in ToSet(t) => Blank \notin ToSet(t)
    PROVE  valueOf(raw) = t
<1> DEFINE i == IndexAny(t, {Blank})
<1>1. Len(t) \in Nat /\ DOMAIN t = 1..Len(t)
  OBVIOUS
<1>2. i \in 0..Len(t) /\ (i > 0 => t[i] \in {Blank})
  BY IndexPlace
<1> HIDE DEF i
<1>3. ASSUME i > 0 PROVE "#" \notin ToSet(SubSeq(t, i, Len(t)))
  <2>1. i \in 1..Len(t) /\ Blank \in ToSet(t)
    BY <1>1, <1>2, <1>3 DEF ToSet
  <2>2. \A j \in 1..Len(t) : t[j] # "#"
    BY <1>1, <2>1 DEF ToSet
  <2>3. \A j \in i..Len(t) : t[j] \in Chars
    BY <1>1, <2>1, ElementOfSeq
  <2> DEFINE r == SubSeq(t, i, Len(t))
  <2>4. /\ r \in Seq(Chars) /\ Len(r) = Len(t) - i + 1
        /\ \A j \in 1..(Len(t) - i + 1) : r[j] = t[i + j - 1]
    BY <1>1, <2>1, <2>3, SubSeqProperties
  <2> HIDE DEF r
  <2>5. ASSUME NEW j \in DOMAIN r PROVE r[j] # "#"
    <3>1. j \in 1..(Len(t) - i + 1) /\ (i + j - 1) \in 1..Len(t)
      BY <1>1, <2>1, <2>4
    <3> QED
      BY <2>2, <2>4, <3>1
  <2>6. "#" \notin ToSet(r)
    BY <2>5 DEF ToSet
  <2> QED
    BY <2>6 DEF r
<1> QED
  BY <1>3, Zenon DEF valueOf, i

\* ... as where a note follows: then it ends at the blank before the note.
LEMMA NotedValue ==
    ASSUME NEW raw, NEW t \in Seq(Chars), t # <<>>, NEW w \in Seq(Chars),
           TrimSpace(raw) = w, t[1] \notin Quotes, Blank \notin ToSet(t),
           Len(w) >= Len(t) + 2, \A i \in 1..Len(t) : w[i] = t[i],
           w[Len(t) + 1] = Blank, w[Len(t) + 2] = "#"
    PROVE  valueOf(raw) = t
<1> DEFINE n == Len(t) + 1
<1>1. /\ Len(t) \in Nat \ {0} /\ Len(w) \in Nat /\ DOMAIN t = 1..Len(t)
      /\ w # <<>> /\ w[1] = t[1]
  BY EmptySeq
<1>2. \A i \in 1..Len(t) : t[i] # Blank
  BY <1>1 DEF ToSet
<1>3. IndexAny(w, {Blank}) = n
  <2>1. n \in 1..Len(w) /\ w[n] \in {Blank}
    BY <1>1
  <2>2. ASSUME NEW i \in 1..(n - 1) PROVE w[i] \notin {Blank}
    <3>1. i \in 1..Len(t)
      BY <1>1
    <3> QED
      BY <1>2, <3>1
  <2> HIDE DEF n
  <2> QED
    BY <2>1, <2>2, IndexFirst
<1>4. "#" \in ToSet(SubSeq(w, n, Len(w)))
  <2> DEFINE r == SubSeq(w, n, Len(w))
  <2>1. \A j \in n..Len(w) : w[j] \in Chars
    BY <1>1, ElementOfSeq
  <2>2. /\ r \in Seq(Chars) /\ Len(r) = Len(w) - n + 1
        /\ \A j \in 1..(Len(w) - n + 1) : r[j] = w[n + j - 1]
    BY <1>1, <2>1, SubSeqProperties
  <2> HIDE DEF r
  <2>3. 2 \in 1..(Len(w) - n + 1) /\ n + 2 - 1 = Len(t) + 2
    BY <1>1
  <2>4. 2 \in DOMAIN r /\ r[2] = "#"
    <3>1. Len(r) \in Nat /\ DOMAIN r = 1..Len(r)
      BY <2>2
    <3>2. r[2] = w[n + 2 - 1]
      BY <2>2, <2>3, Zenon
    <3>3. w[n + 2 - 1] = "#"
      BY <2>3, Zenon
    <3> HIDE DEF n
    <3> QED
      BY <2>2, <2>3, <3>1, <3>2, <3>3, Zenon
  <2>5. "#" \in ToSet(r)
    BY <2>4 DEF ToSet
  <2> QED
    BY <2>5 DEF r
<1>5. SubSeq(w, 1, n - 1) = t
  <2>1. n - 1 = Len(t)
    BY <1>1
  <2>2. \A i \in 1..Len(t) : w[i] \in Chars
    BY <1>1, ElementOfSeq
  <2>3. /\ SubSeq(w, 1, Len(t)) \in Seq(Chars) /\ Len(SubSeq(w, 1, Len(t))) = Len(t)
        /\ \A i \in 1..Len(t) : SubSeq(w, 1, Len(t))[i] = w[1 + i - 1]
    BY <1>1, <2>2, SubSeqProperties
  <2>4. \A i \in 1..Len(t) : SubSeq(w, 1, Len(t))[i] = t[i]
    BY <2>3
  <2>5. SubSeq(w, 1, Len(t)) = t
    BY <2>3, <2>4, SeqEqual
  <2> HIDE DEF n
  <2> QED
    BY <2>1, <2>5
<1>6. TrimSpace(t) = t
  <2>1. t[1] # Blank /\ t[Len(t)] # Blank
    BY <1>1, <1>2
  <2> QED
    BY <2>1, TrimSame
<1>7. n > 0
  BY <1>1
<1> HIDE DEF n
<1> QED
  BY <1>1, <1>3, <1>4, <1>5, <1>6, <1>7, Zenon DEF valueOf

LEMMA EmptyValue == valueOf(<<>>) = <<>>
<1>1. <<>> \in Seq(Chars) /\ \A i \in 1..Len(<<>>) : <<>>[i] = Blank
  OBVIOUS
<1>2. TrimSpace(<<>>) = <<>>
  BY <1>1, TrimBlank
<1>3. IndexAny(<<>>, {Blank}) = 0
  BY DEF IndexAny, SelectInSeq
<1>4. ~(0 > 0)
  OBVIOUS
<1> QED
  BY <1>2, <1>3, <1>4, Zenon DEF valueOf

\* What a line that Load reads comes to: a key and a value.
Assigns(raw, k, t) ==
    LET line == TrimSpace(raw)
    IN  /\ keyOf(line) = <<k>>
        /\ valueOf(SubSeq(line, IndexAny(line, {"="}) + 1, Len(line))) = t

LEMMA AssignsRest ==
    ASSUME NEW k \in Settings, NEW t, NEW rest \in Seq(Chars),
           \/ rest # <<>> /\ rest[Len(rest)] # Blank /\ valueOf(rest) = t
           \/ (\A i \in 1..Len(rest) : rest[i] = Blank) /\ t = <<>>
    PROVE  Assigns(<<k, "=">> \o rest, k, t)
<1>1. CASE rest # <<>> /\ rest[Len(rest)] # Blank /\ valueOf(rest) = t
  <2> DEFINE line == <<k, "=">> \o rest
  <2>1. TrimSpace(line) = line
    BY <1>1, TrimLine
  <2>2. /\ keyOf(line) = <<k>>
        /\ SubSeq(line, IndexAny(line, {"="}) + 1, Len(line)) = rest
    BY KeyPart
  <2> HIDE DEF line
  <2>3. Assigns(line, k, t)
    BY <1>1, <2>1, <2>2, Zenon DEF Assigns
  <2> QED
    BY <2>3 DEF line
<1>2. CASE (\A i \in 1..Len(rest) : rest[i] = Blank) /\ t = <<>>
  <2> DEFINE raw == <<k, "=">> \o rest
             line == <<k, "=">> \o <<>>
  <2>1. TrimSpace(raw) = line
    BY <1>2, TrimLine
  <2>2. /\ keyOf(line) = <<k>>
        /\ SubSeq(line, IndexAny(line, {"="}) + 1, Len(line)) = <<>>
    <3>1. <<>> \in Seq(Chars)
      OBVIOUS
    <3> QED
      BY <3>1, KeyPart
  <2> HIDE DEF raw, line
  <2>3. Assigns(raw, k, t)
    BY <1>2, <2>1, <2>2, EmptyValue, Zenon DEF Assigns
  <2> QED
    BY <2>3 DEF raw
<1> QED
  BY <1>1, <1>2

\* The note behind a value, or nothing.
NoteOf(note) == IF note THEN <<Blank, "#", "v", "'">> ELSE <<>>

LEMMA NoteShape ==
    ASSUME NEW note \in BOOLEAN
    PROVE  /\ NoteOf(note) \in Seq(Chars)
           /\ ~note => NoteOf(note) = <<>> /\ Len(NoteOf(note)) = 0
           /\ note => /\ Len(NoteOf(note)) = 4 /\ NoteOf(note)[1] = Blank
                      /\ NoteOf(note)[2] = "#" /\ NoteOf(note)[4] = "'"
<1>1. CASE note = TRUE
  BY <1>1 DEF NoteOf, Chars
<1>2. CASE note = FALSE
  BY <1>2 DEF NoteOf
<1> QED
  BY <1>1, <1>2

Grouped(r, s, t) == (r \o s) \o t = r \o (s \o t)

LEMMA Regroup == \A r, s, t \in Seq(Chars) : Grouped(r, s, t)
BY ConcatAssociative DEF Grouped

\* A line, with everything behind the "=" in one piece.
LEMMA RawParts ==
    ASSUME NEW l, l.key \in Settings, l.text \in Seq(Chars), l.note \in BOOLEAN
    PROVE  /\ l.style = "bare" =>
                Raw(l) = <<l.key, "=">> \o (l.text \o NoteOf(l.note))
           /\ l.style = "spaced" =>
                Raw(l) = <<l.key, "=">> \o (<<Blank>> \o (l.text \o NoteOf(l.note)))
           /\ l.style \in Quotes =>
                Raw(l) = <<l.key, "=">>
                           \o (((<<l.style>> \o l.text) \o <<l.style>>) \o NoteOf(l.note))
<1> DEFINE head == <<l.key, "=">>
           blank == <<Blank>>
           t == l.text
           note == NoteOf(l.note)
<1>1. head \in Seq(Chars) /\ blank \in Seq(Chars) /\ t \in Seq(Chars) /\ note \in Seq(Chars)
  <2>1. head \in Seq(Chars) /\ blank \in Seq(Chars)
    BY DEF Chars
  <2> QED
    BY <2>1, NoteShape
<1>2. CASE l.style = "bare"
  <2>1. "bare" # "noise" /\ "bare" # "spaced" /\ "bare" \notin Quotes
    BY Zenon DEF Quotes
  <2>2. Raw(l) = (head \o t) \o note
    BY <1>2, <2>1, Zenon DEF Raw, NoteOf
  <2> HIDE DEF head, blank, t, note
  <2>3. (head \o t) \o note = head \o (t \o note)
    BY <1>1, Regroup, Zenon DEF Grouped
  <2> QED
    BY <1>2, <2>1, <2>2, <2>3, Zenon DEF head, t, note
<1>3. CASE l.style = "spaced"
  <2>1. "spaced" # "noise" /\ "spaced" # "bare" /\ "spaced" \notin Quotes
    BY Zenon DEF Quotes
  <2>2. Raw(l) = (head \o (blank \o t)) \o note
    BY <1>3, <2>1, Zenon DEF Raw, NoteOf
  <2> HIDE DEF head, blank, t, note
  <2>3. blank \o t \in Seq(Chars)
    BY <1>1, Joined
  <2>4. (head \o (blank \o t)) \o note = head \o ((blank \o t) \o note)
    <3> DEFINE body == blank \o t
    <3>1. body \in Seq(Chars)
      BY <2>3
    <3> HIDE DEF body
    <3>2. Grouped(head, body, note)
      BY <1>1, <3>1, Regroup, Zenon
    <3> QED
      BY <3>2, Zenon DEF Grouped, body
  <2>5. (blank \o t) \o note = blank \o (t \o note)
    BY <1>1, Regroup, Zenon DEF Grouped
  <2> QED
    BY <1>3, <2>1, <2>2, <2>4, <2>5, Zenon DEF head, blank, t, note
<1>4. CASE l.style \in Quotes
  <2> DEFINE q == <<l.style>>
  <2>1. "bare" \notin Quotes /\ "spaced" \notin Quotes /\ "noise" \notin Quotes
    BY Zenon DEF Quotes
  <2>2. Raw(l) = (head \o ((q \o t) \o q)) \o note
    BY <1>4, <2>1, Zenon DEF Raw, NoteOf
  <2>3. q \in Seq(Chars)
    BY <1>4 DEF Chars
  <2> HIDE DEF head, blank, t, note, q
  <2>4. q \o t \in Seq(Chars)
    BY <1>1, <2>3, Joined
  <2>5. (q \o t) \o q \in Seq(Chars)
    BY <2>3, <2>4, Joined
  <2>6. (head \o ((q \o t) \o q)) \o note = head \o (((q \o t) \o q) \o note)
    <3> DEFINE body == (q \o t) \o q
    <3>1. body \in Seq(Chars)
      BY <2>5
    <3> HIDE DEF body
    <3>2. Grouped(head, body, note)
      BY <1>1, <3>1, Regroup, Zenon
    <3> QED
      BY <3>2, Zenon DEF Grouped, body
  <2> QED
    BY <1>4, <2>1, <2>2, <2>6, Zenon DEF head, t, note, q
<1> QED
  BY <1>2, <1>3, <1>4

LEMMA LeadingBlank ==
    ASSUME NEW w \in Seq(Chars), w # <<>>, w[1] # Blank, w[Len(w)] # Blank
    PROVE  LET raw == <<Blank>> \o w
           IN  /\ raw \in Seq(Chars) /\ raw # <<>> /\ raw[Len(raw)] # Blank
               /\ TrimSpace(raw) = w
<1> DEFINE one == <<Blank>>
           raw == one \o w
<1>1. one \in Seq(Chars) /\ Len(one) = 1 /\ one[1] = Blank
  BY DEF Chars
<1>2. Len(w) \in Nat \ {0}
  BY EmptySeq
<1> HIDE DEF one
<1>3. raw \in Seq(Chars) /\ Joins(raw, one, w)
  BY <1>1, Joined
<1> HIDE DEF raw
<1>4. Len(raw) = Len(w) + 1 /\ raw[1] = Blank /\ \A i \in 1..Len(w) : raw[1 + i] = w[i]
  BY <1>1, <1>3 DEF Joins
<1>5. raw[2] # Blank /\ raw[Len(raw)] # Blank /\ raw # <<>>
  <2>1. 1 \in 1..Len(w) /\ Len(w) \in 1..Len(w) /\ 1 + 1 = 2 /\ 1 + Len(w) = Len(w) + 1
    BY <1>2
  <2> QED
    BY <1>3, <1>4, <2>1
<1>6. TrimSpace(raw) = SubSeq(raw, 2, Len(raw))
  <2>1. /\ 2 \in 1..Len(raw) /\ Len(raw) \in 1..Len(raw) /\ 2 <= Len(raw)
        /\ \A i \in 1..Len(raw) : i < 2 \/ Len(raw) < i => raw[i] = Blank
    BY <1>2, <1>4
  <2> QED
    BY <1>3, <1>5, <2>1, Trimmed
<1>7. SubSeq(raw, 2, Len(raw)) = w
  <2>1. \A i \in 2..Len(raw) : raw[i] \in Chars
    BY <1>3, ElementOfSeq
  <2>2. /\ SubSeq(raw, 2, Len(raw)) \in Seq(Chars)
        /\ Len(SubSeq(raw, 2, Len(raw))) = Len(w)
        /\ \A i \in 1..Len(w) : SubSeq(raw, 2, Len(raw))[i] = raw[2 + i - 1]
    BY <1>2, <1>4, <2>1, SubSeqProperties
  <2>3. \A i \in 1..Len(w) : SubSeq(raw, 2, Len(raw))[i] = w[i]
    <3> TAKE i \in 1..Len(w)
    <3>1. 2 + i - 1 = 1 + i
      OBVIOUS
    <3> QED
      BY <1>4, <2>2, <3>1
  <2> QED
    BY <2>2, <2>3, SeqEqual
<1>8. TrimSpace(raw) = w
  BY <1>6, <1>7
<1> QED
  BY <1>3, <1>5, <1>8 DEF raw, one

\* A text that is not empty, written without quotes, with or without a note.
LEMMA UnquotedRead ==
    ASSUME NEW t \in Seq(Chars), NEW note \in BOOLEAN,
           t # <<>>, t = TrimSpace(t), t[1] \notin Quotes,
           note \/ "#" \in ToSet(t) => Blank \notin ToSet(t)
    PROVE  LET w == t \o NoteOf(note)
           IN  /\ w \in Seq(Chars) /\ w # <<>> /\ w[1] # Blank /\ w[Len(w)] # Blank
               /\ \A raw : TrimSpace(raw) = w => valueOf(raw) = t
<1> DEFINE n == NoteOf(note)
           w == t \o n
<1>1. t[1] # Blank /\ t[Len(t)] # Blank /\ Len(t) \in Nat \ {0}
  BY TrimFixed, EmptySeq
<1>2. CASE note = FALSE
  <2>1. w = t
    <3>1. n = <<>>
      BY <1>2, NoteShape
    <3> QED
      BY <3>1, ConcatEmptySeq
  <2> HIDE DEF w
  <2>2. \A raw : TrimSpace(raw) = t => valueOf(raw) = t
    BY BareValue
  <2>3. /\ w \in Seq(Chars) /\ w # <<>> /\ w[1] # Blank /\ w[Len(w)] # Blank
        /\ \A raw : TrimSpace(raw) = w => valueOf(raw) = t
    BY <1>1, <2>1, <2>2
  <2> QED
    BY <2>3 DEF w
<1>3. CASE note = TRUE
  <2>1. /\ n \in Seq(Chars) /\ Len(n) = 4 /\ n[1] = Blank /\ n[2] = "#" /\ n[4] = "'"
    BY <1>3, NoteShape
  <2> HIDE DEF n
  <2>2. w \in Seq(Chars) /\ Joins(w, t, n)
    BY <2>1, Joined
  <2> HIDE DEF w
  <2>3. /\ Len(w) = Len(t) + 4 /\ \A i \in 1..Len(t) : w[i] = t[i]
        /\ w[Len(t) + 1] = Blank /\ w[Len(t) + 2] = "#" /\ w[Len(t) + 4] = "'"
    BY <2>1, <2>2 DEF Joins
  <2>4. w # <<>> /\ w[1] # Blank /\ w[Len(w)] # Blank
    BY <1>1, <2>2, <2>3, CharsDiffer
  <2>5. Blank \notin ToSet(t)
    BY <1>3
  <2>6. ASSUME NEW raw, TrimSpace(raw) = w PROVE valueOf(raw) = t
    <3>1. Len(w) >= Len(t) + 2
      BY <1>1, <2>3
    <3> QED
      BY <2>2, <2>3, <2>5, <2>6, <3>1, NotedValue
  <2> QED
    BY <2>2, <2>4, <2>6 DEF w, n
<1> QED
  BY <1>2, <1>3

\* A text in quotes, with or without a note.
LEMMA QuotedRead ==
    ASSUME NEW t \in Seq(Chars), NEW note \in BOOLEAN, NEW q \in Quotes, q \notin ToSet(t)
    PROVE  LET w == ((<<q>> \o t) \o <<q>>) \o NoteOf(note)
           IN  w \in Seq(Chars) /\ w # <<>> /\ w[Len(w)] # Blank /\ valueOf(w) = t
<1> DEFINE n == NoteOf(note)
           o == <<q>>
           a == o \o t
           b == a \o o
           w == b \o n
<1>1. o \in Seq(Chars) /\ Len(o) = 1 /\ o[1] = q
  BY DEF Chars
<1>2. n \in Seq(Chars) /\ (Len(n) = 0 \/ (Len(n) = 4 /\ n[4] = "'"))
  <2>1. CASE note = TRUE
    BY <2>1, NoteShape
  <2>2. CASE note = FALSE
    BY <2>2, NoteShape
  <2> QED
    BY <2>1, <2>2
<1> HIDE DEF n, o
<1>3. a \in Seq(Chars) /\ Joins(a, o, t)
  BY <1>1, Joined
<1> HIDE DEF a
<1>4. b \in Seq(Chars) /\ Joins(b, a, o)
  BY <1>1, <1>3, Joined
<1> HIDE DEF b
<1>5. w \in Seq(Chars) /\ Joins(w, b, n)
  BY <1>2, <1>4, Joined
<1> HIDE DEF w
<1>6. Len(t) \in Nat /\ q # Blank /\ "'" # Blank
  BY CharsDiffer
<1>7. Len(a) = Len(t) + 1 /\ a[1] = q /\ \A i \in 1..Len(t) : a[1 + i] = t[i]
  BY <1>1, <1>3, <1>6 DEF Joins
<1>8. /\ Len(b) = Len(t) + 2 /\ b[1] = q /\ b[Len(t) + 2] = q
      /\ \A i \in 1..Len(t) : b[i + 1] = t[i]
  <2>1. Len(b) = Len(t) + 2 /\ \A i \in 1..(Len(t) + 1) : b[i] = a[i]
    BY <1>1, <1>4, <1>6, <1>7 DEF Joins
  <2>2. b[(Len(t) + 1) + 1] = q /\ (Len(t) + 1) + 1 = Len(t) + 2
    BY <1>1, <1>4, <1>6, <1>7 DEF Joins
  <2> QED
    BY <1>6, <1>7, <2>1, <2>2
<1>9. /\ Len(w) = Len(t) + 2 + Len(n) /\ w[1] = q /\ w[Len(t) + 2] = q
      /\ \A i \in 1..Len(t) : w[i + 1] = t[i]
  <2>1. Len(w) = Len(t) + 2 + Len(n) /\ \A i \in 1..(Len(t) + 2) : w[i] = b[i]
    BY <1>2, <1>5, <1>6, <1>8 DEF Joins
  <2> QED
    BY <1>6, <1>8, <2>1
<1>10. w[Len(w)] # Blank
  <2>1. CASE Len(n) = 0
    BY <1>6, <1>9, <2>1
  <2>2. CASE Len(n) = 4 /\ n[4] = "'"
    <3>1. w[Len(b) + 4] = "'"
      BY <1>5, <2>2 DEF Joins
    <3> QED
      BY <1>6, <1>8, <1>9, <2>2, <3>1
  <2> QED
    BY <1>2, <2>1, <2>2
<1>11. w # <<>> /\ Len(w) >= Len(t) + 2
  BY <1>2, <1>5, <1>6, <1>9
<1>12. valueOf(w) = t
  BY <1>5, <1>9, <1>10, <1>11, QuotedValue
<1> QED
  BY <1>5, <1>10, <1>11, <1>12 DEF w, b, a, o, n

\* A clear line assigns the text its author meant to the key it was meant for.
LEMMA LineRead ==
    ASSUME NEW l, l.key \in Settings, l.text \in Seq(Chars), l.note \in BOOLEAN,
           l.style \in {"bare", "spaced"} \cup Quotes, Clear(l)
    PROVE  Assigns(Raw(l), l.key, l.text)
<1> DEFINE k == l.key
           t == l.text
           w == t \o NoteOf(l.note)
<1>1. "bare" \notin Quotes /\ "spaced" \notin Quotes
  BY Zenon DEF Quotes
<1>2. CASE l.style \in Quotes
  <2> DEFINE rest == ((<<l.style>> \o t) \o <<l.style>>) \o NoteOf(l.note)
  <2>1. l.style \notin ToSet(t)
    BY <1>2 DEF Clear
  <2>2. rest \in Seq(Chars) /\ rest # <<>> /\ rest[Len(rest)] # Blank /\ valueOf(rest) = t
    BY <1>2, <2>1, QuotedRead
  <2>3. Raw(l) = <<k, "=">> \o rest
    BY <1>2, RawParts
  <2> HIDE DEF rest
  <2> QED
    BY <2>2, <2>3, AssignsRest
<1>3. CASE l.style \in {"bare", "spaced"} /\ t = <<>>
  <2>1. l.note = FALSE
    BY <1>1, <1>3 DEF Clear
  <2>2. w = <<>>
    <3>1. NoteOf(l.note) = <<>>
      BY <2>1, NoteShape
    <3> QED
      BY <1>3, <3>1, ConcatEmptySeq
  <2>3. CASE l.style = "bare"
    <3> DEFINE rest == w
    <3>1. rest \in Seq(Chars) /\ \A i \in 1..Len(rest) : rest[i] = Blank
      BY <2>2
    <3>2. Raw(l) = <<k, "=">> \o rest
      BY <2>3, RawParts
    <3> HIDE DEF rest
    <3> QED
      BY <1>3, <3>1, <3>2, AssignsRest
  <2>4. CASE l.style = "spaced"
    <3> DEFINE one == <<Blank>>
               rest == one \o w
    <3>1. one \in Seq(Chars) /\ Len(one) = 1 /\ one[1] = Blank
      BY DEF Chars
    <3>2. Raw(l) = <<k, "=">> \o rest
      BY <2>4, RawParts
    <3> HIDE DEF one
    <3>3. rest = one
      BY <2>2, <3>1, ConcatEmptySeq
    <3> HIDE DEF rest
    <3>4. rest \in Seq(Chars) /\ \A i \in 1..Len(rest) : rest[i] = Blank
      <4>1. one \in Seq(Chars) /\ \A i \in 1..Len(one) : one[i] = Blank
        BY <3>1
      <4> QED
        BY <3>3, <4>1, Zenon
    <3> QED
      BY <1>3, <3>2, <3>4, AssignsRest
  <2> QED
    BY <1>3, <2>3, <2>4
<1>4. CASE l.style \in {"bare", "spaced"} /\ t # <<>>
  <2>1. /\ t = TrimSpace(t) /\ t[1] \notin Quotes
        /\ l.note \/ "#" \in ToSet(t) => Blank \notin ToSet(t)
    <3>1. l.style \notin Quotes /\ l.style # "noise"
      BY <1>1, <1>4
    <3> QED
      BY <1>4, <3>1, Zenon DEF Clear
  <2>2. /\ w \in Seq(Chars) /\ w # <<>> /\ w[1] # Blank /\ w[Len(w)] # Blank
        /\ \A raw : TrimSpace(raw) = w => valueOf(raw) = t
    BY <1>4, <2>1, UnquotedRead
  <2>3. CASE l.style = "bare"
    <3>1. Raw(l) = <<k, "=">> \o w
      BY <2>3, RawParts
    <3> HIDE DEF w
    <3>2. TrimSpace(w) = w
      BY <2>2, TrimSame
    <3> QED
      BY <2>2, <3>1, <3>2, AssignsRest
  <2>4. CASE l.style = "spaced"
    <3> DEFINE rest == <<Blank>> \o w
    <3>1. Raw(l) = <<k, "=">> \o rest
      BY <2>4, RawParts
    <3> HIDE DEF w
    <3>2. rest \in Seq(Chars) /\ rest # <<>> /\ rest[Len(rest)] # Blank /\ TrimSpace(rest) = w
      BY <2>2, LeadingBlank
    <3> HIDE DEF rest
    <3> QED
      BY <2>2, <3>1, <3>2, AssignsRest
  <2> QED
    BY <1>4, <2>3, <2>4
<1> QED
  BY <1>2, <1>3, <1>4

(***************************************************************************)
(* What holds while the file is read: the variables the process began with *)
(* keep their values, every line read fits, and if the readable lines are  *)
(* clear and no read has failed the settings met so far are there, each as *)
(* it is wanted.                                                           *)
(***************************************************************************)
AsWanted ==
    stop # "error" /\ (\A i \in Readable : Clear(input.file[i])) =>
        \A k \in Settings :
            /\ <<k>> \in DOMAIN environ <=>
                 \/ <<k>> \in DOMAIN input.env
                 \/ \E i \in 1..scanned : input.file[i].key = k
            /\ <<k>> \in DOMAIN environ => environ[<<k>>] = Wanted(k)

ConfigInv ==
    /\ input \in Inputs
    /\ scanned \in 0..Len(input.file)
    /\ \A k \in DOMAIN input.env : k \in DOMAIN environ /\ environ[k] = input.env[k]
    /\ \A i \in 1..scanned : Fits(input.file[i])
    /\ stop = "long" => scanned < Len(input.file) /\ ~Fits(input.file[scanned + 1])
    /\ stop \in {"no", "long", "error"}
    /\ cfg # NotLoaded => scanned = Len(input.file) \/ stop # "no"
    /\ LoadComplete
    /\ AsWanted

LEMMA ConfigStart == ConfigInit => ConfigInv
<1> SUFFICES ASSUME ConfigInit
             PROVE  ConfigInv
  OBVIOUS
<1>1. /\ input \in Inputs /\ scanned = 0 /\ stop = "no" /\ environ = input.env
      /\ cfg = NotLoaded
      /\ Len(input.file) \in Nat
  BY InputsAssumption DEF ConfigInit
<1>2. LoadComplete
  BY <1>1 DEF LoadComplete
<1>3. AsWanted
  <2>1. \A k \in Settings : <<k>> \in DOMAIN input.env => environ[<<k>>] = Wanted(k)
    BY <1>1 DEF Wanted
  <2>2. \A k \in Settings : ~\E i \in 1..scanned : input.file[i].key = k
    BY <1>1
  <2>3. \A k \in Settings : <<k>> \in DOMAIN environ <=> <<k>> \in DOMAIN input.env
    BY <1>1
  <2> QED
    BY <2>1, <2>2, <2>3, Zenon DEF AsWanted
<1> QED
  BY <1>1, <1>2, <1>3 DEF ConfigInv

\* What the next line of the file assigns, if it is clear.
LEMMA NextLine ==
    ASSUME ConfigInv, scanned < Len(input.file),
           NEW l, l = input.file[scanned + 1], Clear(l), NEW k \in Settings
    PROVE  /\ l.key = k => Assigns(Raw(l), k, l.text)
           /\ l.key # k => keyOf(TrimSpace(Raw(l))) # <<k>>
<1>1. /\ input \in Inputs /\ scanned + 1 \in DOMAIN input.file
      /\ l \in [key : STRING, text : Seq(STRING), style : STRING, note : BOOLEAN]
  <2> DEFINE L == [key : STRING, text : Seq(STRING), style : STRING, note : BOOLEAN]
  <2>1. input \in Inputs /\ scanned \in 0..Len(input.file)
    BY DEF ConfigInv
  <2>2. input.file \in Seq(L)
    BY <2>1, InputsAssumption
  <2> HIDE DEF L
  <2>3. scanned + 1 \in 1..Len(input.file) /\ DOMAIN input.file = 1..Len(input.file)
    BY <2>1, <2>2
  <2>4. l \in L
    BY <2>2, <2>3, ElementOfSeq
  <2> QED
    BY <2>1, <2>3, <2>4 DEF L
<1>2. IF l.style = "noise"
      THEN l.key \notin Settings /\ keyOf(TrimSpace(l.text)) \notin {<<j>> : j \in Settings}
      ELSE l.key \in Settings /\ l.style \in {"bare", "spaced"} \cup Quotes
  BY <1>1, InputsAssumption
<1>3. CASE l.style = "noise"
  <2>1. Raw(l) = l.text
    BY <1>3 DEF Raw
  <2> QED
    BY <1>2, <1>3, <2>1
<1>4. CASE l.style # "noise"
  <2>1. l.key \in Settings /\ l.style \in {"bare", "spaced"} \cup Quotes
    BY <1>2, <1>4
  <2>2. l.text \in Seq(Chars)
    <3>1. l.text \in Seq(STRING) /\ STRING \subseteq Chars
      BY <1>1 DEF Chars
    <3> QED
      BY <3>1, SeqMonotonic
  <2>3. l.note \in BOOLEAN
    BY <1>1
  <2>4. Assigns(Raw(l), l.key, l.text)
    BY <2>1, <2>2, <2>3, LineRead
  <2>5. keyOf(TrimSpace(Raw(l))) = <<l.key>>
    BY <2>4, Zenon DEF Assigns
  <2> QED
    BY <2>4, <2>5
<1> QED
  BY <1>3, <1>4

\* The first line for a key decides what is wanted.
LEMMA FirstWanted ==
    ASSUME NEW k, input \in Inputs, NEW n \in Readable, input.file[n].key = k,
           <<k>> \notin DOMAIN input.env,
           \A i \in 1..(n - 1) : input.file[i].key # k
    PROVE  Wanted(k) = input.file[n].text
<1> DEFINE S == {i \in Readable : input.file[i].key = k}
<1>1. Readable \subseteq 1..Len(input.file) /\ Len(input.file) \in Nat
  BY InputsAssumption DEF Readable
<1>2. S \in SUBSET Nat /\ n \in S
  <2>1. Readable \subseteq Nat
    BY <1>1
  <2> QED
    BY <2>1
<1>3. ASSUME NEW i \in S PROVE n <= i
  BY <1>1, <1>3
<1>4. Wanted(k) = IF S = {} THEN <<>> ELSE input.file[Min(S)].text
  BY DEF Wanted
<1> HIDE DEF S
<1>5. Min(S) \in S /\ \A y \in S : Min(S) <= y
  BY <1>2, FirstOf
<1>6. Min(S) \in Nat /\ n <= Min(S) /\ Min(S) <= n /\ n \in Nat
  BY <1>2, <1>3, <1>5
<1>7. Min(S) = n
  BY <1>6
<1> QED
  BY <1>2, <1>4, <1>7

\* What Assign does to the environment: variables that exist keep their values.
LEMMA Assigned ==
    ASSUME NEW raw, Assign(raw)
    PROVE  LET line == TrimSpace(raw)
               value == valueOf(SubSeq(line, IndexAny(line, {"="}) + 1, Len(line)))
           IN  /\ \/ DOMAIN environ' = DOMAIN environ
                  \/ DOMAIN environ' = DOMAIN environ \cup {keyOf(line)}
               /\ \A k \in DOMAIN environ : k \in DOMAIN environ' /\ environ'[k] = environ[k]
               /\ keyOf(line) # <<>> /\ keyOf(line) \notin DOMAIN environ =>
                    keyOf(line) \in DOMAIN environ' /\ environ'[keyOf(line)] = value
<1> DEFINE line == TrimSpace(raw)
           value == valueOf(SubSeq(line, IndexAny(line, {"="}) + 1, Len(line)))
<1>1. \/ keyOf(line) = <<>> /\ environ' = environ
      \/ environ' = [k \in DOMAIN environ \cup {keyOf(line)} |->
                          IF k \in DOMAIN environ THEN environ[k] ELSE value]
  BY Zenon DEF Assign, Setenv
<1> HIDE DEF line, value
<1>2. /\ DOMAIN environ' = DOMAIN environ \/ DOMAIN environ' = DOMAIN environ \cup {keyOf(line)}
      /\ \A k \in DOMAIN environ : k \in DOMAIN environ' /\ environ'[k] = environ[k]
      /\ keyOf(line) # <<>> /\ keyOf(line) \notin DOMAIN environ =>
           keyOf(line) \in DOMAIN environ' /\ environ'[keyOf(line)] = value
  BY <1>1
<1> QED
  BY <1>2, Zenon DEF line, value

\* The step of a line that fits (config.go:132-164).
LEMMA ScanStep ==
    ConfigInv /\ Scan /\ Fits(input.file[scanned + 1]) => ConfigInv'
<1> SUFFICES ASSUME ConfigInv, Scan, Fits(input.file[scanned + 1])
             PROVE  ConfigInv'
  OBVIOUS
<1> DEFINE l == input.file[scanned + 1]
           line == TrimSpace(Raw(l))
           value == valueOf(SubSeq(line, IndexAny(line, {"="}) + 1, Len(line)))
<1>1. /\ input \in Inputs /\ scanned \in 0..Len(input.file) /\ Len(input.file) \in Nat
      /\ DOMAIN input.file = 1..Len(input.file)
  BY InputsAssumption DEF ConfigInv
<1>2. /\ scanned < Len(input.file) /\ scanned' = scanned + 1
      /\ input' = input /\ cfg' = cfg /\ cfg = NotLoaded
      /\ stop = "no" /\ stop' = stop
      /\ scanned + 1 \in DOMAIN input.file
  BY <1>1 DEF Scan, ConfigInv
<1>3. \A i \in 1..(scanned + 1) : Fits(input.file[i])
  <2>1. \A i \in 1..(scanned + 1) : i \in 1..scanned \/ i = scanned + 1
    BY <1>1
  <2> QED
    BY <2>1 DEF ConfigInv
<1>4. /\ DOMAIN environ' = DOMAIN environ \/ DOMAIN environ' = DOMAIN environ \cup {keyOf(line)}
      /\ \A k \in DOMAIN environ : k \in DOMAIN environ' /\ environ'[k] = environ[k]
      /\ keyOf(line) # <<>> /\ keyOf(line) \notin DOMAIN environ =>
           keyOf(line) \in DOMAIN environ' /\ environ'[keyOf(line)] = value
  <2>1. Assign(Raw(l))
    BY DEF Scan
  <2> QED
    BY <2>1, Assigned, Zenon
<1>5. \A k \in DOMAIN input.env : k \in DOMAIN environ' /\ environ'[k] = input.env[k]
  BY <1>4 DEF ConfigInv
<1>6. LoadComplete'
  BY <1>2, <1>5 DEF LoadComplete
<1>7. AsWanted'
  <2> SUFFICES ASSUME \A i \in Readable : Clear(input.file[i]), NEW k \in Settings
               PROVE  /\ <<k>> \in DOMAIN environ' <=>
                           \/ <<k>> \in DOMAIN input.env
                           \/ \E i \in 1..(scanned + 1) : input.file[i].key = k
                      /\ <<k>> \in DOMAIN environ' => environ'[<<k>>] = Wanted(k)
    <3>1. Readable' = Readable
      BY <1>2 DEF Readable, Fits
    <3>2. \A k \in Settings : Wanted(k)' = Wanted(k)
      BY <1>2, <3>1 DEF Wanted
    <3> QED
      BY <1>2, <3>1, <3>2 DEF AsWanted
  <2>1. /\ <<k>> \in DOMAIN environ <=>
             \/ <<k>> \in DOMAIN input.env
             \/ \E i \in 1..scanned : input.file[i].key = k
        /\ <<k>> \in DOMAIN environ => environ[<<k>>] = Wanted(k)
    BY <1>2 DEF ConfigInv, AsWanted
  <2>2. scanned + 1 \in Readable /\ Clear(l)
    BY <1>2, <1>3 DEF Readable
  <2> HIDE DEF l
  <2>3. /\ l.key = k => Assigns(Raw(l), k, l.text)
        /\ l.key # k => keyOf(line) # <<k>>
    BY <1>2, <2>2, NextLine DEF l
  <2>4. CASE l.key # k
    <3>1. <<k>> \in DOMAIN environ' <=> <<k>> \in DOMAIN environ
      <4> HIDE DEF line, value
      <4> QED
        BY <1>4, <2>3, <2>4
    <3>2. (\E i \in 1..(scanned + 1) : input.file[i].key = k) <=>
             \E i \in 1..scanned : input.file[i].key = k
      <4>1. \A i \in 1..(scanned + 1) : i \in 1..scanned \/ i = scanned + 1
        BY <1>1
      <4>2. \A i \in 1..scanned : i \in 1..(scanned + 1)
        BY <1>1
      <4>3. input.file[scanned + 1].key # k
        BY <2>4 DEF l
      <4> QED
        BY <4>1, <4>2, <4>3
    <3> QED
      BY <1>4, <2>1, <3>1, <3>2
  <2>5. CASE l.key = k
    <3>1. keyOf(line) = <<k>> /\ value = l.text
      BY <2>3, <2>5, Zenon DEF Assigns
    <3> HIDE DEF line, value
    <3>2. \E i \in 1..(scanned + 1) : input.file[i].key = k
      BY <1>1, <2>5 DEF l
    <3>3. CASE <<k>> \in DOMAIN environ
      BY <1>4, <2>1, <3>2, <3>3
    <3>4. CASE <<k>> \notin DOMAIN environ
      <4>1. <<k>> \in DOMAIN environ' /\ environ'[<<k>>] = l.text
        BY <1>4, <3>1, <3>4
      <4>2. Wanted(k) = l.text
        <5>1. /\ <<k>> \notin DOMAIN input.env
              /\ \A i \in 1..((scanned + 1) - 1) : input.file[i].key # k
          BY <1>1, <2>1, <3>4
        <5> QED
          BY <1>1, <2>2, <2>5, <5>1, FirstWanted DEF l
      <4> QED
        BY <3>2, <4>1, <4>2
    <3> QED
      BY <3>3, <3>4
  <2> QED
    BY <2>4, <2>5
<1>8. \A i \in 1..scanned' : Fits(input.file[i])'
  BY <1>2, <1>3 DEF Fits
<1> QED
  BY <1>1, <1>2, <1>5, <1>6, <1>7, <1>8 DEF ConfigInv

LEMMA Kept ==
    ASSUME UNCHANGED <<input, scanned, environ>>, stop' # "error" => stop # "error"
    PROVE  /\ \A k : Getenv(k)' = Getenv(k)
           /\ AsWanted => AsWanted'
<1>1. \A k : Getenv(k)' = Getenv(k)
  BY DEF Getenv
<1>2. Readable' = Readable
  BY DEF Readable, Fits
<1>3. \A k : Wanted(k)' = Wanted(k)
  BY <1>2 DEF Wanted
<1>4. AsWanted => AsWanted'
  BY <1>2, <1>3 DEF AsWanted
<1> QED
  BY <1>1, <1>4

\* The step of a line that does not fit (config.go:132).
LEMMA LongStep ==
    ConfigInv /\ Scan /\ ~Fits(input.file[scanned + 1]) => ConfigInv'
<1> SUFFICES ASSUME ConfigInv, Scan, ~Fits(input.file[scanned + 1])
             PROVE  ConfigInv'
  OBVIOUS
<1>1. /\ UNCHANGED <<input, scanned, environ>> /\ cfg' = cfg /\ cfg = NotLoaded
      /\ stop = "no" /\ stop' = "long" /\ scanned < Len(input.file)
  <2>1. /\ UNCHANGED <<input, scanned, environ>> /\ cfg' = cfg
        /\ stop = "no" /\ stop' = "long" /\ scanned < Len(input.file)
    BY DEF Scan
  <2>2. scanned # Len(input.file)
    BY <2>1, InputsAssumption DEF ConfigInv
  <2> QED
    BY <2>1, <2>2 DEF ConfigInv
<1>2. AsWanted'
  BY <1>1, Kept DEF ConfigInv
<1>3. LoadComplete'
  BY <1>1 DEF ConfigInv, LoadComplete
<1>4. \A i : Fits(input.file[i])' <=> Fits(input.file[i])
  BY <1>1 DEF Fits
<1>5. ~Fits(input.file[scanned + 1])'
  BY <1>1 DEF Fits
<1> QED
  BY <1>1, <1>2, <1>3, <1>4, <1>5 DEF ConfigInv

\* The step of a read that fails (config.go:125-132).
LEMMA ErrorStep == ConfigInv /\ ReadError => ConfigInv'
<1> SUFFICES ASSUME ConfigInv, ReadError
             PROVE  ConfigInv'
  OBVIOUS
<1>1. /\ UNCHANGED <<input, scanned>> /\ cfg' = cfg /\ stop = "no" /\ stop' = "error"
      /\ scanned < Len(input.file) /\ scanned # Len(input.file)
  BY InputsAssumption DEF ReadError, ConfigInv
<1>2. PICK raw : Assign(raw)
  BY DEF ReadError
<1>3. \A k \in DOMAIN environ : k \in DOMAIN environ' /\ environ'[k] = environ[k]
  BY <1>2, Assigned, Zenon
<1>4. \A k \in DOMAIN input.env : k \in DOMAIN environ' /\ environ'[k] = input.env[k]
  BY <1>3 DEF ConfigInv
<1>5. cfg' = NotLoaded
  BY <1>1 DEF ConfigInv
<1>6. LoadComplete'
  BY <1>1, <1>4, <1>5 DEF LoadComplete
<1>7. AsWanted'
  BY <1>1 DEF AsWanted
<1>8. \A i : Fits(input.file[i])' <=> Fits(input.file[i])
  BY <1>1 DEF Fits
<1> QED
  BY <1>1, <1>4, <1>5, <1>6, <1>7, <1>8 DEF ConfigInv

LEMMA LoadStep == ConfigInv /\ Load => ConfigInv'
<1> SUFFICES ASSUME ConfigInv, Load
             PROVE  ConfigInv'
  OBVIOUS
<1> DEFINE Missing(k) == Getenv(k) = <<>>
           I == {i \in 1..Len(Required) : Missing(Required[i])}
           missing == IF I # {} THEN Min(I) ELSE 0
<1>1. /\ scanned = Len(input.file) \/ stop # "no"
      /\ UNCHANGED <<input, scanned, environ>> /\ stop' = stop
      /\ cfg' = IF missing > 0 THEN [err |-> Required[missing]]
                ELSE [err |-> "nil", set |-> [k \in Settings |-> Setting(k)]]
  BY DEF Load, SelectInSeq
<1>2. /\ Len(Required) = 2 /\ Required[1] = "POSTGRES_DSN" /\ Required[2] = "JWT_SECRET"
      /\ ToSet(Required) = {Required[1], Required[2]}
  <2>1. DOMAIN Required = 1..2 /\ Len(Required) = 2
        /\ Required[1] = "POSTGRES_DSN" /\ Required[2] = "JWT_SECRET"
    BY DEF Required
  <2> QED
    BY <2>1 DEF ToSet
<1>3. /\ I \in SUBSET Nat /\ I \in SUBSET {1, 2}
      /\ I # {} => Min(I) \in I /\ \A y \in I : Min(I) <= y
  <2>1. I \in SUBSET Nat /\ I \in SUBSET {1, 2}
    BY <1>2
  <2> HIDE DEF I
  <2> QED
    BY <2>1, FirstOf
<1>4. /\ \A k : Getenv(k)' = Getenv(k)
      /\ AsWanted => AsWanted'
  BY <1>1, Kept
<1>0. \A i : Fits(input.file[i])' <=> Fits(input.file[i])
  BY <1>1 DEF Fits
<1>5. CASE I # {}
  <2>1. missing \in I /\ missing > 0 /\ missing \in {1, 2}
    BY <1>3, <1>5
  <2>2. cfg' = [err |-> Required[missing]]
    BY <1>1, <2>1
  <2>3. Getenv(Required[missing]) = <<>>
    BY <2>1
  <2>4. ASSUME Required[missing] = "JWT_SECRET" PROVE Getenv("POSTGRES_DSN") # <<>>
    <3>1. missing = 2
      BY <1>2, <2>1, <2>4
    <3>2. 1 \notin I
      BY <1>3, <1>5, <3>1
    <3> QED
      BY <1>2, <3>2
  <2>5. cfg'.err = Required[missing] /\ cfg'.err # "nil"
    BY <1>2, <2>1, <2>2
  <2>6. LoadComplete'
    BY <1>1, <1>4, <2>3, <2>4, <2>5 DEF LoadComplete, ConfigInv
  <2> QED
    BY <1>0, <1>1, <1>4, <2>6 DEF ConfigInv
<1>6. CASE I = {}
  <2>1. cfg' = [err |-> "nil", set |-> [k \in Settings |-> Setting(k)]]
    BY <1>1, <1>6
  <2>2. cfg'.err = "nil" /\ \A k \in Settings : cfg'.set[k] = Setting(k)
    BY <2>1
  <2>3. ASSUME NEW k \in ToSet(Required) PROVE cfg'.set[k] # <<>>
    <3>1. k \in Settings /\ k \notin Strings /\ k \notin Numbers
      BY <1>2 DEF Settings, Strings, Numbers
    <3>2. Setting(k) = Getenv(k)
      BY <3>1, Zenon DEF Setting
    <3>3. Getenv(k) # <<>>
      BY <1>2, <1>6
    <3> QED
      BY <2>2, <3>1, <3>2, <3>3
  <2>4. ASSUME NEW k \in Numbers PROVE cfg'.set[k] = Default \/ Parses(cfg'.set[k])
    <3>1. k \in Settings /\ k \notin Strings
      BY DEF Settings, Strings, Numbers
    <3>2. Setting(k) = IF Parses(Getenv(k)) THEN Getenv(k) ELSE Default
      BY <3>1, Zenon DEF Setting
    <3> QED
      BY <2>2, <3>1, <3>2, Zenon
  <2>5. ASSUME NEW k \in Settings PROVE cfg'.set[k] \in {Getenv(k), Default}
    <3>1. Setting(k) \in {Getenv(k), Default}
      BY Zenon DEF Setting
    <3> QED
      BY <2>2, <3>1
  <2>6. LoadComplete'
    BY <1>1, <1>4, <2>2, <2>3, <2>4, <2>5 DEF LoadComplete, ConfigInv
  <2> QED
    BY <1>0, <1>1, <1>4, <2>6 DEF ConfigInv
<1> QED
  BY <1>5, <1>6

LEMMA ConfigAlways == ConfigSpec => []ConfigInv
<1>1. ASSUME ConfigInv, UNCHANGED configVars PROVE ConfigInv'
  <2>1. /\ UNCHANGED <<input, scanned, environ>> /\ stop' = stop /\ cfg' = cfg
        /\ \A i : Fits(input.file[i])' <=> Fits(input.file[i])
        /\ \A k : Getenv(k)' = Getenv(k)
        /\ AsWanted => AsWanted'
    BY <1>1, Kept DEF configVars, Fits
  <2>2. LoadComplete'
    BY <1>1, <2>1 DEF ConfigInv, LoadComplete
  <2> QED
    BY <1>1, <2>1, <2>2 DEF ConfigInv
<1>2. ConfigInv /\ [ConfigNext]_configVars => ConfigInv'
  BY <1>1, ScanStep, LongStep, ErrorStep, LoadStep DEF ConfigNext
<1> QED
  BY <1>2, ConfigStart, PTL DEF ConfigSpec

\* For every environment and every file: no line changes a variable the process
\* was started with, and Load gives a complete configuration, numbers and all, or
\* names the first required setting that is missing (config.go:72-118, 161-163).
THEOREM AlwaysLoadComplete == ConfigSpec => []LoadComplete
<1>1. ConfigInv => LoadComplete
  BY DEF ConfigInv
<1> QED
  BY <1>1, ConfigAlways, PTL

\* For every environment and every file that can be read and whose lines, up to the
\* first that does not fit into the scanner's buffer, are clear, however many and
\* with any texts: each setting is what was written in these lines, the environment
\* before the file and the first line for a key before the others (config.go:120-165).
THEOREM AlwaysReadAsWritten == ConfigSpec => []ReadAsWritten
<1>1. ConfigInv => ReadAsWritten
  <2> SUFFICES ASSUME ConfigInv, cfg # NotLoaded, stop # "error",
                      \A i \in Readable : Clear(input.file[i]),
                      NEW k \in Settings
               PROVE  Getenv(k) = Wanted(k)
    BY DEF ReadAsWritten
  <2>1. /\ <<k>> \in DOMAIN environ <=>
             \/ <<k>> \in DOMAIN input.env
             \/ \E i \in 1..scanned : input.file[i].key = k
        /\ <<k>> \in DOMAIN environ => environ[<<k>>] = Wanted(k)
    BY DEF ConfigInv, AsWanted
  <2>2. Readable \subseteq 1..scanned
    <3>1. /\ DOMAIN input.file = 1..Len(input.file) /\ Len(input.file) \in Nat
          /\ scanned \in 0..Len(input.file)
      BY InputsAssumption DEF ConfigInv
    <3>2. CASE scanned = Len(input.file)
      BY <3>1, <3>2 DEF Readable
    <3>3. CASE stop = "long"
      <4>1. ~Fits(input.file[scanned + 1])
        BY <3>3 DEF ConfigInv
      <4>2. ASSUME NEW i \in Readable PROVE scanned + 1 \notin 1..i /\ i \in 1..Len(input.file)
        BY <3>1, <4>1 DEF Readable
      <4> QED
        BY <3>1, <4>2
    <3> QED
      BY <3>2, <3>3 DEF ConfigInv
  <2>3. CASE <<k>> \in DOMAIN environ
    BY <2>1, <2>3 DEF Getenv
  <2>4. CASE <<k>> \notin DOMAIN environ
    <3>1. <<k>> \notin DOMAIN input.env /\ {i \in Readable : input.file[i].key = k} = {}
      BY <2>1, <2>2, <2>4
    <3>2. Wanted(k) = <<>>
      BY <3>1 DEF Wanted
    <3> QED
      BY <2>4, <3>2 DEF Getenv
  <2> QED
    BY <2>3, <2>4
<1> QED
  BY <1>1, ConfigAlways, PTL

=============================================================================
