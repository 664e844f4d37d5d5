------------------------ MODULE FirmwareReportProofs ------------------------
(***************************************************************************)
(* The comparison of versions is an order, editing targets never turns a   *)
(* verdict of the report round, and of standards for prefixes the most     *)
(* specific one applies: for any platforms, models and patterns, and for   *)
(* versions of any length.                                                 *)
(***************************************************************************)
EXTENDS FirmwareReport, FiniteSetTheorems, WellFoundedInduction, TLAPS

Key == Seq(Part)

\* Parts are ordered, by kind and then by value.
LEMMA PartOrder ==
    ASSUME NEW p \in Part, NEW q \in Part, NEW r \in Part
    PROVE  /\ ~PartLess(p, p)
           /\ PartLess(p, q) /\ PartLess(q, r) => PartLess(p, r)
           /\ PartLess(p, q) \/ PartLess(q, p) \/ p = q
  BY DEF Part, PartLess

\* A version's key is a key.
LEMMA KeyType == ASSUME NEW v \in Seq(Run) PROVE version_key(v) \in Key
<1>1. ASSUME NEW i \in 1..Len(v)
      PROVE  <<IF v[i].word THEN 1 ELSE 0, v[i].value>> \in Part
  <2>1. v[i] \in Run
    OBVIOUS
  <2>2. v[i].word \in BOOLEAN /\ v[i].value \in Nat
    BY <2>1 DEF Run
  <2>3. (IF v[i].word THEN 1 ELSE 0) \in {0, 1}
    OBVIOUS
  <2> QED
    BY <2>2, <2>3 DEF Part
<1>2. DOMAIN v = 1..Len(v) /\ Len(v) \in Nat
  OBVIOUS
<1>3. version_key(v) \in [1..Len(v) -> Part]
  BY <1>1, <1>2 DEF version_key
<1> QED
  BY <1>2, <1>3 DEF Key

\* The position at which one key is before another.
At(a, b, i) ==
    /\ i \in 1..Len(b) /\ i <= Len(a) + 1
    /\ \A j \in 1..(i - 1) : a[j] = b[j]
    /\ i <= Len(a) => PartLess(a[i], b[i])

LEMMA KeyLessAt == \A a, b : KeyLess(a, b) <=> \E i : At(a, b, i)
  BY DEF KeyLess, At

LEMMA KeyIrreflexive == ASSUME NEW a \in Key PROVE ~KeyLess(a, a)
<1> SUFFICES ASSUME NEW i, At(a, a, i) PROVE FALSE
  BY KeyLessAt
<1>1. i \in 1..Len(a) /\ Len(a) \in Nat /\ a[i] \in Part
  BY DEF At, Key
<1> QED
  BY <1>1, PartOrder DEF At

LEMMA KeyTransitive ==
    ASSUME NEW a \in Key, NEW b \in Key, NEW c \in Key, KeyLess(a, b), KeyLess(b, c)
    PROVE  KeyLess(a, c)
<1>1. PICK i : At(a, b, i)
  BY KeyLessAt
<1>2. PICK k : At(b, c, k)
  BY KeyLessAt
<1>3. /\ Len(a) \in Nat /\ Len(b) \in Nat /\ Len(c) \in Nat
      /\ i \in Nat /\ k \in Nat
      /\ \A j \in 1..Len(a) : a[j] \in Part
      /\ \A j \in 1..Len(b) : b[j] \in Part
      /\ \A j \in 1..Len(c) : c[j] \in Part
  BY <1>1, <1>2 DEF At, Key
<1>4. CASE i < k
  BY <1>1, <1>2, <1>3, <1>4, KeyLessAt DEF At
<1>5. CASE k < i
  BY <1>1, <1>2, <1>3, <1>5, KeyLessAt DEF At
<1>6. CASE i = k
  <2>1. i <= Len(a) => PartLess(a[i], c[i])
    BY <1>1, <1>2, <1>3, <1>6, PartOrder DEF At
  <2> QED
    BY <1>1, <1>2, <1>3, <1>6, <2>1, KeyLessAt DEF At
<1> QED
  BY <1>3, <1>4, <1>5, <1>6

\* A nonempty set of natural numbers has a least one.
LEMMA LeastNatural ==
    ASSUME NEW S \in SUBSET Nat, S # {}
    PROVE  \E m \in S : \A n \in S : m <= n
<1> DEFINE R == {ss \in Nat \X Nat : ss[1] < ss[2]}
<1>1. IsWellFoundedOn(R, Nat)
  BY NatLessThanWellFounded DEF OpToRel
<1>2. \A x, y \in Nat : <<x, y>> \in R <=> x < y
  OBVIOUS
<1> HIDE DEF R
<1>3. \E m \in S : \A n \in S : <<n, m>> \notin R
  BY <1>1, WFMin
<1>4. PICK m \in S : \A n \in S : <<n, m>> \notin R
  BY <1>3
<1>5. ASSUME NEW n \in S PROVE m <= n
  <2>1. ~(n < m)
    BY <1>2, <1>4
  <2> QED
    BY <2>1
<1> QED
  BY <1>5

LEMMA KeyTotal ==
    ASSUME NEW a \in Key, NEW b \in Key
    PROVE  KeyLess(a, b) \/ KeyLess(b, a) \/ a = b
<1> DEFINE D == {i \in Nat \ {0} : i <= Len(a) + 1 /\ i <= Len(b) + 1 /\
                    (i <= Len(a) /\ i <= Len(b) => a[i] # b[i]) /\
                    (i <= Len(a) \/ i <= Len(b))}
<1> HIDE DEF D
<1>1. /\ Len(a) \in Nat /\ Len(b) \in Nat
      /\ \A j \in 1..Len(a) : a[j] \in Part
      /\ \A j \in 1..Len(b) : b[j] \in Part
      /\ DOMAIN a = 1..Len(a) /\ DOMAIN b = 1..Len(b)
  BY DEF Key
<1>2. CASE D = {}
  <2>1. Len(a) = Len(b)
    <3>1. CASE Len(a) < Len(b)
      <4>1. Len(a) + 1 \in D
        BY <1>1, <3>1 DEF D
      <4> QED BY <1>2, <4>1
    <3>2. CASE Len(b) < Len(a)
      <4>1. Len(b) + 1 \in D
        BY <1>1, <3>2 DEF D
      <4> QED BY <1>2, <4>1
    <3>3. Len(a) \in Int /\ Len(b) \in Int
      BY <1>1
    <3> QED
      BY <3>1, <3>2, <3>3
  <2>2. \A j \in 1..Len(a) : a[j] = b[j]
    <3> SUFFICES ASSUME NEW j \in 1..Len(a), a[j] # b[j] PROVE FALSE
      OBVIOUS
    <3>1. j \in D
      BY <1>1, <2>1 DEF D
    <3> QED BY <1>2, <3>1
  <2>3. a = b
    BY <1>1, <2>1, <2>2 DEF Key
  <2> QED
    BY <2>3
<1>3. CASE D # {}
  <2>1. PICK m \in D : \A n \in D : m <= n
    <3>1. D \in SUBSET Nat
      BY DEF D
    <3> QED
      BY <1>3, <3>1, LeastNatural
  <2>2. /\ m \in Nat \ {0} /\ m <= Len(a) + 1 /\ m <= Len(b) + 1
        /\ m <= Len(a) \/ m <= Len(b)
        /\ m <= Len(a) /\ m <= Len(b) => a[m] # b[m]
    BY DEF D
  <2>3. \A j \in 1..(m - 1) : a[j] = b[j]
    <3> SUFFICES ASSUME NEW j \in 1..(m - 1), a[j] # b[j] PROVE FALSE
      OBVIOUS
    <3>1. j \in D
      BY <1>1, <2>2 DEF D
    <3> QED
      BY <1>1, <2>1, <2>2, <3>1
  <2>4. CASE m <= Len(a) /\ m <= Len(b)
    <3>1. PartLess(a[m], b[m]) \/ PartLess(b[m], a[m])
      BY <1>1, <2>2, <2>4, PartOrder
    <3>2. At(a, b, m) \/ At(b, a, m)
      BY <1>1, <2>2, <2>3, <2>4, <3>1 DEF At
    <3> QED
      BY <3>2, KeyLessAt
  <2>5. CASE ~(m <= Len(a))
    <3>1. At(a, b, m)
      BY <1>1, <2>2, <2>3, <2>5 DEF At
    <3> QED
      BY <3>1, KeyLessAt
  <2>6. CASE ~(m <= Len(b))
    <3>1. At(b, a, m)
      BY <1>1, <2>2, <2>3, <2>6 DEF At
    <3> QED
      BY <3>1, KeyLessAt
  <2> QED
    BY <2>4, <2>5, <2>6
<1> QED
  BY <1>2, <1>3

-----------------------------------------------------------------------------
(* Versions                                                                *)

\* What each result of compare_versions says of the keys.
LEMMA CompareMeans ==
    ASSUME NEW a \in Seq(Run), NEW b \in Seq(Run)
    PROVE  /\ compare_versions(a, b) \in {-1, 0, 1}
           /\ compare_versions(a, b) = -1 <=> KeyLess(version_key(a), version_key(b))
           /\ compare_versions(a, b) = 1 <=> KeyLess(version_key(b), version_key(a))
           /\ compare_versions(a, b) = 0 <=> version_key(a) = version_key(b)
<1> DEFINE x == version_key(a)  y == version_key(b)
<1>1. x \in Key /\ y \in Key
  BY KeyType
<1>2. compare_versions(a, b) = CASE KeyLess(x, y) -> -1
                                 [] KeyLess(y, x) -> 1
                                 [] OTHER -> 0
  BY DEF compare_versions
<1> HIDE DEF x, y
<1>3. ~(KeyLess(x, y) /\ KeyLess(y, x))
  BY <1>1, KeyIrreflexive, KeyTransitive
<1>4. KeyLess(x, y) \/ KeyLess(y, x) \/ x = y
  BY <1>1, KeyTotal
<1>5. x = y => ~KeyLess(x, y) /\ ~KeyLess(y, x)
  BY <1>1, KeyIrreflexive
<1>6. /\ compare_versions(a, b) \in {-1, 0, 1}
      /\ compare_versions(a, b) = -1 <=> KeyLess(x, y)
      /\ compare_versions(a, b) = 1 <=> KeyLess(y, x)
      /\ compare_versions(a, b) = 0 <=> x = y
  <2>1. CASE KeyLess(x, y)
    BY <1>2, <1>3, <1>5, <2>1
  <2>2. CASE KeyLess(y, x)
    BY <1>2, <1>3, <1>5, <2>2
  <2>3. CASE ~KeyLess(x, y) /\ ~KeyLess(y, x)
    BY <1>2, <1>4, <2>3
  <2> QED
    BY <2>1, <2>2, <2>3
<1> QED
  BY <1>6 DEF x, y

\* Versions of any length are totally ordered up to their spelling: the result
\* changes sign with the order of the arguments, and chains of comparisons
\* agree (facts.py:178-180).
THEOREM VersionsAreOrdered ==
    ASSUME NEW a \in Seq(Run), NEW b \in Seq(Run), NEW c \in Seq(Run)
    PROVE  /\ compare_versions(a, b) = -compare_versions(b, a)
           /\ compare_versions(a, b) \in {-1, 0} /\ compare_versions(b, c) \in {-1, 0}
              => /\ compare_versions(a, c) \in {-1, 0}
                 /\ compare_versions(a, c) = 0
                    => compare_versions(a, b) = 0 /\ compare_versions(b, c) = 0
<1> DEFINE x == version_key(a)  y == version_key(b)  z == version_key(c)
<1>1. x \in Key /\ y \in Key /\ z \in Key
  BY KeyType
<1>2. compare_versions(a, b) = -compare_versions(b, a)
  BY CompareMeans
<1>3. /\ compare_versions(a, b) = -1 <=> KeyLess(x, y)
      /\ compare_versions(b, c) = -1 <=> KeyLess(y, z)
      /\ compare_versions(a, c) = -1 <=> KeyLess(x, z)
      /\ compare_versions(a, b) = 0 <=> x = y
      /\ compare_versions(b, c) = 0 <=> y = z
      /\ compare_versions(a, c) = 0 <=> x = z
  BY CompareMeans
<1> HIDE DEF x, y, z
<1>4. KeyLess(x, y) /\ KeyLess(y, z) => KeyLess(x, z)
  BY <1>1, KeyTransitive
<1>5. ~KeyLess(x, x)
  BY <1>1, KeyIrreflexive
<1>6. (KeyLess(x, y) \/ x = y) /\ (KeyLess(y, z) \/ y = z)
      => /\ KeyLess(x, z) \/ x = z
         /\ x = z => x = y /\ y = z
  BY <1>4, <1>5
<1> QED
  BY <1>2, <1>3, <1>6

-----------------------------------------------------------------------------
(* The report                                                              *)

Table == [Keys -> Version \cup {none}]
Facts == [platform : Platform, model : Model \cup {none}, version : Version \cup {none}]

LEMMA VersionsAreRuns == none \notin Version /\ \A v \in Version : v \in Seq(Run)
  BY ReportAssumption

-----------------------------------------------------------------------------
(* Types                                                                   *)

LEMMA InitTyped == Init => TypeOK
<1> SUFFICES ASSUME Init PROVE TypeOK
  OBVIOUS
<1>1. device.model = none /\ device.version = none /\ device.platform \in Platform
      /\ device = [platform |-> device.platform, model |-> none, version |-> none]
  BY DEF Init
<1> QED
  BY <1>1 DEF Init, TypeOK

LEMMA StepTyped == TypeOK /\ [Next]_vars => TypeOK'
<1> SUFFICES ASSUME TypeOK, [Next]_vars PROVE TypeOK'
  OBVIOUS
<1> USE DEF TypeOK
<1>1. CASE create_standard
  BY <1>1 DEF create_standard
<1>2. CASE update_standard
  BY <1>2 DEF update_standard
<1>3. CASE delete_standard
  BY <1>3 DEF delete_standard
<1>4. CASE CheckDevice
  BY <1>4 DEF CheckDevice
<1>5. CASE update_device
  BY <1>5 DEF update_device
<1>6. CASE UNCHANGED vars
  BY <1>6 DEF vars
<1> QED
  BY <1>1, <1>2, <1>3, <1>4, <1>5, <1>6 DEF Next

\* Every target and every fact stays what the API and the parser accept
\* (api.py:188-207, facts.py:164-165).
THEOREM TypeCorrect == Spec => []TypeOK
<1>1. Init => TypeOK
  BY InitTyped
<1>2. TypeOK /\ [Next]_vars => TypeOK'
  BY StepTyped
<1> QED
  BY <1>1, <1>2, PTL DEF Spec

-----------------------------------------------------------------------------
(* The order of verdicts                                                   *)

\* What moving one target does to one verdict.
LEMMA VerdictMoves ==
    ASSUME NEW v \in Version \cup {none}, NEW t \in Version, NEW u \in Version
    PROVE  /\ compare_versions(u, t) \in {0, 1} =>
                /\ compliance(v, t) = "behind" => compliance(v, u) = "behind"
                /\ compliance(v, t) = "compliant" => compliance(v, u) # "ahead"
           /\ compare_versions(u, t) \in {0, -1} =>
                /\ compliance(v, t) = "ahead" => compliance(v, u) = "ahead"
                /\ compliance(v, t) = "compliant" => compliance(v, u) # "behind"
           /\ compare_versions(u, t) = 0 => compliance(v, u) = compliance(v, t)
<1>1. t # none /\ u # none /\ t \in Seq(Run) /\ u \in Seq(Run)
  BY VersionsAreRuns
<1>2. CASE v = none
  <2>1. compliance(v, t) = "unknown" /\ compliance(v, u) = "unknown"
    BY <1>1, <1>2 DEF compliance
  <2> QED
    BY <2>1
<1>3. CASE v # none
  <2> DEFINE ct == compare_versions(v, t)
             cu == compare_versions(v, u)
             ut == compare_versions(u, t)
  <2>1. v \in Seq(Run)
    BY <1>3, VersionsAreRuns
  <2>2. /\ ct \in {-1, 0, 1} /\ cu \in {-1, 0, 1} /\ ut \in {-1, 0, 1}
    BY <1>1, <2>1, CompareMeans
  <2>3. ct \in {-1, 0} /\ ut \in {0, 1} =>
            cu \in {-1, 0} /\ (cu = 0 => ct = 0 /\ ut = 0)
    <3>1. compare_versions(t, u) = -ut
      BY <1>1, VersionsAreOrdered
    <3>2. ct \in {-1, 0} /\ compare_versions(t, u) \in {-1, 0} =>
             cu \in {-1, 0} /\ (cu = 0 => ct = 0 /\ compare_versions(t, u) = 0)
      BY <1>1, <2>1, VersionsAreOrdered
    <3> HIDE DEF ct, cu, ut
    <3> QED
      BY <2>2, <3>1, <3>2
  <2>4. ct \in {0, 1} /\ ut \in {-1, 0} =>
            cu \in {0, 1} /\ (cu = 0 => ct = 0 /\ ut = 0)
    <3>1. /\ compare_versions(t, v) = -ct
          /\ compare_versions(u, v) = -cu
      BY <1>1, <2>1, VersionsAreOrdered
    <3>2. ut \in {-1, 0} /\ compare_versions(t, v) \in {-1, 0} =>
             compare_versions(u, v) \in {-1, 0}
             /\ (compare_versions(u, v) = 0 => ut = 0 /\ compare_versions(t, v) = 0)
      BY <1>1, <2>1, VersionsAreOrdered
    <3> HIDE DEF ct, cu, ut
    <3> QED
      BY <2>2, <3>1, <3>2
  <2>5. /\ compliance(v, t) = CASE ct = 0 -> "compliant" [] ct < 0 -> "behind" [] OTHER -> "ahead"
        /\ compliance(v, u) = CASE cu = 0 -> "compliant" [] cu < 0 -> "behind" [] OTHER -> "ahead"
    BY <1>1, <1>3 DEF compliance
  <2> HIDE DEF ct, cu
  <2>6. /\ ct = 0 <=> compliance(v, t) = "compliant"
        /\ ct = -1 <=> compliance(v, t) = "behind"
        /\ ct = 1 <=> compliance(v, t) = "ahead"
        /\ cu = 0 <=> compliance(v, u) = "compliant"
        /\ cu = -1 <=> compliance(v, u) = "behind"
        /\ cu = 1 <=> compliance(v, u) = "ahead"
    BY <2>2, <2>5
  <2> QED
    BY <2>2, <2>3, <2>4, <2>6
<1> QED
  BY <1>2, <1>3

\* Which standard applies depends on which standards there are, not on their
\* targets.
LEMMA BestStays ==
    ASSUME NEW s \in Table, NEW r \in Table, NEW dev \in Facts,
           \A k \in Keys : s[k] = none <=> r[k] = none
    PROVE  best_standard(r, dev) = best_standard(s, dev)
<1>1. Candidates(r, dev) = Candidates(s, dev)
  BY DEF Candidates
<1> QED
  BY <1>1 DEF best_standard

\* What moving targets in one direction does to the report.
LEMMA ReportMoves ==
    ASSUME NEW s \in Table, NEW r \in Table, NEW dev \in Facts, NEW d \in {-1, 0, 1},
           \A k \in Keys : IF s[k] = none THEN r[k] = none
                           ELSE r[k] # none /\ compare_versions(r[k], s[k]) \in {0, d}
    PROVE  /\ d = 1 =>
                /\ Report(s, dev) = {"behind"} => Report(r, dev) = {"behind"}
                /\ Report(s, dev) = {"compliant"} => "ahead" \notin Report(r, dev)
           /\ d = -1 =>
                /\ Report(s, dev) = {"ahead"} => Report(r, dev) = {"ahead"}
                /\ Report(s, dev) = {"compliant"} => "behind" \notin Report(r, dev)
           /\ d = 0 => Report(r, dev) = Report(s, dev)
<1> DEFINE best == best_standard(s, dev)
           v == dev.version
<1>1. best_standard(r, dev) = best
  BY BestStays
<1>2. v \in Version \cup {none}
  BY DEF Facts
<1>3. ASSUME NEW k \in best
      PROVE  /\ s[k] \in Version /\ r[k] \in Version
             /\ compare_versions(r[k], s[k]) \in {0, d}
  BY <1>3 DEF best_standard, Candidates, Table
<1> HIDE DEF best, v
<1>4. CASE best = {}
  <2>1. Report(s, dev) = {compliance(v, none)} /\ Report(r, dev) = {compliance(v, none)}
    BY <1>1, <1>4 DEF Report, best, v
  <2>2. compliance(v, none) = "no_standard"
    BY DEF compliance
  <2> QED
    BY <2>1, <2>2
<1>5. CASE best # {}
  <2>1. /\ Report(s, dev) = {compliance(v, s[k]) : k \in best}
        /\ Report(r, dev) = {compliance(v, r[k]) : k \in best}
    BY <1>1, <1>5 DEF Report, best, v
  <2>2. ASSUME NEW k \in best
        PROVE  /\ d = 1 => /\ compliance(v, s[k]) = "behind" => compliance(v, r[k]) = "behind"
                           /\ compliance(v, s[k]) = "compliant" => compliance(v, r[k]) # "ahead"
               /\ d = -1 => /\ compliance(v, s[k]) = "ahead" => compliance(v, r[k]) = "ahead"
                            /\ compliance(v, s[k]) = "compliant" => compliance(v, r[k]) # "behind"
               /\ d = 0 => compliance(v, r[k]) = compliance(v, s[k])
    BY <1>2, <1>3, VerdictMoves
  <2>3. ASSUME NEW w, Report(s, dev) = {w}
        PROVE  \A k \in best : compliance(v, s[k]) = w
    BY <2>1, <2>3
  <2>4. ASSUME NEW w, \A k \in best : compliance(v, r[k]) = w
        PROVE  Report(r, dev) = {w}
    BY <1>5, <2>1, <2>4
  <2>5. d = 1 => /\ Report(s, dev) = {"behind"} => Report(r, dev) = {"behind"}
                 /\ Report(s, dev) = {"compliant"} => "ahead" \notin Report(r, dev)
    BY <2>1, <2>2, <2>3, <2>4
  <2>6. d = -1 => /\ Report(s, dev) = {"ahead"} => Report(r, dev) = {"ahead"}
                  /\ Report(s, dev) = {"compliant"} => "behind" \notin Report(r, dev)
    BY <2>1, <2>2, <2>3, <2>4
  <2>7. d = 0 => Report(r, dev) = Report(s, dev)
    BY <2>1, <2>2
  <2> QED
    BY <2>5, <2>6, <2>7
<1> QED
  BY <1>4, <1>5

\* Versions are ordered and spellings do not count (docs/firmware.md:39-40):
\* raising targets gets nobody who is behind to the standard or beyond, and
\* lowering or respelling them is as harmless.
THEOREM OrderIsKept == Spec => TargetsKeepOrder
<1> DEFINE Moves ==
      /\ TargetsMove(1) => /\ Verdict = {"behind"} => Verdict' = {"behind"}
                           /\ Verdict = {"compliant"} => "ahead" \notin Verdict'
      /\ TargetsMove(-1) => /\ Verdict = {"ahead"} => Verdict' = {"ahead"}
                            /\ Verdict = {"compliant"} => "behind" \notin Verdict'
      /\ TargetsMove(0) => Verdict' = Verdict
<1>1. TypeOK /\ TypeOK' => Moves
  <2> SUFFICES ASSUME TypeOK, TypeOK' PROVE Moves
    OBVIOUS
  <2>1. standards \in Table /\ standards' \in Table /\ device \in Facts
    BY DEF TypeOK, Table, Facts
  <2>2. ASSUME NEW d \in {-1, 0, 1}, TargetsMove(d)
        PROVE  /\ device' = device
               /\ \A k \in Keys : IF standards[k] = none THEN standards'[k] = none
                                  ELSE /\ standards'[k] # none
                                       /\ compare_versions(standards'[k], standards[k]) \in {0, d}
    BY <2>2 DEF TargetsMove
  <2>3. TargetsMove(1) => /\ Verdict = {"behind"} => Verdict' = {"behind"}
                          /\ Verdict = {"compliant"} => "ahead" \notin Verdict'
    BY <2>1, <2>2, ReportMoves DEF Verdict
  <2>4. TargetsMove(-1) => /\ Verdict = {"ahead"} => Verdict' = {"ahead"}
                           /\ Verdict = {"compliant"} => "behind" \notin Verdict'
    BY <2>1, <2>2, ReportMoves DEF Verdict
  <2>5. TargetsMove(0) => Verdict' = Verdict
    BY <2>1, <2>2, ReportMoves DEF Verdict
  <2> QED
    BY <2>3, <2>4, <2>5
<1>2. Spec => []TypeOK
  BY TypeCorrect
<1> QED
  BY <1>1, <1>2, PTL DEF Spec, TargetsKeepOrder

-----------------------------------------------------------------------------
(* The standard that applies                                               *)

\* The model starts with what is before the "*".
StartsWith(model, p) ==
    Len(p) - 1 <= Len(model) /\ \A i \in 1..(Len(p) - 1) : p[i] = model[i]

LEMMA PatternTypes ==
    /\ \A p \in Pattern : p \in Seq(STRING) /\ Len(p) \in Nat
    /\ \A m \in Model : m \in Seq(STRING) /\ Len(m) \in Nat /\ m # none
BY ReportAssumption

\* A cut that matches a prefix pattern takes one letter at a time: the first
\* place where it did not would have followed one where it did.
LEMMA CutIsStraight ==
    ASSUME NEW p \in Pattern, IsPrefix(p), NEW m \in Model,
           NEW cut \in [0..Len(p) -> 0..Len(m)], cut[0] = 0,
           \A i \in 1..(Len(p) - 1) : cut[i] = cut[i - 1] + 1
    PROVE  \A i \in 0..(Len(p) - 1) : cut[i] = i
<1> DEFINE Off == {i \in 0..(Len(p) - 1) : cut[i] # i}
<1> SUFFICES ASSUME Off # {} PROVE FALSE
  OBVIOUS
<1>1. Len(p) \in Nat
  BY PatternTypes
<1>2. Off \in SUBSET Nat
  BY <1>1
<1>3. PICK i \in Off : \A j \in Off : i <= j
  BY <1>2, LeastNatural
<1>4. i \in 1..(Len(p) - 1) /\ i - 1 \in 0..(Len(p) - 1) /\ i - 1 \notin Off
  BY <1>1, <1>3
<1>5. cut[i] = i
  BY <1>1, <1>4
<1> QED
  BY <1>3, <1>5

LEMMA PrefixMatch ==
    ASSUME NEW p \in Pattern, IsPrefix(p), NEW m \in Model
    PROVE  FnMatch(p, m) <=> StartsWith(m, p)
<1>1. Len(p) \in Nat \ {0} /\ Len(m) \in Nat
  BY PatternTypes DEF IsPrefix
<1>2. ASSUME FnMatch(p, m) PROVE StartsWith(m, p)
  <2>1. PICK cut \in [0..Len(p) -> 0..Len(m)] :
           /\ cut[0] = 0
           /\ \A i \in 1..Len(p) :
                 IF p[i] = "*" THEN cut[i] >= cut[i - 1]
                 ELSE /\ cut[i] = cut[i - 1] + 1
                      /\ p[i] = "?" \/ p[i] = m[cut[i]]
    BY <1>2 DEF FnMatch
  <2>2. \A i \in 1..(Len(p) - 1) : cut[i] = cut[i - 1] + 1 /\ p[i] = m[cut[i]]
    BY <1>1, <2>1 DEF IsPrefix
  <2>3. \A i \in 0..(Len(p) - 1) : cut[i] = i
    BY <2>1, <2>2, CutIsStraight
  <2>4. cut[Len(p) - 1] <= Len(m)
    BY <1>1
  <2> QED
    BY <1>1, <2>2, <2>3, <2>4 DEF StartsWith
<1>3. ASSUME StartsWith(m, p) PROVE FnMatch(p, m)
  <2> DEFINE cut == [i \in 0..Len(p) |-> IF i < Len(p) THEN i ELSE Len(m)]
  <2>1. cut \in [0..Len(p) -> 0..Len(m)]
    BY <1>1, <1>3 DEF StartsWith
  <2>2. cut[0] = 0 /\ cut[Len(p)] = Len(m)
    BY <1>1
  <2>3. ASSUME NEW i \in 1..Len(p)
        PROVE  IF p[i] = "*" THEN cut[i] >= cut[i - 1]
               ELSE /\ cut[i] = cut[i - 1] + 1
                    /\ p[i] = "?" \/ p[i] = m[cut[i]]
    <3>1. CASE i = Len(p)
      BY <1>1, <1>3, <3>1 DEF IsPrefix, StartsWith
    <3>2. CASE i # Len(p)
      BY <1>1, <1>3, <3>2 DEF IsPrefix, StartsWith
    <3> QED
      BY <3>1, <3>2
  <2> HIDE DEF cut
  <2> QED
    BY <2>1, <2>2, <2>3 DEF FnMatch
<1> QED
  BY <1>2, <1>3

\* The models a pattern covers are those that start with its prefix; "*" alone
\* covers all.
LEMMA Covers ==
    ASSUME NEW p \in Pattern, IsPrefix(p), NEW m \in Model
    PROVE  pattern_matches(p, m) <=> StartsWith(m, p)
<1>1. CASE p = AnyModel
  BY <1>1, PatternTypes DEF pattern_matches, AnyModel, StartsWith
<1>2. CASE p # AnyModel
  BY <1>2, PatternTypes, PrefixMatch DEF pattern_matches
<1> QED
  BY <1>1, <1>2

\* Of two prefixes of a model the longer one covers less, and two of the same
\* length are the same.
LEMMA Nested ==
    ASSUME NEW p \in Pattern, NEW q \in Pattern, IsPrefix(p), IsPrefix(q),
           NEW m \in Model, StartsWith(m, p), StartsWith(m, q), Len(q) <= Len(p)
    PROVE  /\ Len(p) = Len(q) => p = q
           /\ \A n \in Model : StartsWith(n, p) => StartsWith(n, q)
<1>1. Len(p) \in Nat /\ Len(q) \in Nat /\ p \in Seq(STRING) /\ q \in Seq(STRING)
      /\ \A n \in Model : Len(n) \in Nat
  BY PatternTypes
<1>2. \A i \in 1..(Len(q) - 1) : p[i] = q[i]
  BY <1>1 DEF StartsWith
<1>3. Len(p) = Len(q) => p = q
  <2> SUFFICES ASSUME Len(p) = Len(q) PROVE p = q
    OBVIOUS
  <2>1. \A i \in 1..Len(p) : p[i] = q[i]
    BY <1>1, <1>2 DEF IsPrefix
  <2> QED
    BY <1>1, <2>1
<1>4. ASSUME NEW n \in Model, StartsWith(n, p) PROVE StartsWith(n, q)
  BY <1>1, <1>2, <1>4 DEF StartsWith
<1> QED
  BY <1>3, <1>4

LEMMA BestIsMostSpecific ==
    TypeOK => MostSpecificWins
<1> SUFFICES ASSUME TypeOK, \A c \in Candidates(standards, device) : IsPrefix(c[2])
             PROVE  /\ Cardinality(best_standard(standards, device)) <= 1
                    /\ \A k \in best_standard(standards, device), c \in Candidates(standards, device) :
                          ~(ModelsOf(c) \subseteq ModelsOf(k) /\ ModelsOf(c) # ModelsOf(k))
  BY DEF MostSpecificWins
<1> DEFINE best == best_standard(standards, device)
           candidates == Candidates(standards, device)
           m == device.model
<1>1. \A k \in candidates :
         /\ k \in Keys /\ k[1] = device.platform /\ k = <<k[1], k[2]>>
         /\ k[2] \in Pattern /\ IsPrefix(k[2]) /\ pattern_matches(k[2], m)
         /\ Len(k[2]) \in Nat /\ (k[2] = AnyModel <=> Len(k[2]) = 1)
  <2> SUFFICES ASSUME NEW k \in candidates
               PROVE  /\ k \in Keys /\ k[1] = device.platform /\ k = <<k[1], k[2]>>
                      /\ k[2] \in Pattern /\ IsPrefix(k[2]) /\ pattern_matches(k[2], m)
                      /\ Len(k[2]) \in Nat /\ (k[2] = AnyModel <=> Len(k[2]) = 1)
    OBVIOUS
  <2>1. /\ k \in Keys /\ k[1] = device.platform /\ k = <<k[1], k[2]>>
        /\ k[2] \in Pattern /\ IsPrefix(k[2]) /\ pattern_matches(k[2], m)
    BY DEF Candidates, Keys
  <2>2. k[2] \in Seq(STRING) /\ Len(k[2]) \in Nat
    BY <2>1, PatternTypes
  <2>3. Len(k[2]) = 1 => k[2] = <<"*">>
    BY <2>1, <2>2 DEF IsPrefix
  <2> QED
    BY <2>1, <2>2, <2>3 DEF AnyModel
<1>2. ASSUME NEW k \in best, NEW c \in candidates
      PROVE  /\ Len(c[2]) <= Len(k[2])
             /\ Len(c[2]) = Len(k[2]) => c = k
             /\ ModelsOf(k) \subseteq ModelsOf(c)
  <2>1. k \in candidates /\ Specific(c) <= Specific(k)
    BY <1>2 DEF best_standard
  <2>2. /\ Len(k[2]) \in Nat \ {0} /\ Len(c[2]) \in Nat \ {0} /\ Len(c[2]) <= Len(k[2])
    BY <1>1, <1>2, <2>1 DEF Specific, IsPrefix
  <2>3. CASE m = none
    <3>1. k[2] = AnyModel /\ c[2] = AnyModel
      BY <1>1, <1>2, <2>1, <2>3 DEF pattern_matches
    <3> QED
      BY <1>1, <1>2, <2>1, <2>2, <3>1 DEF ModelsOf
  <2>4. CASE m # none
    <3>1. m \in Model
      BY <2>4 DEF TypeOK
    <3>2. StartsWith(m, k[2]) /\ StartsWith(m, c[2])
      BY <1>1, <1>2, <2>1, <3>1, Covers
    <3>3. /\ Len(k[2]) = Len(c[2]) => k[2] = c[2]
          /\ \A n \in Model : StartsWith(n, k[2]) => StartsWith(n, c[2])
      BY <1>1, <1>2, <2>1, <2>2, <3>1, <3>2, Nested
    <3>4. ModelsOf(k) \subseteq ModelsOf(c)
      BY <1>1, <1>2, <2>1, <3>3, Covers DEF ModelsOf
    <3> QED
      BY <1>1, <1>2, <2>1, <2>2, <3>3, <3>4
  <2> QED
    BY <2>3, <2>4
<1>3. \A k, c \in best : k = c
  <2> SUFFICES ASSUME NEW k \in best, NEW c \in best PROVE k = c
    OBVIOUS
  <2>1. k \in candidates /\ c \in candidates
    BY DEF best_standard
  <2> QED
    BY <1>1, <1>2, <2>1
<1>4. Cardinality(best) <= 1
  <2>1. CASE best = {}
    BY <2>1, FS_EmptySet
  <2>2. ASSUME NEW k \in best PROVE Cardinality(best) <= 1
    <3>1. best = {k}
      BY <1>3
    <3>2. Cardinality({k}) = 1
      BY FS_Singleton
    <3> HIDE DEF best
    <3> QED
      BY <3>1, <3>2
  <2> QED
    BY <2>1, <2>2
<1> QED
  BY <1>2, <1>4

\* For any set of patterns, and whatever else the table holds: of the prefixes
\* that fit a device the longest applies, alone, and it is the most specific
\* (docs/firmware.md:38, facts.py:190-196).
THEOREM PrefixesAreSpecific == Spec => []MostSpecificWins
<1>1. TypeOK => MostSpecificWins
  BY BestIsMostSpecific
<1> QED
  BY <1>1, TypeCorrect, PTL

=============================================================================
