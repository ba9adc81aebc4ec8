-------------------------- MODULE PathLookupProofs --------------------------
(***************************************************************************)
(* Lookups and listings, for every volume whose directories have no two    *)
(* entries of one name, and every path.                                    *)
(***************************************************************************)
EXTENDS PathLookup, SequenceTheorems, WellFoundedInduction, TLAPS

-----------------------------------------------------------------------------
(* Induction, by the least number that is not in a set.                    *)

LEMMA LeastNatural ==
  ASSUME NEW T \in SUBSET Nat, T # {}
  PROVE  \E n \in T : \A m \in T : n <= m
<1>1. PICK n \in T : \A m \in T : ~ (<<m, n>> \in OpToRel(<, Nat))
  BY NatLessThanWellFounded, WFMin
<1>2. \A m \in Nat, p \in Nat : <<m, p>> \in OpToRel(<, Nat) <=> m < p
  BY DEF OpToRel
<1>3. \A m \in T : ~ (m < n)
  BY <1>1, <1>2, Zenon
<1> QED
  BY <1>3

(* A set that has 0, and with each number the next, has them all.          *)
LEMMA CountUp ==
  ASSUME NEW T, 0 \in T, \A n \in Nat : n \in T => n + 1 \in T
  PROVE  Nat \subseteq T
<1> SUFFICES ASSUME Nat \ T # {} PROVE FALSE
  OBVIOUS
<1>1. PICK n \in Nat \ T : \A m \in Nat \ T : n <= m
  BY LeastNatural
<1>2. n - 1 \in Nat /\ n - 1 \in T
  BY <1>1
<1> QED
  BY <1>1, <1>2

(* A function that is defined from 0 up, each value from the one before.   *)
DefinedUpTo(S, a, k, F) ==
  \E f \in [0 .. k -> S] : f[0] = a /\ \A n \in 1 .. k : f[n] = F[n][f[n - 1]]

LEMMA Recursion ==
  ASSUME NEW S, NEW a, a \in S, NEW k \in Nat, NEW F, F \in [1 .. k -> [S -> S]]
  PROVE  DefinedUpTo(S, a, k, F)
<1> DEFINE T == {m \in Nat : m <= k => \E f \in [0 .. m -> S] :
                              f[0] = a /\ \A n \in 1 .. m : f[n] = F[n][f[n - 1]]}
<1>1. 0 \in T
  <2>1. [n \in 0 .. 0 |-> a] \in [0 .. 0 -> S] /\ [n \in 0 .. 0 |-> a][0] = a
    OBVIOUS
  <2>2. \A n \in 1 .. 0 : FALSE
    OBVIOUS
  <2>3. \E f \in [0 .. 0 -> S] : f[0] = a /\ \A n \in 1 .. 0 : f[n] = F[n][f[n - 1]]
    BY <2>1, <2>2
  <2> QED
    BY <2>3
<1>2. ASSUME NEW m \in Nat, m \in T PROVE m + 1 \in T
  <2> SUFFICES ASSUME m + 1 <= k
               PROVE  \E f \in [0 .. m + 1 -> S] :
                        f[0] = a /\ \A n \in 1 .. m + 1 : f[n] = F[n][f[n - 1]]
    OBVIOUS
  <2>1. PICK f \in [0 .. m -> S] : f[0] = a /\ \A n \in 1 .. m : f[n] = F[n][f[n - 1]]
    BY <1>2
  <2> DEFINE g == [n \in 0 .. m + 1 |-> IF n = m + 1 THEN F[m + 1][f[m]] ELSE f[n]]
  <2>2. g \in [0 .. m + 1 -> S]
    BY <2>1
  <2>3. g[0] = a /\ \A n \in 1 .. m + 1 : g[n] = F[n][g[n - 1]]
    BY <2>1
  <2> QED
    BY <2>2, <2>3
<1>3. k \in T
  BY <1>1, <1>2, CountUp
<1> QED
  BY <1>3 DEF DefinedUpTo

-----------------------------------------------------------------------------
(* Volumes, apart from the one at hand. *)

Slot(t, d, i) == t[d].slots[i]

IsTree(t) ==
  /\ RootDir \in DOMAIN t
  /\ \A d \in DOMAIN t :
       /\ t[d].slots \in Seq(SlotType) /\ t[d].ended \in BOOLEAN
       /\ \A i \in 1 .. Len(t[d].slots) :
            /\ Slot(t, d, i) \in SlotType
            /\ Slot(t, d, i).kind = "dir" => Slot(t, d, i).id \in DOMAIN t
       /\ \A i, j \in 1 .. Len(t[d].slots) :
            Live(Slot(t, d, i)) /\ Live(Slot(t, d, j)) /\ Slot(t, d, i).name = Slot(t, d, j).name => i = j

LEMMA TreesAre ==
  ASSUME NEW t \in Trees
  PROVE  IsTree(t)
<1>1. RootDir \in DOMAIN t
  BY LookupAssumption
<1> SUFFICES ASSUME NEW d \in DOMAIN t
             PROVE  /\ t[d].slots \in Seq(SlotType) /\ t[d].ended \in BOOLEAN
                    /\ \A i \in 1 .. Len(t[d].slots) :
                         /\ Slot(t, d, i) \in SlotType
                         /\ Slot(t, d, i).kind = "dir" => Slot(t, d, i).id \in DOMAIN t
                    /\ \A i, j \in 1 .. Len(t[d].slots) :
                         Live(Slot(t, d, i)) /\ Live(Slot(t, d, j)) /\ Slot(t, d, i).name = Slot(t, d, j).name => i = j
  BY <1>1 DEF IsTree
<1>2. t[d] \in [slots : Seq(SlotType), ended : BOOLEAN]
  BY LookupAssumption
<1>3. t[d].slots \in Seq(SlotType) /\ t[d].ended \in BOOLEAN
  BY <1>2
<1>4. DOMAIN t[d].slots = 1 .. Len(t[d].slots)
  BY <1>3
<1>5. \A i \in 1 .. Len(t[d].slots) : Slot(t, d, i) \in SlotType
  BY <1>3 DEF Slot
<1>6. \A i \in 1 .. Len(t[d].slots) : Slot(t, d, i).kind = "dir" => Slot(t, d, i).id \in DOMAIN t
  BY <1>4, LookupAssumption DEF Slot
<1>7. \A i, j \in 1 .. Len(t[d].slots) :
        Live(Slot(t, d, i)) /\ Live(Slot(t, d, j)) /\ Slot(t, d, i).name = Slot(t, d, j).name => i = j
  BY <1>4, NamesAreUnique, Zenon DEF Slot
<1> QED
  BY <1>3, <1>5, <1>6, <1>7

EntriesOf(t, S) ==
  UNION {{t[d].slots[i] : i \in {j \in DOMAIN t[d].slots : Live(t[d].slots[j])}} : d \in S}

LEMMA EntriesAre ==
  ASSUME NEW t \in Trees, NEW S \in SUBSET DOMAIN t, NEW s
  PROVE  s \in EntriesOf(t, S) <=>
           \E d \in S : \E i \in 1 .. Len(t[d].slots) : Live(Slot(t, d, i)) /\ s = Slot(t, d, i)
<1>1. \A d \in S : DOMAIN t[d].slots = 1 .. Len(t[d].slots)
  BY TreesAre DEF IsTree
<1> QED
  BY <1>1 DEF EntriesOf, Slot

(* What one name leads to. *)
Leads(n, name, how) == name = n \/ (how = "loose" /\ IsPrefix(n, name))

StepTo(t, S, n, how) ==
  DirsAmong({s \in EntriesOf(t, S) : s.name = n \/ (how = "loose" /\ IsPrefix(n, s.name))})

IsNext(t, S, n, how, x) ==
  \E d \in S : \E i \in 1 .. Len(t[d].slots) :
    /\ Slot(t, d, i).kind = "dir" /\ Leads(n, Slot(t, d, i).name, how)
    /\ x = Slot(t, d, i).id

LEMMA StepIs ==
  ASSUME NEW t \in Trees, NEW S \in SUBSET DOMAIN t, NEW n, NEW how, NEW x
  PROVE  x \in StepTo(t, S, n, how) <=> IsNext(t, S, n, how, x)
<1> DEFINE E == {s \in EntriesOf(t, S) : s.name = n \/ (how = "loose" /\ IsPrefix(n, s.name))}
<1>1. x \in StepTo(t, S, n, how) <=> \E s \in E : s.kind = "dir" /\ x = s.id
  BY DEF StepTo, DirsAmong
<1>2. \A s : s \in E <=> s \in EntriesOf(t, S) /\ Leads(n, s.name, how)
  BY DEF Leads
<1> HIDE DEF E
<1>3. \A s : s \in E <=> \E d \in S : \E i \in 1 .. Len(t[d].slots) :
                           Live(Slot(t, d, i)) /\ s = Slot(t, d, i) /\ Leads(n, s.name, how)
  BY <1>2, EntriesAre
<1> QED
  BY <1>1, <1>3 DEF Live, IsNext

LEMMA StepStays ==
  ASSUME NEW t \in Trees, NEW S \in SUBSET DOMAIN t, NEW n, NEW how
  PROVE  StepTo(t, S, n, how) \in SUBSET DOMAIN t
<1> SUFFICES ASSUME NEW x \in StepTo(t, S, n, how) PROVE x \in DOMAIN t
  OBVIOUS
<1>1. PICK d \in S : \E i \in 1 .. Len(t[d].slots) : Slot(t, d, i).kind = "dir" /\ x = Slot(t, d, i).id
  BY StepIs DEF IsNext
<1> QED
  BY <1>1, TreesAre DEF IsTree

DirsOf(t, path, n, how) ==
  LET dirs[k \in 0 .. Len(path)] ==
        IF k = 0 THEN {RootDir}
        ELSE DirsAmong({s \in EntriesOf(t, dirs[k - 1]) :
                          s.name = path[k] \/ (how = "loose" /\ IsPrefix(path[k], s.name))})
  IN  dirs[n]

LEMMA DirsUnfold ==
  ASSUME NEW t \in Trees, NEW p \in Seq(Names), NEW how
  PROVE  /\ DirsOf(t, p, 0, how) = {RootDir}
         /\ \A n \in 1 .. Len(p) : DirsOf(t, p, n, how) = StepTo(t, DirsOf(t, p, n - 1, how), p[n], how)
         /\ \A n \in 0 .. Len(p) : DirsOf(t, p, n, how) \in SUBSET DOMAIN t
<1> DEFINE k == Len(p)
           S == SUBSET DOMAIN t
           With(n, s) == StepTo(t, s, p[n], how)
           F == [n \in 1 .. k |-> [s \in S |-> With(n, s)]]
           up == CHOOSE u : u = [n \in 0 .. k |-> IF n = 0 THEN {RootDir} ELSE With(n, u[n - 1])]
<1>1. k \in Nat /\ {RootDir} \in S
  BY TreesAre DEF IsTree
<1>2. F \in [1 .. k -> [S -> S]]
  <2>1. \A n \in 1 .. k : \A s \in S : With(n, s) \in S
    BY StepStays
  <2> QED
    BY <2>1
<1>3. PICK f \in [0 .. k -> S] : f[0] = {RootDir} /\ \A n \in 1 .. k : f[n] = F[n][f[n - 1]]
  <2> DEFINE a == {RootDir}
  <2>1. a \in S /\ k \in Nat
    BY <1>1
  <2> HIDE DEF F, k, S, a
  <2>2. DefinedUpTo(S, a, k, F)
    BY ONLY <1>2, <2>1, Recursion
  <2> QED
    BY <2>2 DEF a, DefinedUpTo
<1>4. \A n \in 1 .. k : f[n] = With(n, f[n - 1])
  <2> SUFFICES ASSUME NEW n \in 1 .. k PROVE f[n] = With(n, f[n - 1])
    OBVIOUS
  <2>1. n - 1 \in 0 .. k
    BY <1>1
  <2>2. f[n - 1] \in S
    BY <1>3, <2>1
  <2> QED
    BY <1>3, <2>2
<1> HIDE DEF With, F
<1>5. f = [n \in 0 .. k |-> IF n = 0 THEN {RootDir} ELSE With(n, f[n - 1])]
  BY <1>1, <1>3, <1>4
<1>6. up = [n \in 0 .. k |-> IF n = 0 THEN {RootDir} ELSE With(n, up[n - 1])]
  BY <1>5
<1>7. \A n : DirsOf(t, p, n, how) = up[n]
  BY DEF DirsOf, With, StepTo
<1> HIDE DEF up
<1>8. up[0] = {RootDir} /\ \A n \in 1 .. k : up[n] = With(n, up[n - 1])
  <2>1. \A n \in 0 .. k : up[n] = IF n = 0 THEN {RootDir} ELSE With(n, up[n - 1])
    BY <1>6, Zenon
  <2> QED
    BY <1>1, <2>1
<1> DEFINE T == {n \in Nat : n <= k => up[n] \in S}
<1>9. 0 \in T
  BY <1>1, <1>8
<1>10. ASSUME NEW n \in Nat, n \in T PROVE n + 1 \in T
  <2> SUFFICES ASSUME n + 1 <= k PROVE up[n + 1] \in S
    OBVIOUS
  <2>1. n + 1 \in 1 .. k /\ (n + 1) - 1 = n /\ up[n] \in S
    BY <1>1, <1>10
  <2>2. up[n + 1] = With(n + 1, up[n])
    BY <1>8, <2>1
  <2> QED
    BY <2>1, <2>2, StepStays DEF With
<1>11. \A n \in 0 .. k : up[n] \in S
  <2> HIDE DEF T
  <2>1. Nat \subseteq T
    BY <1>9, <1>10, CountUp
  <2> QED
    BY <1>1, <2>1 DEF T
<1> QED
  BY <1>7, <1>8, <1>11 DEF With

LEMMA DirsNext ==
  ASSUME NEW t \in Trees, NEW p \in Seq(Names), NEW how, NEW k \in 0 .. Len(p), NEW n \in 0 .. Len(p), n = k + 1
  PROVE  /\ DirsOf(t, p, n, how) = StepTo(t, DirsOf(t, p, k, how), p[n], how)
         /\ DirsOf(t, p, k, how) \in SUBSET DOMAIN t
<1>1. n \in 1 .. Len(p) /\ n - 1 = k
  OBVIOUS
<1>2. DirsOf(t, p, n, how) = StepTo(t, DirsOf(t, p, n - 1, how), p[n], how)
  BY <1>1, DirsUnfold
<1> QED
  BY <1>1, <1>2, DirsUnfold

(* Names lead to one directory at most. *)
LEMMA OneDir ==
  ASSUME NEW t \in Trees, NEW p \in Seq(Names), NEW n \in 0 .. Len(p),
         NEW x \in DirsOf(t, p, n, "exact"), NEW y \in DirsOf(t, p, n, "exact")
  PROVE  x = y
<1> DEFINE E(k) == DirsOf(t, p, k, "exact")
           T == {k \in Nat : k <= Len(p) => \A a, b \in E(k) : a = b}
<1>1. 0 \in T
  BY DirsUnfold
<1>2. ASSUME NEW k \in Nat, k \in T PROVE k + 1 \in T
  <2> SUFFICES ASSUME k + 1 <= Len(p), NEW a \in E(k + 1), NEW b \in E(k + 1) PROVE a = b
    OBVIOUS
  <2>1. k + 1 \in 0 .. Len(p) /\ k \in 0 .. Len(p)
    OBVIOUS
  <2>2. E(k + 1) = StepTo(t, E(k), p[k + 1], "exact") /\ E(k) \in SUBSET DOMAIN t
    BY <2>1, DirsNext
  <2> HIDE DEF E
  <2> DEFINE Way(c, m, x2) ==
               Slot(t, c, m).kind = "dir" /\ Leads(p[k + 1], Slot(t, c, m).name, "exact") /\ x2 = Slot(t, c, m).id
  <2> DEFINE q == p[k + 1]
             S == E(k)
  <2>10. \A x2 : x2 \in StepTo(t, S, q, "exact") => IsNext(t, S, q, "exact", x2)
    <3> HIDE DEF S, q
    <3> QED
      BY <2>2, StepIs DEF S
  <2>9. \A x2 : x2 \in E(k + 1) => \E c \in E(k) : \E m \in 1 .. Len(t[c].slots) : Way(c, m, x2)
    BY <2>2, <2>10 DEF IsNext
  <2>7. PICK d \in E(k) : \E i \in 1 .. Len(t[d].slots) : Way(d, i, a)
    BY <2>9
  <2>8. PICK e \in E(k) : \E j \in 1 .. Len(t[e].slots) : Way(e, j, b)
    BY <2>9
  <2>3. PICK i \in 1 .. Len(t[d].slots) : Way(d, i, a)
    BY <2>7
  <2>4. PICK j \in 1 .. Len(t[e].slots) : Way(e, j, b)
    BY <2>8
  <2>5. d = e /\ d \in DOMAIN t
    BY <1>2, <2>1, <2>2, <2>7, <2>8
  <2>6. i = j
    BY <2>3, <2>4, <2>5, TreesAre DEF IsTree, Leads, Live
  <2> QED
    BY <2>3, <2>4, <2>5, <2>6
<1> HIDE DEF T
<1>3. Nat \subseteq T
  BY <1>1, <1>2, CountUp
<1> QED
  BY <1>3 DEF T

(* What lies behind a name that leads nowhere. *)
LEMMA NothingBehind ==
  ASSUME NEW t \in Trees, NEW p \in Seq(Names), NEW l, NEW k \in 0 .. Len(p), DirsOf(t, p, k, l) = {},
         NEW n \in 0 .. Len(p), k <= n
  PROVE  DirsOf(t, p, n, l) = {}
<1> DEFINE E(m) == DirsOf(t, p, m, l)
           T == {m \in Nat : k + m <= Len(p) => E(k + m) = {}}
<1>0. \A i \in 1 .. Len(p) : E(i) = StepTo(t, E(i - 1), p[i], l)
  BY DirsUnfold
<1>1. 0 \in T
  OBVIOUS
<1>2. ASSUME NEW m \in Nat, m \in T PROVE m + 1 \in T
  <2> SUFFICES ASSUME k + (m + 1) <= Len(p) PROVE E(k + (m + 1)) = {}
    OBVIOUS
  <2> DEFINE h == k + (m + 1)
  <2>1. h \in 1 .. Len(p) /\ h - 1 = k + m
    OBVIOUS
  <2>3. E(h - 1) = {}
    BY <1>2, <2>1
  <2>4. {} \in SUBSET DOMAIN t
    OBVIOUS
  <2> HIDE DEF E, h
  <2>2. E(h) = StepTo(t, E(h - 1), p[h], l)
    BY <1>0, <2>1
  <2>5. \A x : x \notin StepTo(t, {}, p[h], l)
    BY <2>4, StepIs DEF IsNext
  <2>6. E(h) = {}
    BY <2>2, <2>3, <2>5
  <2> QED
    BY <2>6 DEF h
<1> HIDE DEF T
<1>3. Nat \subseteq T
  BY <1>1, <1>2, CountUp
<1>4. n - k \in T /\ k + (n - k) = n
  BY <1>3
<1> QED
  BY <1>4 DEF T

-----------------------------------------------------------------------------
(* The nodes of a path. *)

NodesIn(t, op, path, how) ==
  IF path = <<>> THEN {RootDir}
  ELSE LET named == {s \in EntriesOf(t, DirsOf(t, path, Len(path) - 1, how)) : s.name = Last(path)}
       IN  IF op = "getattr" THEN {s.id : s \in named} ELSE DirsAmong(named)

LEMMA NodesAre ==
  ASSUME NEW p, NEW how
  PROVE  NodesOf(p, how) = NodesIn(tree, call.op, p, how)
BY DEF NodesOf, NodesIn, DirsAt, DirsOf, EntriesIn, EntriesOf

IsNode(s, op, name) == Live(s) /\ s.name = name /\ (op # "getattr" => s.kind = "dir")

LEMMA NodesUnfold ==
  ASSUME NEW t \in Trees, NEW p \in Seq(Names), p # <<>>, NEW op, NEW l, NEW x
  PROVE  x \in NodesIn(t, op, p, l) <=>
           \E d \in DirsOf(t, p, Len(p) - 1, l) : \E i \in 1 .. Len(t[d].slots) :
             IsNode(Slot(t, d, i), op, p[Len(p)]) /\ x = Slot(t, d, i).id
<1> DEFINE E == DirsOf(t, p, Len(p) - 1, l)
           named == {s \in EntriesOf(t, E) : s.name = Last(p)}
<1>1. Len(p) - 1 \in 0 .. Len(p)
  OBVIOUS
<1>2. E \in SUBSET DOMAIN t
  BY <1>1, DirsUnfold
<1>3. x \in NodesIn(t, op, p, l) <=> \E s \in named : (op # "getattr" => s.kind = "dir") /\ x = s.id
  BY DEF NodesIn, DirsAmong
<1>4. \A s : s \in named <=> s \in EntriesOf(t, E) /\ s.name = p[Len(p)]
  BY DEF Last
<1> HIDE DEF E, named
<1>5. \A s : s \in named <=> \E d \in E : \E i \in 1 .. Len(t[d].slots) :
                               Live(Slot(t, d, i)) /\ s = Slot(t, d, i) /\ s.name = p[Len(p)]
  BY <1>2, <1>4, EntriesAre
<1> QED
  BY <1>3, <1>5 DEF E, IsNode

(* A directory that is named exactly is where the names lead.              *)
LEMMA DirNodes ==
  ASSUME NEW t \in Trees, NEW p \in Seq(Names), NEW op, op # "getattr"
  PROVE  NodesIn(t, op, p, "exact") = DirsOf(t, p, Len(p), "exact")
<1>1. CASE p = <<>>
  BY <1>1, DirsUnfold DEF NodesIn
<1>2. CASE p # <<>>
  <2> DEFINE E == DirsOf(t, p, Len(p) - 1, "exact")
             n == p[Len(p)]
  <2>1. Len(p) \in 0 .. Len(p) /\ Len(p) - 1 \in 0 .. Len(p) /\ Len(p) = (Len(p) - 1) + 1
    BY <1>2
  <2>2. E \in SUBSET DOMAIN t /\ DirsOf(t, p, Len(p), "exact") = StepTo(t, E, n, "exact")
    BY <2>1, DirsNext
  <2>3. \A x : x \in NodesIn(t, op, p, "exact") <=>
           \E d \in E : \E i \in 1 .. Len(t[d].slots) : IsNode(Slot(t, d, i), op, n) /\ x = Slot(t, d, i).id
    BY <1>2, NodesUnfold
  <2> HIDE DEF E, n
  <2>4. \A x : x \in StepTo(t, E, n, "exact") <=> IsNext(t, E, n, "exact", x)
    BY <2>2, StepIs
  <2>5. \A s : IsNode(s, op, n) <=> s.kind = "dir" /\ Leads(n, s.name, "exact")
    BY DEF IsNode, Leads, Live
  <2>6. \A x : x \in NodesIn(t, op, p, "exact") <=> x \in StepTo(t, E, n, "exact")
    BY <2>3, <2>4, <2>5 DEF IsNext
  <2> QED
    BY <2>2, <2>6
<1> QED
  BY <1>1, <1>2

(* The directory the names lead to has no entry of the next; or none of the *)
(* last; or the one there is.                                               *)
LEMMA NoSuchDir ==
  ASSUME NEW t \in Trees, NEW p \in Seq(Names), NEW k \in 1 .. Len(p),
         NEW d \in DirsOf(t, p, k - 1, "exact"),
         \A i \in 1 .. Len(t[d].slots) : ~(Slot(t, d, i).kind = "dir" /\ Slot(t, d, i).name = p[k]),
         NEW op, k < Len(p) \/ op # "getattr"
  PROVE  NodesIn(t, op, p, "exact") = {}
<1>1. k - 1 \in 0 .. Len(p) /\ k \in 0 .. Len(p) /\ k = (k - 1) + 1
  OBVIOUS
<1> DEFINE E == DirsOf(t, p, k - 1, "exact")
<1>2. E \in SUBSET DOMAIN t /\ DirsOf(t, p, k, "exact") = StepTo(t, E, p[k], "exact")
  BY <1>1, DirsNext
<1>3. \A e \in E : e = d
  BY <1>1, OneDir
<1> HIDE DEF E
<1>4. \A x : x \notin StepTo(t, E, p[k], "exact")
  <2> DEFINE n == p[k]
  <2>1. \A x : ~IsNext(t, E, n, "exact", x)
    BY <1>3 DEF IsNext, Leads
  <2> HIDE DEF n
  <2>2. \A x : x \notin StepTo(t, E, n, "exact")
    BY <1>2, <2>1, StepIs
  <2> QED
    BY <2>2 DEF n
<1>5. DirsOf(t, p, k, "exact") = {}
  BY <1>2, <1>4
<1>6. CASE op # "getattr"
  BY <1>5, <1>6, NothingBehind, DirNodes
<1>7. CASE k < Len(p)
  <2>1. Len(p) - 1 \in 0 .. Len(p) /\ k <= Len(p) - 1 /\ p # <<>> /\ k \in 0 .. Len(p)
    BY <1>7
  <2>2. DirsOf(t, p, Len(p) - 1, "exact") = {}
    BY <1>5, <2>1, NothingBehind
  <2> QED
    BY <2>1, <2>2, NodesUnfold
<1> QED
  BY <1>6, <1>7

LEMMA NoSuchNode ==
  ASSUME NEW t \in Trees, NEW p \in Seq(Names), p # <<>>,
         NEW d \in DirsOf(t, p, Len(p) - 1, "exact"),
         \A i \in 1 .. Len(t[d].slots) : ~(Live(Slot(t, d, i)) /\ Slot(t, d, i).name = p[Len(p)]),
         NEW op
  PROVE  NodesIn(t, op, p, "exact") = {}
<1>1. Len(p) - 1 \in 0 .. Len(p)
  OBVIOUS
<1>2. \A e \in DirsOf(t, p, Len(p) - 1, "exact") : e = d
  BY <1>1, OneDir
<1>3. \A x : x \notin NodesIn(t, op, p, "exact")
  BY <1>2, NodesUnfold DEF IsNode
<1> QED
  BY <1>3

LEMMA TheNode ==
  ASSUME NEW t \in Trees, NEW p \in Seq(Names), p # <<>>,
         NEW d \in DirsOf(t, p, Len(p) - 1, "exact"),
         NEW i \in 1 .. Len(t[d].slots), Live(Slot(t, d, i)), Slot(t, d, i).name = p[Len(p)]
  PROVE  NodesIn(t, "getattr", p, "exact") = {Slot(t, d, i).id}
<1>1. Len(p) - 1 \in 0 .. Len(p)
  OBVIOUS
<1>2. \A e \in DirsOf(t, p, Len(p) - 1, "exact") : e = d /\ e \in DOMAIN t
  BY <1>1, OneDir, DirsUnfold
<1>3. \A j \in 1 .. Len(t[d].slots) :
        Live(Slot(t, d, j)) /\ Slot(t, d, j).name = p[Len(p)] => j = i
  BY <1>2, TreesAre DEF IsTree
<1>4. \A x : x \in NodesIn(t, "getattr", p, "exact") <=> x = Slot(t, d, i).id
  BY <1>2, <1>3, NodesUnfold DEF IsNode
<1> QED
  BY <1>4

-----------------------------------------------------------------------------
(* The types, and which phases a call goes through. *)

CallType ==
  [tool : {"library", "rust"}, op : {"getattr", "readdir", "listdir"}, path : Seq(Names)]

CallOK ==
  /\ call \in CallType
  /\ call.op = "getattr" => call.path # <<>>
  /\ call.op = "listdir" => call.tool = "library"

(* How many names are walked through: fatx_get_attr looks the last one up.  *)
Steps(c) == IF c.tool = "library" /\ c.op = "getattr" THEN Len(c.path) - 1 ELSE Len(c.path)

PhaseOK ==
  /\ listed \in Seq(SlotType)
  /\ phase = "idle" => component = 1 /\ dir = RootDir /\ entry = 1 /\ listed = <<>>
  /\ phase = "walk" => listed = <<>> /\ component \in 1 .. Steps(call) + 1
  /\ phase = "walk" /\ call.tool = "rust" /\ call.op = "getattr" => component <= Len(call.path)
  /\ phase = "scan" => call.op = "getattr" /\ call.tool = "library"
  /\ phase = "list" => call.op # "getattr"

LookupType == TypeOK /\ CallOK /\ PhaseOK

LEMMA Walked ==
  ASSUME CallOK
  PROVE  /\ Steps(call) \in Nat /\ Len(call.path) \in Nat /\ Steps(call) <= Len(call.path)
         /\ call.tool = "library" =>
              /\ Len(Walk) = Steps(call)
              /\ \A i \in 1 .. Steps(call) : Walk[i] = call.path[i]
<1>1. call.path \in Seq(Names) /\ (call.op = "getattr" => Len(call.path) >= 1)
  BY DEF CallOK, CallType
<1>2. CASE call.op = "getattr"
  <2> DEFINE p == call.path
             n == Len(p) - 1
  <2>1. n \in 0 .. Len(p) /\ p \in Seq(Names)
    BY <1>1, <1>2
  <2> HIDE DEF n, p
  <2>2. SubSeq(p, 1, n) \in Seq(Names) /\ Len(SubSeq(p, 1, n)) = n /\ \A i \in 1 .. n : SubSeq(p, 1, n)[i] = p[i]
    BY <2>1
  <2>3. Walk = SubSeq(p, 1, n)
    BY <1>2 DEF Walk, Front, n, p
  <2> QED
    BY <1>1, <1>2, <2>2, <2>3 DEF Steps, n, p
<1>3. CASE call.op # "getattr"
  BY <1>1, <1>3 DEF Steps, Walk
<1> QED
  BY <1>2, <1>3

LEMMA SlotIs ==
  ASSUME TypeOK
  PROVE  /\ tree \in Trees /\ dir \in DOMAIN tree /\ Slots \in Seq(SlotType) /\ Len(Slots) \in Nat
         /\ Slots = tree[dir].slots
         /\ entry \in Nat /\ entry >= 1
         /\ AtSlot => /\ entry \in 1 .. Len(Slots) /\ Slots[entry] \in SlotType
                      /\ Slots[entry] = Slot(tree, dir, entry)
                      /\ Slots[entry].kind = "dir" => Slots[entry].id \in DOMAIN tree
<1>1. tree \in Trees /\ dir \in DOMAIN tree /\ entry \in 1 .. Len(Slots) + 1
  BY DEF TypeOK
<1>2. IsTree(tree)
  BY <1>1, TreesAre
<1>3. Slots \in Seq(SlotType) /\ Slots = tree[dir].slots
  BY <1>1, <1>2 DEF IsTree, Slots
<1>4. AtSlot => entry \in 1 .. Len(Slots)
  BY <1>1, <1>3 DEF AtSlot
<1>5. \A i \in 1 .. Len(Slots) : Slots[i] \in SlotType /\ Slots[i] = Slot(tree, dir, i)
                               /\ (Slots[i].kind = "dir" => Slots[i].id \in DOMAIN tree)
  BY <1>1, <1>2, <1>3 DEF IsTree, Slot
<1> QED
  BY <1>1, <1>3, <1>4, <1>5

(* What is shown of an entry is the entry, or nothing. *)
LEMMA ShownIs ==
  ASSUME TypeOK, PhaseOK, AtSlot
  PROVE  /\ listed \o Shown(Slots[entry]) \in Seq(SlotType)
         /\ \A i \in DOMAIN (listed \o Shown(Slots[entry])) : (listed \o Shown(Slots[entry]))[i] \in Range(Slots)
<1> DEFINE x == Slots[entry]
           s == Shown(x)
<1>1. /\ listed \in Seq(SlotType) /\ x \in SlotType /\ x \in Range(Slots)
      /\ \A i \in DOMAIN listed : listed[i] \in Range(Slots)
  <2>1. entry \in DOMAIN Slots
    BY SlotIs
  <2> QED
    BY <2>1, SlotIs DEF TypeOK, PhaseOK, Range
<1>2. s = <<x>> \/ s = <<>>
  BY DEF Shown
<1> HIDE DEF x, s
<1>3. CASE s = <<>>
  <2>1. listed \o s = listed
    BY <1>1, <1>3
  <2> QED
    BY <1>1, <2>1 DEF s, x
<1>4. CASE s = <<x>>
  <2>1. listed \o s \in Seq(SlotType) /\ DOMAIN (listed \o s) = 1 .. Len(listed) + 1
    BY <1>1, <1>4
  <2>2. \A i \in 1 .. Len(listed) + 1 : (listed \o s)[i] = IF i <= Len(listed) THEN listed[i] ELSE x
    BY <1>1, <1>4
  <2> QED
    BY <1>1, <2>1, <2>2 DEF s, x
<1> QED
  BY <1>2, <1>3, <1>4 DEF s, x

(* A step that only goes on, ends, or enters a directory keeps the types. *)
LEMMA GoOnIsTyped ==
  ASSUME LookupType, AtSlot, GoOn, phase # "idle",
         listed' = listed \/ (phase = "list" /\ listed' = listed \o Shown(Slots[entry]))
  PROVE  LookupType'
<1>1. UNCHANGED <<tree, call, phase, component, dir, result>> /\ entry' = entry + 1
  BY DEF GoOn
<1>2. listed' \in Seq(SlotType) /\ \A i \in DOMAIN listed' : listed'[i] \in Range(Slots)
  <2>1. CASE listed' = listed
    <3>1. listed \in Seq(SlotType) /\ \A i \in DOMAIN listed : listed[i] \in Range(Slots)
      BY DEF LookupType, TypeOK, PhaseOK
    <3> QED
      BY <2>1, <3>1, Zenon
  <2>2. CASE listed' = listed \o Shown(Slots[entry])
    BY <2>2, ShownIs, Zenon DEF LookupType
  <2> QED
    BY <2>1, <2>2
<1>3. entry' \in 1 .. Len(Slots) + 1
  BY <1>1, SlotIs DEF LookupType
<1>4. Slots' = Slots
  BY <1>1 DEF Slots
<1>5. TypeOK'
  BY <1>1, <1>2, <1>3, <1>4 DEF LookupType, TypeOK
<1>6. CallOK'
  BY <1>1 DEF LookupType, CallOK
<1>7. PhaseOK'
  BY <1>1, <1>2 DEF LookupType, PhaseOK
<1> QED
  BY <1>5, <1>6, <1>7 DEF LookupType

LEMMA FinishIsTyped ==
  ASSUME LookupType, NEW r, Finish(r), r.status \in Statuses
  PROVE  LookupType'
<1>1. UNCHANGED <<tree, call, component, dir, entry, listed>> /\ phase' = "done" /\ result' = r
  BY DEF Finish
<1>2. Slots' = Slots
  BY <1>1 DEF Slots
<1>3. TypeOK'
  BY <1>1, <1>2 DEF LookupType, TypeOK
<1> QED
  BY <1>1, <1>3 DEF LookupType, CallOK, PhaseOK

LEMMA EnterIsTyped ==
  ASSUME LookupType, phase = "walk", NEW d \in DOMAIN tree, Enter(d), component <= Steps(call),
         call.tool = "rust" /\ call.op = "getattr" => component < Len(call.path)
  PROVE  LookupType'
<1>1. /\ UNCHANGED <<tree, call, phase, listed, result>> /\ dir' = d /\ entry' = 1 /\ component' = component + 1
      /\ listed = <<>>
  BY DEF Enter, LookupType, PhaseOK
<1>2. component \in Nat /\ component >= 1 /\ Steps(call) \in Nat /\ Steps(call) <= Len(call.path) /\ Len(call.path) \in Nat
  BY Walked DEF LookupType, PhaseOK
<1>3. Slots' = tree[d].slots /\ tree \in Trees
  BY <1>1 DEF Slots, LookupType, TypeOK
<1>4. Len(Slots') \in Nat
  BY <1>3, TreesAre DEF IsTree
<1>5. TypeOK'
  BY <1>1, <1>2, <1>3, <1>4 DEF LookupType, TypeOK
<1>6. CallOK'
  BY <1>1 DEF LookupType, CallOK
<1>7. PhaseOK'
  BY <1>1, <1>2 DEF LookupType, PhaseOK
<1> QED
  BY <1>5, <1>6, <1>7 DEF LookupType

LEMMA StepIsTyped ==
  ASSUME LookupType, [Next]_vars
  PROVE  LookupType'
<1> USE DEF LookupType
<1>0. /\ tree \in Trees /\ dir \in DOMAIN tree /\ call \in CallType
      /\ component \in Nat /\ component >= 1 /\ Steps(call) \in Nat /\ Steps(call) <= Len(call.path)
      /\ Len(call.path) \in Nat
      /\ call.tool = "library" => Len(Walk) = Steps(call)
  BY Walked DEF TypeOK, CallOK
<1>1. CASE Return
  <2>1. RootDir \in DOMAIN tree /\ Len(tree[RootDir].slots) \in Nat
    BY <1>0, TreesAre DEF IsTree
  <2>2. /\ tree' = tree /\ call' = NoCall /\ phase' = "idle" /\ component' = 1 /\ dir' = RootDir /\ entry' = 1
        /\ listed' = <<>> /\ result' = Failed("none")
    BY <1>1 DEF Return
  <2>3. Len(call'.path) = 0 /\ call' \in CallType /\ call'.op = "readdir"
    BY <2>2 DEF NoCall, CallType
  <2>4. TypeOK'
    BY <1>0, <2>1, <2>2, <2>3 DEF TypeOK, Slots, Failed, Statuses
  <2> QED
    BY <2>2, <2>3, <2>4 DEF CallOK, PhaseOK
<1>2. ASSUME NEW path \in Paths, NEW tool \in {"library", "rust"}, NEW op \in {"getattr", "readdir", "listdir"},
             op = "listdir" => tool = "library", Begin(tool, op, path)
      PROVE  LookupType'
  <2>1. /\ UNCHANGED <<tree, component, dir, entry, listed, result>> /\ phase' = "walk" /\ phase = "idle"
        /\ call' = [tool |-> tool, op |-> op, path |-> path] /\ (op = "getattr" => path # <<>>)
    BY <1>2 DEF Begin
  <2>2. path \in Seq(Names) /\ Len(path) \in Nat /\ (op = "getattr" => Len(path) >= 1)
    BY <2>1, LookupAssumption
  <2>3. CallOK'
    BY <1>2, <2>1, <2>2 DEF CallOK, CallType
  <2>4. component = 1 /\ listed = <<>>
    BY <2>1 DEF PhaseOK
  <2>5. TypeOK'
    BY <2>1, <2>2, <2>4 DEF TypeOK, Slots
  <2>6. PhaseOK'
    BY <2>1, <2>2, <2>4 DEF PhaseOK, Steps
  <2> QED
    BY <2>3, <2>5, <2>6
<1>3. CASE WalkInto
  <2>1. Slots[entry].id \in DOMAIN tree
    BY <1>3, SlotIs DEF WalkInto, WalkMatches
  <2> QED
    BY <1>0, <1>3, <2>1, EnterIsTyped DEF WalkInto, Walking, Sought
<1>4. CASE WalkOver
  BY <1>4, GoOnIsTyped DEF WalkOver, Walking
<1>5. CASE WalkFallsOut
  <2>1. /\ UNCHANGED <<tree, call, phase, dir, listed, result>> /\ entry' = entry + 1 /\ component' = component + 1
        /\ phase = "walk" /\ AtSlot /\ component <= Steps(call) /\ call.tool = "library"
    BY <1>0, <1>5 DEF WalkFallsOut, Walking, Sought
  <2>2. entry + 1 \in 1 .. Len(Slots) + 1 /\ Slots' = Slots
    BY <2>1, SlotIs DEF Slots
  <2> QED
    BY <1>0, <2>1, <2>2 DEF TypeOK, CallOK, PhaseOK
<1>6. CASE WalkEnds
  BY <1>6, FinishIsTyped DEF WalkEnds, Failed, Statuses
<1>7. CASE WalkBeyond
  <2>1. phase = "walk" /\ component <= Steps(call) /\ call.tool = "library"
    BY <1>0, <1>7 DEF WalkBeyond, Walking, Sought
  <2>2. CASE Finish(Failed("missing"))
    BY <2>2, FinishIsTyped DEF Failed, Statuses
  <2>3. CASE component' = component + 1 /\ UNCHANGED <<tree, call, phase, dir, entry, listed, result>>
    <3>1. Slots' = Slots
      BY <2>3 DEF Slots
    <3> QED
      BY <1>0, <2>1, <2>3, <3>1 DEF TypeOK, CallOK, PhaseOK
  <2>4. ASSUME NEW d \in DOMAIN tree, Enter(d) PROVE LookupType'
    BY <2>1, <2>4, EnterIsTyped
  <2> QED
    BY <1>7, <2>2, <2>3, <2>4 DEF WalkBeyond
<1>8. CASE Opened \/ RustOpened
  <2>1. /\ UNCHANGED <<tree, call, component, dir, entry, listed, result>>
        /\ phase = "walk" /\ phase' \in {"scan", "list"}
        /\ phase' = "scan" => call.op = "getattr" /\ call.tool = "library"
        /\ phase' = "list" => call.op # "getattr"
    <3>1. CASE Opened
      BY <3>1 DEF Opened, Walking
    <3>2. CASE RustOpened
      BY <1>0, <3>2 DEF RustOpened, Reading, RustSought, PhaseOK
    <3> QED
      BY <1>8, <3>1, <3>2
  <2>2. Slots' = Slots
    BY <2>1 DEF Slots
  <2> QED
    BY <2>1, <2>2 DEF TypeOK, CallOK, PhaseOK
<1>9. CASE ScanFinds
  BY <1>9, FinishIsTyped DEF ScanFinds, FoundNode, Statuses
<1>10. CASE ScanOver
  <2>1. CASE GoOn /\ UNCHANGED listed
    BY <1>10, <2>1, GoOnIsTyped DEF ScanOver, Scanning
  <2>2. CASE Finish(Failed("error"))
    BY <2>2, FinishIsTyped DEF Failed, Statuses
  <2> QED
    BY <1>10, <2>1, <2>2 DEF ScanOver
<1>11. CASE ScanEnds
  BY <1>11, FinishIsTyped DEF ScanEnds, Failed, Statuses
<1>12. CASE ScanBeyond
  <2>1. PICK r \in {Failed("missing"), Failed("error"), FoundNode(0)} : Finish(r)
    BY <1>12 DEF ScanBeyond
  <2>2. r.status \in Statuses
    BY DEF Failed, FoundNode, Statuses
  <2> QED
    BY <2>1, <2>2, FinishIsTyped
<1>13. CASE ListOn
  <2>1. phase = "list" /\ AtSlot /\ listed' = listed \o Shown(Slots[entry])
    BY <1>13 DEF ListOn, Listing
  <2>2. CASE GoOn
    BY <2>1, <2>2, GoOnIsTyped
  <2>3. CASE ~GoOn
    <3>1. /\ phase' = "done" /\ UNCHANGED <<tree, call, component, dir, entry>>
          /\ result' \in {Opens, Failed("error")}
      BY <1>13, <2>3 DEF ListOn
    <3>2. result'.status \in Statuses
      BY <3>1 DEF Opens, FoundNode, Failed, Statuses
    <3>3. Slots' = Slots
      BY <3>1 DEF Slots
    <3>4. listed' \in Seq(SlotType) /\ \A i \in DOMAIN listed' : listed'[i] \in Range(Slots)
      BY <2>1, ShownIs, Zenon
    <3> QED
      BY <3>1, <3>2, <3>3, <3>4 DEF TypeOK, CallOK, PhaseOK
  <2> QED
    BY <2>2, <2>3
<1>14. CASE ListStops \/ ListEnds
  BY <1>14, FinishIsTyped DEF ListStops, ListEnds, Opens, FoundNode, Statuses
<1>15. CASE ListBeyond
  <2>1. PICK r \in {Opens, Failed("error")} : Finish(r)
    BY <1>15 DEF ListBeyond
  <2>2. r.status \in Statuses
    BY DEF Opens, Failed, FoundNode, Statuses
  <2> QED
    BY <2>1, <2>2, FinishIsTyped
<1>16. CASE RustOver
  <2>1. CASE GoOn /\ UNCHANGED listed
    BY <1>16, <2>1, GoOnIsTyped DEF RustOver, Reading
  <2>2. CASE Finish(Failed("error"))
    BY <2>2, FinishIsTyped DEF Failed, Statuses
  <2> QED
    BY <1>16, <2>1, <2>2 DEF RustOver
<1>17. CASE RustFinds
  <2> DEFINE slot == Slots[entry]
             last == component = Len(call.path) /\ call.op = "getattr"
  <2>1. phase = "walk" /\ call.tool = "rust" /\ AtSlot /\ component <= Len(call.path)
    BY <1>17 DEF RustFinds, Reading, RustSought
  <2>2. CASE Finish(FoundNode(slot.id))
    BY <2>2, FinishIsTyped DEF FoundNode, Statuses
  <2>3. CASE ~last /\ slot.kind = "dir" /\ Enter(slot.id)
    <3>1. slot.id \in DOMAIN tree
      BY <2>1, <2>3, SlotIs
    <3>2. component <= Steps(call) /\ (call.op = "getattr" => component < Len(call.path))
      BY <1>0, <2>1, <2>3 DEF Steps
    <3> QED
      BY <2>1, <2>3, <3>1, <3>2, EnterIsTyped
  <2>4. CASE Finish(Failed("notdir"))
    BY <2>4, FinishIsTyped DEF Failed, Statuses
  <2> QED
    BY <1>17, <2>2, <2>3, <2>4 DEF RustFinds
<1>18. CASE RustEnds
  BY <1>18, FinishIsTyped DEF RustEnds, Failed, Statuses
<1>19. CASE UNCHANGED vars
  BY <1>19 DEF vars, TypeOK, CallOK, PhaseOK, Slots
<1> QED
  BY <1>1, <1>2, <1>3, <1>4, <1>5, <1>6, <1>7, <1>8, <1>9, <1>10, <1>11, <1>12, <1>13, <1>14, <1>15, <1>16, <1>17,
     <1>18, <1>19 DEF Next, LookUp

LEMMA StartIsTyped == Init => LookupType
<1> SUFFICES ASSUME Init PROVE LookupType
  OBVIOUS
<1>1. tree \in Trees /\ RootDir \in DOMAIN tree /\ Len(tree[RootDir].slots) \in Nat
  BY TreesAre DEF Init, IsTree
<1>2. Len(call.path) = 0 /\ call \in CallType /\ call.op = "readdir"
  BY DEF Init, NoCall, CallType
<1>3. TypeOK
  BY <1>1, <1>2 DEF Init, TypeOK, Slots, Failed, Statuses
<1> QED
  BY <1>2, <1>3 DEF Init, LookupType, CallOK, PhaseOK

(* The type invariant, for every volume, path and sequence of calls. *)
THEOREM LookupTypeCorrect == Spec => []TypeOK
<1>1. Spec => []LookupType
  BY StartIsTyped, StepIsTyped, PTL DEF Spec
<1>2. LookupType => TypeOK
  BY DEF LookupType
<1> QED
  BY <1>1, <1>2, PTL

-----------------------------------------------------------------------------
(* Listings. *)

LiveOf(t, d, n) ==
  LET slots == t[d].slots
      live[i \in 0 .. Len(slots)] ==
        IF i = 0 THEN <<>>
        ELSE IF Live(slots[i]) THEN Append(live[i - 1], slots[i]) ELSE live[i - 1]
  IN  live[n]

LEMMA LiveUnfolds ==
  ASSUME NEW t \in Trees, NEW d \in DOMAIN t
  PROVE  /\ LiveOf(t, d, 0) = <<>>
         /\ \A n \in 1 .. Len(t[d].slots) :
              LiveOf(t, d, n) = IF Live(Slot(t, d, n)) THEN Append(LiveOf(t, d, n - 1), Slot(t, d, n))
                                ELSE LiveOf(t, d, n - 1)
<1> DEFINE slots == t[d].slots
           k == Len(slots)
           S == Seq(SlotType)
           a == <<>>
           With(n, s) == IF Live(slots[n]) THEN Append(s, slots[n]) ELSE s
           F == [n \in 1 .. k |-> [s \in S |-> With(n, s)]]
           up == CHOOSE u : u = [n \in 0 .. k |-> IF n = 0 THEN a ELSE With(n, u[n - 1])]
<1>1. k \in Nat /\ \A n \in 1 .. k : slots[n] \in SlotType
  BY TreesAre DEF IsTree
<1>2. F \in [1 .. k -> [S -> S]]
  <2>1. \A n \in 1 .. k : \A s \in S : With(n, s) \in S
    BY <1>1
  <2> QED
    BY <2>1
<1>3. a \in S
  OBVIOUS
<1>4. PICK f \in [0 .. k -> S] : f[0] = a /\ \A n \in 1 .. k : f[n] = F[n][f[n - 1]]
  <2> HIDE DEF F, k, S, a
  <2>1. DefinedUpTo(S, a, k, F)
    BY ONLY <1>1, <1>2, <1>3, Recursion
  <2> QED
    BY <2>1 DEF DefinedUpTo
<1>5. \A n \in 1 .. k : f[n] = With(n, f[n - 1])
  <2> SUFFICES ASSUME NEW n \in 1 .. k PROVE f[n] = With(n, f[n - 1])
    OBVIOUS
  <2>1. n - 1 \in 0 .. k
    BY <1>1
  <2>2. f[n - 1] \in S
    BY <1>4, <2>1
  <2> HIDE DEF With
  <2> QED
    BY <1>4, <2>2
<1> HIDE DEF With, F, k, a
<1>6. f = [n \in 0 .. k |-> IF n = 0 THEN a ELSE With(n, f[n - 1])]
  BY <1>1, <1>4, <1>5
<1>7. up = [n \in 0 .. k |-> IF n = 0 THEN a ELSE With(n, up[n - 1])]
  BY <1>6
<1>8. \A n : LiveOf(t, d, n) = up[n]
  BY DEF LiveOf, With, a, k
<1> HIDE DEF up
<1>9. up[0] = a /\ \A n \in 1 .. k : up[n] = With(n, up[n - 1])
  <2>1. \A n \in 0 .. k : up[n] = IF n = 0 THEN a ELSE With(n, up[n - 1])
    BY <1>7, Zenon
  <2> QED
    BY <1>1, <2>1
<1> QED
  BY <1>8, <1>9 DEF With, a, k, Slot

(* One entry more. *)
LEMMA LiveGrows ==
  ASSUME NEW t \in Trees, NEW d \in DOMAIN t, NEW n \in 1 .. Len(t[d].slots),
         LiveOf(t, d, n - 1) \in Seq(SlotType)
  PROVE  LiveOf(t, d, n) = LiveOf(t, d, n - 1) \o Shown(Slot(t, d, n))
<1> DEFINE s == LiveOf(t, d, n - 1)
           x == Slot(t, d, n)
<1>1. LiveOf(t, d, n) = IF Live(x) THEN Append(s, x) ELSE s
  BY LiveUnfolds
<1>2. s \in Seq(SlotType) /\ x \in SlotType
  BY TreesAre DEF IsTree
<1> HIDE DEF s, x
<1>3. s \o <<>> = s /\ s \o <<x>> = Append(s, x)
  BY <1>2
<1>4. LiveOf(t, d, n) = s \o Shown(x)
  BY <1>1, <1>3 DEF Shown
<1> QED
  BY <1>4 DEF s, x

(* Where a listing stops. *)
StopOf(t, d, op) ==
  LET slots == t[d].slots
      deleted == {i \in DOMAIN slots : ~Live(slots[i])}
  IN  IF op = "readdir" \/ deleted = {} THEN Len(slots)
      ELSE (CHOOSE i \in deleted : \A j \in deleted : i <= j) - 1

LEMMA EntriesAreLive == \A d : Entries(d) = LiveOf(tree, d, StopOf(tree, d, call.op))
BY DEF Entries, LiveAmong, LiveOf, StopOf, SkipsDeleted

LEMMA StopsAtTheEnd ==
  ASSUME NEW t \in Trees, NEW d \in DOMAIN t, NEW op,
         op = "readdir" \/ \A i \in 1 .. Len(t[d].slots) : Live(Slot(t, d, i))
  PROVE  StopOf(t, d, op) = Len(t[d].slots)
<1>1. DOMAIN t[d].slots = 1 .. Len(t[d].slots)
  BY TreesAre DEF IsTree
<1> QED
  BY <1>1 DEF StopOf, Slot

LEMMA StopsAtTheDeleted ==
  ASSUME NEW t \in Trees, NEW d \in DOMAIN t, NEW op, op # "readdir",
         NEW n \in 1 .. Len(t[d].slots), ~Live(Slot(t, d, n)), \A i \in 1 .. n - 1 : Live(Slot(t, d, i))
  PROVE  StopOf(t, d, op) = n - 1
<1> DEFINE deleted == {i \in DOMAIN t[d].slots : ~Live(t[d].slots[i])}
<1>1. DOMAIN t[d].slots = 1 .. Len(t[d].slots) /\ Len(t[d].slots) \in Nat
  BY TreesAre DEF IsTree
<1>2. n \in deleted /\ \A i \in deleted : n <= i
  BY <1>1 DEF Slot
<1>3. deleted \subseteq Nat
  BY <1>1
<1>4. StopOf(t, d, op) = (CHOOSE i \in deleted : \A j \in deleted : i <= j) - 1
  BY <1>2 DEF StopOf
<1> HIDE DEF deleted
<1>5. (CHOOSE i \in deleted : \A j \in deleted : i <= j) = n
  <2>1. \A i \in deleted : (\A j \in deleted : i <= j) => i = n
    BY <1>2, <1>3
  <2> QED
    BY <1>2, <2>1
<1> QED
  BY <1>4, <1>5

-----------------------------------------------------------------------------
(* Where a lookup is. *)

Ended(t) == \A d \in DOMAIN t : t[d].ended

ApartOf(t, path) ==
  \A i \in 1 .. Len(path) - 1 : \A s \in EntriesOf(t, DOMAIN t) :
    s.kind = "dir" /\ IsPrefix(path[i], s.name) => s.name = path[i]

LEMMA ApartIs == Apart <=> ApartOf(tree, call.path)
BY DEF Apart, ApartOf, EntriesIn, EntriesOf

(* The lookup is not led astray. *)
Sure(t, c) == c.tool = "rust" \/ (Ended(t) /\ ApartOf(t, c.path))

(* The directories that k names lead to, the last of the path being exact. *)
WayOf(t, c, k, how) ==
  IF k = Len(c.path) THEN NodesIn(t, c.op, c.path, how) ELSE DirsOf(t, c.path, k, how)

Depth == IF phase = "walk" THEN component - 1 ELSE Steps(call)

OnTheWay ==
  phase \in {"walk", "scan", "list"} =>
    /\ call.tool = "library" /\ Ended(tree) => dir \in WayOf(tree, call, Depth, "loose")
    /\ Sure(tree, call) => dir \in DirsOf(tree, call.path, Depth, "exact")

Fits(c, k, s) == s.name = c.path[k] /\ (IF c.tool = "rust" THEN Live(s) ELSE s.kind = "dir")

NothingPassed ==
  Ended(tree) =>
    /\ phase = "walk" /\ component <= Steps(call) =>
         \A j \in 1 .. entry - 1 : ~Fits(call, component, Slot(tree, dir, j))
    /\ phase = "walk" /\ component > Steps(call) => entry = 1
    /\ phase = "scan" =>
         \A j \in 1 .. entry - 1 :
           ~(Live(Slot(tree, dir, j)) /\ Slot(tree, dir, j).name = call.path[Len(call.path)])

ListedSoFar ==
  Ended(tree) /\ phase = "list" =>
    /\ listed = LiveOf(tree, dir, entry - 1)
    /\ call.op # "readdir" => \A j \in 1 .. entry - 1 : Live(Slot(tree, dir, j))

(* What a call reports is what is asked for. *)
Right(t, c, r, l) ==
  LET reported == IF r.status = "found" THEN {r.id} ELSE {}
      exact == NodesIn(t, c.op, c.path, "exact")
  IN  /\ c.tool = "library" /\ Ended(t) => reported \subseteq NodesIn(t, c.op, c.path, "loose")
      /\ Sure(t, c) => reported \subseteq exact
      /\ Sure(t, c) /\ Ended(t) => reported = exact
      /\ c.op # "getattr" /\ r.status = "found" /\ Ended(t) => l = LiveOf(t, r.id, StopOf(t, r.id, c.op))

ResultIsRight == phase = "done" => Right(tree, call, result, listed)

LookupRight == OnTheWay /\ NothingPassed /\ ListedSoFar /\ ResultIsRight

(* What the properties of the runs follow from. *)
LEMMA RightMeans ==
  ASSUME ResultIsRight
  PROVE  LibraryFindsTheNode /\ RustFindsTheNode /\ ListingsAreOfTheDirectory
<1> DEFINE reported == IF result.status = "found" THEN {result.id} ELSE {}
           exact == NodesIn(tree, call.op, call.path, "exact")
           wide == NodesIn(tree, call.op, call.path, "loose")
<1>1. Reported = reported /\ NodesOf(call.path, "exact") = exact /\ NodesOf(call.path, "loose") = wide
  BY NodesAre DEF Reported
<1>2. (Whole <=> Ended(tree)) /\ (Apart <=> ApartOf(tree, call.path))
  BY ApartIs DEF Whole, Ended
<1>3. phase = "done" =>
        /\ call.tool = "library" /\ Ended(tree) => reported \subseteq wide
        /\ Sure(tree, call) => reported \subseteq exact
        /\ Sure(tree, call) /\ Ended(tree) => reported = exact
        /\ call.op # "getattr" /\ result.status = "found" /\ Ended(tree) => listed = Entries(result.id)
  BY EntriesAreLive DEF ResultIsRight, Right
<1> HIDE DEF exact, wide
<1>4. LibraryFindsTheNode
  BY <1>1, <1>2, <1>3 DEF LibraryFindsTheNode, LibraryDone, Sure
<1>5. RustFindsTheNode
  BY <1>1, <1>2, <1>3 DEF RustFindsTheNode, RustDone, Sure
<1>6. ListingsAreOfTheDirectory
  <2>1. result.status = "found" => result.id \in reported
    OBVIOUS
  <2> QED
    BY <1>1, <1>2, <1>3, <2>1 DEF ListingsAreOfTheDirectory, Sure
<1> QED
  BY <1>4, <1>5, <1>6

-----------------------------------------------------------------------------
(* One name further. *)

LEMMA Onward ==
  ASSUME NEW t \in Trees, NEW p \in Seq(Names), NEW how, NEW k \in 0 .. Len(p) - 1,
         NEW d \in DirsOf(t, p, k, how), NEW i \in 1 .. Len(t[d].slots),
         Slot(t, d, i).kind = "dir", Leads(p[k + 1], Slot(t, d, i).name, how)
  PROVE  Slot(t, d, i).id \in DirsOf(t, p, k + 1, how)
<1> DEFINE n == p[k + 1]
           S == DirsOf(t, p, k, how)
           x == Slot(t, d, i).id
<1>1. k \in 0 .. Len(p) /\ k + 1 \in 0 .. Len(p)
  OBVIOUS
<1>2. DirsOf(t, p, k + 1, how) = StepTo(t, S, n, how) /\ S \in SUBSET DOMAIN t
  BY <1>1, DirsNext
<1>3. IsNext(t, S, n, how, x)
  BY DEF IsNext
<1> HIDE DEF n, S, x
<1>4. x \in StepTo(t, S, n, how)
  BY <1>2, <1>3, StepIs
<1> QED
  BY <1>2, <1>4 DEF x

LEMMA OnwardLoosely ==
  ASSUME NEW t \in Trees, NEW c \in CallType, NEW k \in 0 .. Steps(c) - 1, Steps(c) <= Len(c.path),
         NEW d \in WayOf(t, c, k, "loose"), NEW i \in 1 .. Len(t[d].slots),
         Slot(t, d, i).kind = "dir", Leads(c.path[k + 1], Slot(t, d, i).name, "loose"),
         c.tool = "library", k + 1 = Len(c.path) => Slot(t, d, i).name = c.path[k + 1]
  PROVE  Slot(t, d, i).id \in WayOf(t, c, k + 1, "loose")
<1> DEFINE p == c.path
           x == Slot(t, d, i).id
           m == k + 1
<1>1. p \in Seq(Names) /\ Len(p) \in Nat /\ Steps(c) \in Int /\ k \in Nat /\ k < Len(p)
  BY DEF CallType, Steps
<1>2. d \in DirsOf(t, p, k, "loose")
  BY <1>1 DEF WayOf
<1>3. CASE m # Len(p)
  <2>1. k \in 0 .. Len(p) - 1
    BY <1>1
  <2>2. x \in DirsOf(t, p, k + 1, "loose")
    <3> HIDE DEF p
    <3> QED
      BY <1>1, <1>2, <2>1, Onward DEF p
  <2> QED
    BY <1>3, <2>2 DEF WayOf
<1>4. CASE m = Len(p)
  <2>1. c.op # "getattr"
    BY <1>1, <1>4 DEF Steps
  <2>2. Slot(t, d, i).name = p[Len(p)] /\ k = Len(p) - 1 /\ p # <<>>
    BY <1>1, <1>4
  <2>3. IsNode(Slot(t, d, i), c.op, p[Len(p)])
    BY <2>2 DEF IsNode, Live
  <2> DEFINE o == c.op
  <2>4. d \in DirsOf(t, p, Len(p) - 1, "loose")
    BY <1>2, <2>2
  <2> HIDE DEF p, o
  <2>5. x \in NodesIn(t, o, p, "loose")
    BY <1>1, <2>2, <2>3, <2>4, NodesUnfold DEF o
  <2> QED
    BY <1>4, <2>5 DEF WayOf, p, o
<1> QED
  BY <1>3, <1>4

-----------------------------------------------------------------------------
(* What keeps a lookup right. *)

(* Nothing is promised of the library where a directory has lost its end.  *)
LEMMA NotEnded ==
  ASSUME call.tool = "library", ~Ended(tree), UNCHANGED <<tree, call>>
  PROVE  LookupRight'
<1>1. /\ tree' = tree /\ call' = call /\ ~Sure(tree, call)
  BY DEF Sure
<1>2. Ended(tree') <=> Ended(tree)
  BY <1>1
<1>3. ~Sure(tree', call')
  BY <1>1, <1>2 DEF Sure
<1>4. OnTheWay'
  BY <1>2, <1>3 DEF OnTheWay
<1>5. NothingPassed'
  BY <1>2 DEF NothingPassed
<1>6. ListedSoFar'
  BY <1>2 DEF ListedSoFar
<1>7. ResultIsRight'
  BY <1>2, <1>3 DEF ResultIsRight, Right
<1> QED
  BY <1>4, <1>5, <1>6, <1>7 DEF LookupRight

LEMMA DoneIsRight ==
  ASSUME phase' = "done", UNCHANGED <<tree, call>>, Right(tree, call, result', listed')
  PROVE  LookupRight'
<1>1. OnTheWay' /\ NothingPassed' /\ ListedSoFar'
  BY DEF OnTheWay, NothingPassed, ListedSoFar
<1>2. ResultIsRight'
  BY DEF ResultIsRight
<1> QED
  BY <1>1, <1>2 DEF LookupRight

LEMMA FinishIsRight ==
  ASSUME NEW r, Finish(r), Right(tree, call, r, listed)
  PROVE  LookupRight'
<1>1. phase' = "done" /\ UNCHANGED <<tree, call>> /\ result' = r /\ listed' = listed
  BY DEF Finish
<1> QED
  BY <1>1, DoneIsRight

LEMMA NoneIsRight ==
  ASSUME NEW r, r.status # "found", NEW l,
         Sure(tree, call) /\ Ended(tree) => NodesIn(tree, call.op, call.path, "exact") = {}
  PROVE  Right(tree, call, r, l)
<1> DEFINE exact == NodesIn(tree, call.op, call.path, "exact")
<1> HIDE DEF exact
<1>1. Sure(tree, call) /\ Ended(tree) => exact = {}
  BY DEF exact
<1> QED
  BY <1>1 DEF Right, exact

LEMMA GoOnIsRight ==
  ASSUME LookupType, LookupRight, AtSlot, GoOn, phase \in {"walk", "scan", "list"},
         phase = "walk" => component <= Steps(call) /\ ~Fits(call, component, Slot(tree, dir, entry)),
         phase = "scan" => ~(Live(Slot(tree, dir, entry)) /\ Slot(tree, dir, entry).name = call.path[Len(call.path)]),
         phase = "list" => Live(Slot(tree, dir, entry)) \/ call.op = "readdir",
         listed' = IF phase = "list" THEN listed \o Shown(Slot(tree, dir, entry)) ELSE listed
  PROVE  LookupRight'
<1>1. UNCHANGED <<tree, call, phase, component, dir, result>> /\ entry' = entry + 1
  BY DEF GoOn
<1>2. entry \in Nat /\ entry >= 1 /\ entry \in 1 .. Len(tree[dir].slots) /\ tree \in Trees /\ dir \in DOMAIN tree
  BY SlotIs DEF LookupType
<1>3. \A j \in 1 .. entry' - 1 : j \in 1 .. entry - 1 \/ j = entry
  BY <1>1, <1>2
<1>4. OnTheWay'
  <2>1. Depth' = Depth
    BY <1>1 DEF Depth
  <2> QED
    BY <1>1, <2>1 DEF OnTheWay, LookupRight
<1>5. NothingPassed'
  <2>1. component <= Steps(call) \/ phase # "walk"
    OBVIOUS
  <2>2. component \in Int /\ Steps(call) \in Int
    BY Walked DEF LookupType, TypeOK
  <2> DEFINE fits(j) == Fits(call, component, Slot(tree, dir, j))
             hit(j) == Live(Slot(tree, dir, j)) /\ Slot(tree, dir, j).name = call.path[Len(call.path)]
  <2>3. Ended(tree) => /\ phase = "walk" => \A j \in 1 .. entry - 1 : ~fits(j)
                       /\ phase = "scan" => \A j \in 1 .. entry - 1 : ~hit(j)
    BY <2>1 DEF NothingPassed, LookupRight
  <2>4. (phase = "walk" => ~fits(entry)) /\ (phase = "scan" => ~hit(entry))
    OBVIOUS
  <2> HIDE DEF fits, hit
  <2>5. Ended(tree) => /\ phase = "walk" => \A j \in 1 .. entry' - 1 : ~fits(j)
                       /\ phase = "scan" => \A j \in 1 .. entry' - 1 : ~hit(j)
    BY <1>3, <2>3, <2>4
  <2> QED
    BY <1>1, <2>1, <2>2, <2>5 DEF NothingPassed, fits, hit
<1>6. ListedSoFar'
  <2> SUFFICES ASSUME Ended(tree), phase = "list"
               PROVE  /\ listed' = LiveOf(tree, dir, entry)
                      /\ call.op # "readdir" => \A j \in 1 .. entry' - 1 : Live(Slot(tree, dir, j))
    BY <1>1, <1>2 DEF ListedSoFar
  <2>1. /\ listed = LiveOf(tree, dir, entry - 1)
        /\ call.op # "readdir" => \A j \in 1 .. entry - 1 : Live(Slot(tree, dir, j))
    BY DEF ListedSoFar, LookupRight
  <2>2. listed \in Seq(SlotType)
    BY DEF LookupType, PhaseOK
  <2>3. LiveOf(tree, dir, entry) = LiveOf(tree, dir, entry - 1) \o Shown(Slot(tree, dir, entry))
    BY <1>2, <2>1, <2>2, LiveGrows
  <2> QED
    BY <1>3, <2>1, <2>3
<1>7. ResultIsRight'
  BY <1>1 DEF ResultIsRight
<1> QED
  BY <1>4, <1>5, <1>6, <1>7 DEF LookupRight

LEMMA EnterIsRight ==
  ASSUME LookupType, phase = "walk", NEW d, Enter(d),
         call.tool = "library" /\ Ended(tree) => d \in WayOf(tree, call, component, "loose"),
         Sure(tree, call) => d \in DirsOf(tree, call.path, component, "exact")
  PROVE  LookupRight'
<1>1. UNCHANGED <<tree, call, phase, listed, result>> /\ dir' = d /\ entry' = 1 /\ component' = component + 1
  BY DEF Enter
<1>2. component \in Nat
  BY DEF LookupType, TypeOK
<1>3. Depth' = component
  BY <1>1, <1>2 DEF Depth
<1>4. OnTheWay'
  BY <1>1, <1>3 DEF OnTheWay
<1>5. NothingPassed'
  <2>1. \A j \in 1 .. entry' - 1 : FALSE
    BY <1>1
  <2> QED
    BY <1>1, <2>1 DEF NothingPassed
<1>6. ListedSoFar' /\ ResultIsRight'
  BY <1>1 DEF ListedSoFar, ResultIsRight
<1> QED
  BY <1>4, <1>5, <1>6 DEF LookupRight

(* A directory that is listed is the one of the path.                      *)
LEMMA OpensIsRight ==
  ASSUME LookupType, LookupRight, phase = "list", NEW l,
         Ended(tree) => l = LiveOf(tree, dir, StopOf(tree, dir, call.op))
  PROVE  Right(tree, call, Opens, l)
<1> DEFINE p == call.path
           exact == NodesIn(tree, call.op, p, "exact")
           wide == NodesIn(tree, call.op, p, "loose")
<1>1. /\ p \in Seq(Names) /\ Len(p) \in 0 .. Len(p) /\ tree \in Trees /\ call.op # "getattr"
      /\ Depth = Len(p)
  BY DEF LookupType, CallOK, CallType, PhaseOK, TypeOK, Depth, Steps
<1>2. call.tool = "library" /\ Ended(tree) => dir \in wide
  BY <1>1 DEF LookupRight, OnTheWay, WayOf
<1>3. Sure(tree, call) => exact = {dir}
  <2> SUFFICES ASSUME Sure(tree, call) PROVE exact = {dir}
    OBVIOUS
  <2>1. dir \in DirsOf(tree, p, Len(p), "exact")
    BY <1>1 DEF LookupRight, OnTheWay
  <2>2. exact = DirsOf(tree, p, Len(p), "exact")
    BY <1>1, DirNodes
  <2>3. \A x \in DirsOf(tree, p, Len(p), "exact") : x = dir
    <3> HIDE DEF p
    <3> QED
      BY <1>1, <2>1, OneDir
  <2> QED
    BY <2>1, <2>2, <2>3
<1>4. Opens.status = "found" /\ Opens.id = dir
  BY DEF Opens, FoundNode
<1> HIDE DEF exact, wide
<1> QED
  BY <1>2, <1>3, <1>4 DEF Right, exact, wide

-----------------------------------------------------------------------------
(* The library's steps. *)

(* What is known of a walk, as far as names can be trusted.                *)
LEMMA WhereTheWalkIs ==
  ASSUME LookupType, LookupRight, phase = "walk", component <= Steps(call)
  PROVE  /\ tree \in Trees /\ dir \in DOMAIN tree /\ call \in CallType /\ call.path \in Seq(Names)
         /\ component \in 1 .. Len(call.path) /\ component - 1 \in 0 .. Steps(call) - 1
         /\ Steps(call) \in Nat /\ Steps(call) <= Len(call.path)
         /\ call.tool = "library" /\ Ended(tree) => dir \in WayOf(tree, call, component - 1, "loose")
         /\ Sure(tree, call) => dir \in DirsOf(tree, call.path, component - 1, "exact")
<1>1. Depth = component - 1 /\ component \in Nat /\ component >= 1
  BY DEF Depth, LookupType, TypeOK
<1>2. Steps(call) \in Nat /\ Len(call.path) \in Nat /\ Steps(call) <= Len(call.path)
  BY Walked DEF LookupType
<1>3. call \in CallType /\ call.path \in Seq(Names) /\ tree \in Trees /\ dir \in DOMAIN tree
  BY DEF LookupType, CallOK, CallType, TypeOK
<1> QED
  BY <1>1, <1>2, <1>3 DEF LookupRight, OnTheWay

(* Where all of a directory has been passed over. *)
LEMMA AllPassed ==
  ASSUME LookupType, ~AtSlot
  PROVE  entry - 1 = Len(tree[dir].slots) /\ 1 .. entry - 1 = 1 .. Len(tree[dir].slots)
BY SlotIs DEF LookupType, TypeOK, AtSlot

LEMMA SelfPrefix ==
  ASSUME NEW name \in Names
  PROVE  IsPrefix(name, name)
<1>1. name \in Seq(STRING)
  BY LookupAssumption
<1> QED
  BY <1>1 DEF IsPrefix

LEMMA MatchesMeans ==
  ASSUME LookupType, phase = "walk", component <= Steps(call), call.tool = "library", NEW name \in Names
  PROVE  /\ Matches(name, component) =>
              /\ Leads(call.path[component], name, "loose")
              /\ component = Len(call.path) => name = call.path[component]
         /\ name = call.path[component] => Matches(name, component)
<1>1. /\ component \in 1 .. Steps(call) /\ Len(Walk) = Steps(call) /\ Walk[component] = call.path[component]
      /\ Steps(call) \in Nat /\ Len(call.path) \in Nat /\ Steps(call) <= Len(call.path)
  BY Walked DEF LookupType, TypeOK
<1>2. component = Len(call.path) => component = Len(Walk)
  BY <1>1
<1>3. name = Walk[component] => IsPrefix(Walk[component], name)
  BY SelfPrefix
<1> QED
  BY <1>1, <1>2, <1>3 DEF Matches, Leads

LEMMA IntoIsRight ==
  ASSUME LookupType, LookupRight, WalkInto
  PROVE  LookupRight'
<1> DEFINE x == Slot(tree, dir, entry)
           n == call.path[component]
<1>1. /\ phase = "walk" /\ call.tool = "library" /\ AtSlot /\ component <= Steps(call)
      /\ x.kind = "dir" /\ Matches(x.name, component) /\ Enter(x.id) /\ x.name \in Names
  BY SlotIs, Walked DEF WalkInto, Walking, Sought, WalkMatches, LookupType, SlotType
<1>2. entry \in 1 .. Len(tree[dir].slots)
  BY <1>1, SlotIs DEF LookupType
<1>3. Leads(n, x.name, "loose") /\ (component = Len(call.path) => x.name = n)
  BY <1>1, MatchesMeans
<1>4. /\ tree \in Trees /\ dir \in DOMAIN tree /\ call \in CallType /\ call.path \in Seq(Names)
      /\ component \in 1 .. Len(call.path) /\ component - 1 \in 0 .. Steps(call) - 1
      /\ Steps(call) \in Nat /\ Steps(call) <= Len(call.path)
      /\ Ended(tree) => dir \in WayOf(tree, call, component - 1, "loose")
      /\ Sure(tree, call) => dir \in DirsOf(tree, call.path, component - 1, "exact")
  BY <1>1, WhereTheWalkIs
<1>5. component - 1 + 1 = component
  BY <1>4
<1>6. ASSUME Ended(tree) PROVE x.id \in WayOf(tree, call, component, "loose")
  <2> DEFINE k == component - 1
  <2>1. /\ k \in 0 .. Steps(call) - 1 /\ k + 1 = component /\ dir \in WayOf(tree, call, k, "loose")
        /\ call.path[k + 1] = n
    BY <1>4, <1>5, <1>6
  <2> HIDE DEF k, n
  <2>2. x.id \in WayOf(tree, call, k + 1, "loose")
    BY <1>1, <1>2, <1>3, <1>4, <2>1, OnwardLoosely
  <2> QED
    BY <2>1, <2>2
<1>7. ASSUME Sure(tree, call) PROVE x.id \in DirsOf(tree, call.path, component, "exact")
  <2> DEFINE k == component - 1
             p == call.path
  <2>1. /\ k \in 0 .. Len(p) - 1 /\ k + 1 = component /\ dir \in DirsOf(tree, p, k, "exact")
        /\ p[k + 1] = n
    BY <1>4, <1>5, <1>7
  <2>2. x.name = n
    <3>1. CASE component = Len(call.path)
      BY <1>3, <3>1
    <3>2. CASE component # Len(call.path)
      <4>1. component \in 1 .. Len(call.path) - 1
        BY <1>4, <3>2
      <4>2. x \in EntriesOf(tree, DOMAIN tree)
        <5>1. Live(x)
          BY <1>1 DEF Live
        <5>2. DOMAIN tree \in SUBSET DOMAIN tree
          OBVIOUS
        <5> QED
          BY <1>2, <1>4, <5>1, <5>2, EntriesAre
      <4>3. IsPrefix(n, x.name)
        BY <1>1, <1>3, SelfPrefix DEF Leads
      <4>4. ApartOf(tree, call.path)
        BY <1>1, <1>7 DEF Sure
      <4> QED
        BY <1>1, <4>1, <4>2, <4>3, <4>4 DEF ApartOf
    <3> QED
      BY <3>1, <3>2
  <2>3. Leads(n, x.name, "exact")
    BY <2>2 DEF Leads
  <2> HIDE DEF k, n, p, x
  <2> DEFINE i == entry
  <2>4. x = Slot(tree, dir, i) /\ x.kind = "dir" /\ i \in 1 .. Len(tree[dir].slots)
    BY <1>1, <1>2 DEF x
  <2>5. p \in Seq(Names)
    BY <1>4 DEF p
  <2>6. Slot(tree, dir, i).id \in DirsOf(tree, p, k + 1, "exact")
    BY <1>4, <2>1, <2>3, <2>4, <2>5, Onward
  <2> QED
    BY <2>1, <2>4, <2>6 DEF p
<1> HIDE DEF x
<1> QED
  BY <1>1, <1>6, <1>7, EnterIsRight

LEMMA WalkIsRight ==
  ASSUME LookupType, LookupRight, WalkOver \/ WalkFallsOut \/ WalkEnds \/ WalkBeyond
  PROVE  LookupRight'
<1>1. /\ phase = "walk" /\ call.tool = "library" /\ component <= Steps(call)
  BY Walked DEF WalkOver, WalkFallsOut, WalkEnds, WalkBeyond, Walking, Sought, LookupType
<1>2. dir \in DOMAIN tree /\ (~tree[dir].ended => ~Ended(tree))
  BY DEF LookupType, TypeOK, Ended
<1>3. CASE WalkOver
  <2>1. AtSlot /\ ~WalkMatches /\ GoOn /\ listed' = listed
    BY <1>3 DEF WalkOver
  <2>2. Slots[entry] = Slot(tree, dir, entry) /\ Slots[entry].name \in Names
    BY <2>1, SlotIs DEF LookupType, SlotType
  <2>3. ~Fits(call, component, Slot(tree, dir, entry))
    BY <1>1, <2>1, <2>2, MatchesMeans DEF Fits, WalkMatches
  <2> QED
    BY <1>1, <2>1, <2>3, GoOnIsRight
<1>4. CASE WalkFallsOut \/ WalkBeyond
  <2>1. ~tree[dir].ended /\ UNCHANGED <<tree, call>>
    BY <1>4 DEF WalkFallsOut, WalkBeyond, HasNext, Finish, Enter
  <2> QED
    BY <1>1, <1>2, <2>1, NotEnded
<1>5. CASE WalkEnds
  <2> DEFINE p == call.path
             k == component
             r == Failed("missing")
  <2>1. ~AtSlot /\ Finish(r) /\ r.status # "found"
    BY <1>5 DEF WalkEnds, Failed
  <2>2. /\ tree \in Trees /\ p \in Seq(Names) /\ k \in 1 .. Len(p)
        /\ Sure(tree, call) => dir \in DirsOf(tree, p, k - 1, "exact")
        /\ k < Len(p) \/ call.op # "getattr"
    BY <1>1, WhereTheWalkIs DEF Steps
  <2>3. ASSUME Sure(tree, call), Ended(tree) PROVE NodesIn(tree, call.op, p, "exact") = {}
    <3>1. \A i \in 1 .. entry - 1 : ~Fits(call, k, Slot(tree, dir, i))
      BY <1>1, <2>3 DEF LookupRight, NothingPassed
    <3>2. \A i \in 1 .. Len(tree[dir].slots) : ~(Slot(tree, dir, i).kind = "dir" /\ Slot(tree, dir, i).name = p[k])
      BY <1>1, <2>1, <3>1, AllPassed DEF Fits
    <3> DEFINE op == call.op
    <3> HIDE DEF p, k, op
    <3> QED
      BY <2>2, <2>3, <3>2, NoSuchDir DEF op
  <2> HIDE DEF r
  <2>4. Right(tree, call, r, listed)
    BY <2>1, <2>3, NoneIsRight
  <2> QED
    BY <2>1, <2>4, FinishIsRight
<1> QED
  BY <1>3, <1>4, <1>5

LEMMA OpenedIsRight ==
  ASSUME LookupType, LookupRight, Opened \/ RustOpened
  PROVE  LookupRight'
<1>1. /\ UNCHANGED <<tree, call, component, dir, entry, listed, result>>
      /\ phase = "walk" /\ phase' \in {"scan", "list"}
  BY DEF Opened, RustOpened, Walking, Reading
<1>2. component > Steps(call) /\ component = Steps(call) + 1 /\ Steps(call) \in Nat
  <2>1. component \in 1 .. Steps(call) + 1 /\ Steps(call) \in Nat
    BY <1>1, Walked DEF LookupType, PhaseOK
  <2>2. ~(component <= Steps(call))
    <3>1. CASE Opened
      BY <3>1, Walked DEF Opened, Walking, Sought, LookupType
    <3>2. CASE RustOpened
      BY <3>2 DEF RustOpened, Reading, RustSought, Steps
    <3> QED
      BY <3>1, <3>2
  <2> QED
    BY <2>1, <2>2
<1>3. Depth = Steps(call) /\ Depth' = Steps(call)
  BY <1>1, <1>2 DEF Depth
<1>4. OnTheWay'
  BY <1>1, <1>3 DEF LookupRight, OnTheWay
<1>5. Ended(tree) => entry = 1
  BY <1>1, <1>2 DEF LookupRight, NothingPassed
<1>6. Ended(tree) => \A j \in 1 .. entry - 1 : FALSE
  BY <1>5
<1>7. NothingPassed'
  BY <1>1, <1>6 DEF NothingPassed
<1>8. ListedSoFar'
  <2>1. listed = <<>> /\ LiveOf(tree, dir, 0) = <<>>
    BY <1>1, LiveUnfolds DEF LookupType, PhaseOK, TypeOK
  <2>2. Ended(tree) => listed = LiveOf(tree, dir, entry - 1)
    BY <1>5, <2>1
  <2> QED
    BY <1>1, <1>6, <2>2 DEF ListedSoFar
<1>9. ResultIsRight'
  BY <1>1 DEF ResultIsRight
<1> QED
  BY <1>4, <1>7, <1>8, <1>9 DEF LookupRight

LEMMA ScanIsRight ==
  ASSUME LookupType, LookupRight, ScanFinds \/ ScanOver \/ ScanEnds \/ ScanBeyond
  PROVE  LookupRight'
<1> DEFINE p == call.path
           x == Slot(tree, dir, entry)
<1>1. phase = "scan" /\ call.op = "getattr" /\ call.tool = "library"
  BY DEF ScanFinds, ScanOver, ScanEnds, ScanBeyond, Scanning, LookupType, PhaseOK
<1>2. dir \in DOMAIN tree /\ (~tree[dir].ended => ~Ended(tree)) /\ tree \in Trees
  BY DEF LookupType, TypeOK, Ended
<1>3. p \in Seq(Names) /\ p # <<>> /\ Last(p) = p[Len(p)] /\ Len(p) \in Nat
  BY <1>1 DEF LookupType, CallOK, CallType, Last
<1>4. /\ Ended(tree) => dir \in DirsOf(tree, p, Len(p) - 1, "loose")
      /\ Sure(tree, call) => dir \in DirsOf(tree, p, Len(p) - 1, "exact")
  <2>1. Depth = Len(p) - 1
    BY <1>1 DEF Depth, Steps
  <2> QED
    BY <1>1, <1>3, <2>1 DEF LookupRight, OnTheWay, WayOf
<1>5. CASE ScanFinds
  <2> DEFINE r == FoundNode(x.id)
  <2>1. AtSlot /\ Live(x) /\ x.name = p[Len(p)] /\ Finish(r) /\ r.status = "found" /\ r.id = x.id
        /\ entry \in 1 .. Len(tree[dir].slots)
    BY <1>3, <1>5, SlotIs DEF ScanFinds, IsTheNode, LookupType, FoundNode
  <2>2. ASSUME Ended(tree) PROVE x.id \in NodesIn(tree, "getattr", p, "loose")
    <3>1. IsNode(x, "getattr", p[Len(p)]) /\ dir \in DirsOf(tree, p, Len(p) - 1, "loose")
      BY <1>4, <2>1, <2>2 DEF IsNode
    <3> HIDE DEF p
    <3> QED
      BY <1>2, <1>3, <2>1, <3>1, NodesUnfold
  <2>3. ASSUME Sure(tree, call) PROVE NodesIn(tree, "getattr", p, "exact") = {x.id}
    <3>1. dir \in DirsOf(tree, p, Len(p) - 1, "exact")
      BY <1>4, <2>3
    <3> HIDE DEF p
    <3> QED
      BY <1>2, <1>3, <2>1, <3>1, TheNode
  <2>4. Right(tree, call, r, listed)
    <3> DEFINE wide == NodesIn(tree, "getattr", p, "loose")
               exact == NodesIn(tree, "getattr", p, "exact")
    <3>1. (Ended(tree) => x.id \in wide) /\ (Sure(tree, call) => exact = {x.id})
      BY <2>2, <2>3
    <3> HIDE DEF wide, exact, x, r
    <3> QED
      BY <1>1, <2>1, <3>1 DEF Right, wide, exact
  <2> HIDE DEF r
  <2> QED
    BY <2>1, <2>4, FinishIsRight
<1>6. CASE ScanOver /\ GoOn
  <2>1. AtSlot /\ ~(Live(x) /\ x.name = p[Len(p)])
    BY <1>3, <1>6, SlotIs DEF ScanOver, IsTheNode, LookupType
  <2>2. listed' = listed
    BY <1>6, SlotIs DEF ScanOver, GoOn, Finish, LookupType
  <2> QED
    BY <1>1, <1>6, <2>1, <2>2, GoOnIsRight
<1>7. CASE (ScanOver /\ ~GoOn) \/ ScanBeyond
  <2>1. ~tree[dir].ended /\ UNCHANGED <<tree, call>>
    BY <1>7 DEF ScanOver, ScanBeyond, HasNext, Finish
  <2> QED
    BY <1>1, <1>2, <2>1, NotEnded
<1>8. CASE ScanEnds
  <2> DEFINE r == Failed("missing")
  <2>1. ~AtSlot /\ Finish(r) /\ r.status # "found"
    BY <1>8 DEF ScanEnds, Failed
  <2>2. ASSUME Sure(tree, call), Ended(tree) PROVE NodesIn(tree, call.op, p, "exact") = {}
    <3>1. \A i \in 1 .. Len(tree[dir].slots) : ~(Live(Slot(tree, dir, i)) /\ Slot(tree, dir, i).name = p[Len(p)])
      BY <1>1, <2>1, <2>2, AllPassed DEF LookupRight, NothingPassed
    <3>2. dir \in DirsOf(tree, p, Len(p) - 1, "exact")
      BY <1>4, <2>2
    <3> DEFINE op == call.op
    <3> HIDE DEF p, op
    <3> QED
      BY <1>2, <1>3, <3>1, <3>2, NoSuchNode DEF op
  <2> HIDE DEF r
  <2>3. Right(tree, call, r, listed)
    BY <2>1, <2>2, NoneIsRight
  <2> QED
    BY <2>1, <2>3, FinishIsRight
<1> QED
  BY <1>5, <1>6, <1>7, <1>8

-----------------------------------------------------------------------------
(* The steps of a listing, and those of the Rust reader. *)

LEMMA ListIsRight ==
  ASSUME LookupType, LookupRight, ListOn \/ ListStops \/ ListEnds \/ ListBeyond
  PROVE  LookupRight'
<1> DEFINE x == Slot(tree, dir, entry)
<1>1. phase = "list" /\ call.op \in {"readdir", "listdir"} /\ (call.op = "listdir" => call.tool = "library")
  BY DEF ListOn, ListStops, ListEnds, ListBeyond, Listing, LookupType, PhaseOK, CallOK, CallType
<1>2. dir \in DOMAIN tree /\ (~tree[dir].ended => ~Ended(tree)) /\ tree \in Trees
  BY DEF LookupType, TypeOK, Ended
<1>3. Ended(tree) => /\ listed = LiveOf(tree, dir, entry - 1)
                     /\ call.op # "readdir" => \A j \in 1 .. entry - 1 : Live(Slot(tree, dir, j))
  BY <1>1 DEF LookupRight, ListedSoFar
<1>4. CASE ListOn /\ GoOn
  <2>1. AtSlot /\ (Live(x) \/ call.op = "readdir") /\ listed' = listed \o Shown(x)
    BY <1>4, SlotIs DEF ListOn, SkipsDeleted, LookupType
  <2> QED
    BY <1>1, <1>4, <2>1, GoOnIsRight
<1>5. CASE ListOn /\ ~GoOn
  <2>1. /\ ~tree[dir].ended /\ UNCHANGED <<tree, call>> /\ phase' = "done"
        /\ result' = IF call.op = "listdir" THEN Opens ELSE Failed("error")
    BY <1>5 DEF ListOn, HasNext
  <2>2. CASE call.tool = "library"
    BY <1>2, <2>1, <2>2, NotEnded
  <2>3. CASE call.tool # "library"
    <3> DEFINE r == Failed("error")
    <3>1. result' = r /\ r.status # "found" /\ ~Ended(tree)
      BY <1>1, <1>2, <2>1, <2>3 DEF Failed
    <3> HIDE DEF r
    <3>2. Right(tree, call, r, listed')
      BY <3>1, NoneIsRight
    <3> QED
      BY <2>1, <3>1, <3>2, DoneIsRight
  <2> QED
    BY <2>2, <2>3
<1>6. CASE ListStops
  <2>1. AtSlot /\ ~Live(x) /\ call.op # "readdir" /\ Finish(Opens) /\ entry \in 1 .. Len(tree[dir].slots)
    BY <1>6, SlotIs DEF ListStops, SkipsDeleted, LookupType
  <2>2. ASSUME Ended(tree) PROVE listed = LiveOf(tree, dir, StopOf(tree, dir, call.op))
    <3> DEFINE op == call.op
    <3>1. op # "readdir" /\ \A j \in 1 .. entry - 1 : Live(Slot(tree, dir, j))
      BY <1>3, <2>1, <2>2
    <3> HIDE DEF op
    <3>2. StopOf(tree, dir, op) = entry - 1
      BY <1>2, <2>1, <3>1, StopsAtTheDeleted
    <3> QED
      BY <1>3, <2>2, <3>2 DEF op
  <2>3. Right(tree, call, Opens, listed)
    BY <1>1, <2>2, OpensIsRight
  <2> QED
    BY <2>1, <2>3, FinishIsRight
<1>7. CASE ListEnds
  <2>1. ~AtSlot /\ Finish(Opens)
    BY <1>7 DEF ListEnds
  <2>2. ASSUME Ended(tree) PROVE listed = LiveOf(tree, dir, StopOf(tree, dir, call.op))
    <3> DEFINE op == call.op
    <3>1. entry - 1 = Len(tree[dir].slots) /\ 1 .. entry - 1 = 1 .. Len(tree[dir].slots)
      BY <2>1, AllPassed
    <3>2. op = "readdir" \/ \A i \in 1 .. Len(tree[dir].slots) : Live(Slot(tree, dir, i))
      BY <1>3, <2>2, <3>1
    <3> HIDE DEF op
    <3>3. StopOf(tree, dir, op) = entry - 1
      BY <1>2, <3>1, <3>2, StopsAtTheEnd
    <3> QED
      BY <1>3, <2>2, <3>3 DEF op
  <2>3. Right(tree, call, Opens, listed)
    BY <1>1, <2>2, OpensIsRight
  <2> QED
    BY <2>1, <2>3, FinishIsRight
<1>8. CASE ListBeyond
  <2>1. ~Ended(tree)
    BY <1>2, <1>8 DEF ListBeyond
  <2>2. CASE Finish(Opens)
    <3>1. Right(tree, call, Opens, listed)
      BY <1>1, <2>1, OpensIsRight
    <3> QED
      BY <2>2, <3>1, FinishIsRight
  <2>3. CASE Finish(Failed("error"))
    <3> DEFINE r == Failed("error")
    <3>1. r.status # "found" /\ Finish(r)
      BY <2>3 DEF Failed
    <3> HIDE DEF r
    <3>2. Right(tree, call, r, listed)
      BY <2>1, <3>1, NoneIsRight
    <3> QED
      BY <3>1, <3>2, FinishIsRight
  <2> QED
    BY <1>8, <2>2, <2>3 DEF ListBeyond
<1> QED
  BY <1>4, <1>5, <1>6, <1>7, <1>8

LEMMA RustIsRight ==
  ASSUME LookupType, LookupRight, RustOver \/ RustFinds \/ RustEnds
  PROVE  LookupRight'
<1> DEFINE p == call.path
           k == component
           x == Slot(tree, dir, entry)
           last == k = Len(p) /\ call.op = "getattr"
<1>1. phase = "walk" /\ call.tool = "rust" /\ component <= Steps(call)
  BY DEF RustOver, RustFinds, RustEnds, Reading, RustSought, Steps
<1>2. dir \in DOMAIN tree /\ (~tree[dir].ended => ~Ended(tree))
  BY DEF LookupType, TypeOK, Ended
<1>3. /\ tree \in Trees /\ p \in Seq(Names) /\ k \in 1 .. Len(p)
      /\ dir \in DirsOf(tree, p, k - 1, "exact")
  BY <1>1, WhereTheWalkIs DEF Sure
<1>4. CASE RustOver
  <2>1. AtSlot /\ ~(Live(x) /\ x.name = p[k])
    BY <1>4, SlotIs DEF RustOver, RustMatches, Named, LookupType
  <2>2. CASE GoOn
    <3>1. listed' = listed /\ ~Fits(call, component, x)
      BY <1>1, <1>4, <2>1, <2>2 DEF RustOver, Finish, Fits
    <3> QED
      BY <1>1, <2>1, <2>2, <3>1, GoOnIsRight
  <2>3. CASE ~GoOn
    <3> DEFINE r == Failed("error")
    <3>1. r.status # "found" /\ Finish(r) /\ ~Ended(tree)
      BY <1>2, <1>4, <2>3 DEF RustOver, HasNext, Failed
    <3> HIDE DEF r
    <3>2. Right(tree, call, r, listed)
      BY <3>1, NoneIsRight
    <3> QED
      BY <3>1, <3>2, FinishIsRight
  <2> QED
    BY <2>2, <2>3
<1>5. CASE RustFinds
  <2>1. /\ AtSlot /\ Live(x) /\ x.name = p[k] /\ entry \in 1 .. Len(tree[dir].slots)
        /\ \/ last /\ Finish(FoundNode(x.id))
           \/ ~last /\ x.kind = "dir" /\ Enter(x.id)
           \/ ~last /\ x.kind # "dir" /\ Finish(Failed("notdir"))
    BY <1>5, SlotIs DEF RustFinds, RustMatches, Named, LookupType
  <2>2. CASE last /\ Finish(FoundNode(x.id))
    <3> DEFINE r == FoundNode(x.id)
               exact == NodesIn(tree, "getattr", p, "exact")
    <3>1. r.status = "found" /\ r.id = x.id /\ p # <<>> /\ Len(p) = k
      BY <1>3, <2>2 DEF FoundNode
    <3>2. exact = {x.id}
      BY <1>3, <2>1, <3>1, TheNode
    <3>3. Finish(r) /\ call.op = "getattr"
      BY <2>2
    <3> HIDE DEF r, exact, x
    <3>4. Right(tree, call, r, listed)
      BY <1>1, <3>1, <3>2, <3>3 DEF Right, exact
    <3> QED
      BY <3>3, <3>4, FinishIsRight
  <2>3. CASE ~last /\ x.kind = "dir" /\ Enter(x.id)
    <3> DEFINE m == k - 1
               i == entry
    <3>1. m \in 0 .. Len(p) - 1 /\ m + 1 = k /\ Leads(p[m + 1], x.name, "exact")
      BY <1>3, <2>1 DEF Leads
    <3>2. dir \in DirsOf(tree, p, m, "exact") /\ i \in 1 .. Len(tree[dir].slots) /\ x = Slot(tree, dir, i)
      BY <1>3, <2>1
    <3> HIDE DEF m, p, i, x
    <3>3. Slot(tree, dir, i).id \in DirsOf(tree, p, m + 1, "exact")
      BY <1>3, <2>3, <3>1, <3>2, Onward
    <3>4. x.id \in DirsOf(tree, p, component, "exact")
      BY <3>1, <3>2, <3>3
    <3> QED
      BY <1>1, <2>3, <3>4, EnterIsRight DEF p
  <2>4. CASE ~last /\ x.kind # "dir" /\ Finish(Failed("notdir"))
    <3> DEFINE r == Failed("notdir")
               op == call.op
    <3>1. r.status # "found" /\ Finish(r)
      BY <2>4 DEF Failed
    <3>2. \A i \in 1 .. Len(tree[dir].slots) : ~(Slot(tree, dir, i).kind = "dir" /\ Slot(tree, dir, i).name = p[k])
      BY <1>2, <1>3, <2>1, <2>4, TreesAre DEF IsTree, Live
    <3>3. k < Len(p) \/ op # "getattr"
      BY <1>3, <2>4
    <3> HIDE DEF p, k, op, r
    <3>4. NodesIn(tree, op, p, "exact") = {}
      BY <1>3, <3>2, <3>3, NoSuchDir
    <3>5. Right(tree, call, r, listed)
      BY <3>1, <3>4, NoneIsRight DEF p, op
    <3> QED
      BY <3>1, <3>5, FinishIsRight
  <2> HIDE DEF last
  <2> QED
    BY <2>1, <2>2, <2>3, <2>4
<1>6. CASE RustEnds
  <2> DEFINE r == Failed("missing")
             op == call.op
  <2>1. ~AtSlot /\ Finish(r) /\ r.status # "found"
    BY <1>6 DEF RustEnds, Failed
  <2>2. ASSUME Ended(tree) PROVE NodesIn(tree, op, p, "exact") = {}
    <3>1. \A i \in 1 .. Len(tree[dir].slots) : ~(Live(Slot(tree, dir, i)) /\ Slot(tree, dir, i).name = p[k])
      BY <1>1, <2>1, <2>2, AllPassed DEF LookupRight, NothingPassed, Fits
    <3>2. CASE k < Len(p) \/ op # "getattr"
      <4>1. \A i \in 1 .. Len(tree[dir].slots) :
              ~(Slot(tree, dir, i).kind = "dir" /\ Slot(tree, dir, i).name = p[k])
        BY <3>1 DEF Live
      <4> HIDE DEF p, k, op
      <4> QED
        BY <1>3, <3>2, <4>1, NoSuchDir
    <3>3. CASE ~(k < Len(p))
      <4>1. k = Len(p) /\ p # <<>>
        BY <1>3, <3>3
      <4>2. \A i \in 1 .. Len(tree[dir].slots) : ~(Live(Slot(tree, dir, i)) /\ Slot(tree, dir, i).name = p[Len(p)])
        BY <3>1, <4>1
      <4>3. dir \in DirsOf(tree, p, Len(p) - 1, "exact")
        BY <1>3, <4>1
      <4> HIDE DEF p, k, op
      <4> QED
        BY <1>3, <4>1, <4>2, <4>3, NoSuchNode
    <3> QED
      BY <3>2, <3>3
  <2> HIDE DEF r
  <2>3. Right(tree, call, r, listed)
    BY <2>1, <2>2, NoneIsRight
  <2> QED
    BY <2>1, <2>3, FinishIsRight
<1> QED
  BY <1>4, <1>5, <1>6

-----------------------------------------------------------------------------
(* Calls begin and return. *)

LEMMA BeginIsRight ==
  ASSUME LookupType, NEW tool, NEW op, NEW path \in Paths, Begin(tool, op, path)
  PROVE  LookupRight'
<1>1. /\ UNCHANGED <<tree, component, dir, entry, listed, result>> /\ phase' = "walk" /\ phase = "idle"
      /\ call' = [tool |-> tool, op |-> op, path |-> path]
  BY DEF Begin
<1>2. component = 1 /\ dir = RootDir /\ entry = 1 /\ listed = <<>> /\ tree \in Trees /\ path \in Seq(Names)
  BY <1>1, LookupAssumption DEF LookupType, TypeOK, PhaseOK
<1>3. Depth' = 0
  BY <1>1, <1>2 DEF Depth
<1>4. \A how : dir \in DirsOf(tree, path, 0, how)
  BY <1>2, DirsUnfold
<1>5. dir \in WayOf(tree, call', 0, "loose")
  <2>1. call'.path = path
    BY <1>1
  <2>2. CASE Len(path) = 0
    <3>1. path = <<>>
      BY <1>2, <2>2
    <3>2. NodesIn(tree, call'.op, path, "loose") = {RootDir}
      BY <3>1 DEF NodesIn
    <3> QED
      BY <1>2, <2>1, <2>2, <3>2 DEF WayOf
  <2>3. CASE Len(path) # 0
    BY <1>4, <2>1, <2>3 DEF WayOf
  <2> QED
    BY <2>2, <2>3
<1>6. OnTheWay'
  <2>1. call'.path = path
    BY <1>1
  <2> QED
    BY <1>1, <1>3, <1>4, <1>5, <2>1 DEF OnTheWay
<1>7. NothingPassed'
  <2>1. \A j \in 1 .. entry' - 1 : FALSE
    BY <1>1, <1>2
  <2> QED
    BY <1>1, <1>2, <2>1 DEF NothingPassed
<1>8. ListedSoFar' /\ ResultIsRight'
  BY <1>1 DEF ListedSoFar, ResultIsRight
<1> QED
  BY <1>6, <1>7, <1>8 DEF LookupRight

LEMMA ReturnIsRight == Return => LookupRight'
BY DEF Return, LookupRight, OnTheWay, NothingPassed, ListedSoFar, ResultIsRight

LEMMA StepIsRight ==
  ASSUME LookupType, LookupRight, [Next]_vars
  PROVE  LookupRight'
<1>1. CASE UNCHANGED vars
  <2>1. Depth' = Depth
    BY <1>1 DEF vars, Depth
  <2> QED
    BY <1>1, <2>1 DEF vars, LookupRight, OnTheWay, NothingPassed, ListedSoFar, ResultIsRight
<1>2. ASSUME NEW path \in Paths, NEW tool, NEW op, Begin(tool, op, path)
      PROVE  LookupRight'
  BY <1>2, BeginIsRight
<1>3. CASE Return
  BY <1>3, ReturnIsRight
<1>4. CASE LookUp
  BY <1>4, IntoIsRight, WalkIsRight, OpenedIsRight, ScanIsRight, ListIsRight, RustIsRight DEF LookUp
<1> QED
  BY <1>1, <1>2, <1>3, <1>4 DEF Next

LEMMA StartIsRight == Init => LookupRight
BY DEF Init, LookupRight, OnTheWay, NothingPassed, ListedSoFar, ResultIsRight

LEMMA AlwaysRight == Spec => []ResultIsRight
<1>1. Spec => [](LookupType /\ LookupRight)
  BY StartIsTyped, StepIsTyped, StartIsRight, StepIsRight, PTL DEF Spec
<1>2. LookupRight => ResultIsRight
  BY DEF LookupRight
<1> QED
  BY <1>1, <1>2, PTL

(* Where directories have their end markers the library's lookups find the  *)
(* node of the path, and nothing where there is none; names of directories  *)
(* that begin with others lead it astray no further than into directories   *)
(* whose names begin with those asked for (fatx_open_dir).                  *)
THEOREM LibraryIsRight == Spec => []LibraryFindsTheNode
BY AlwaysRight, RightMeans, PTL

(* Lookups of the Rust reader find the node of the path, and no other on    *)
(* any volume (DirectoryEntry::from_path).                                  *)
THEOREM RustReaderIsRight == Spec => []RustFindsTheNode
BY AlwaysRight, RightMeans, PTL

(* A listing that succeeds has the live entries of the directory of the     *)
(* path in order, each once, up to where its loop stops at a deleted one.   *)
THEOREM ListingsAreRight == Spec => []ListingsAreOfTheDirectory
BY AlwaysRight, RightMeans, PTL
=============================================================================
