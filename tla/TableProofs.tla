----------------------------- MODULE TableProofs -----------------------------
(***************************************************************************)
(* Theorems about the table of virtual hosts, for any domains, locations,  *)
(* hosts and paths and any number of routes; about the configuration of a  *)
(* proxy, for any domains and any number of edits; and about what is       *)
(* loaded of a file, for any rows and any number of edits.                 *)
(*                                                                         *)
(* The table.  Its lists hold the registered routes, each in decreasing    *)
(* order of the locations.  Of two prefixes of one path the longer is the  *)
(* greater one, so the first hit is the longest; and the names of the      *)
(* chain are those that cover the host, closest first.                     *)
(*                                                                         *)
(* The configuration.  What runs is a function on the fields of the type,  *)
(* and Compare looks at all of them; what frps has was unmarshalled from   *)
(* what frpc marshalled of the configuration that runs now.                *)
(*                                                                         *)
(* The file.  Parsed, the text of a range has its numbers in the places    *)
(* that are counted in it, so the proxy of a place has the ports of that   *)
(* place; a section of the file is not touched by another one's range.     *)
(***************************************************************************)
EXTENDS Tables, SequenceTheorems, FiniteSetTheorems, TLAPS

(***************************************************************************)
(* A set of numbers has a least one.  Subsets of an interval are well      *)
(* founded under strict inclusion, and the intervals 0..k, k in S, are     *)
(* among them.                                                             *)
(***************************************************************************)
LEMMA Least ==
  ASSUME NEW S \in SUBSET Nat, S # {}
  PROVE  \E i \in S : \A j \in S : i <= j
  <1>1. PICK n \in S : TRUE
    OBVIOUS
  <1> DEFINE Below == {0..k : k \in {i \in S : i <= n}}
             F == FiniteSubsetsOf(0..n)
             R == StrictSubsetOrdering(0..n)
  <1>2. IsWellFoundedOn(R, F)
    BY FS_StrictSubsetOrderingWellFounded
  <1>3. Below \subseteq F /\ Below # {}
    <2>1. ASSUME NEW k \in S, k <= n
          PROVE  0..k \in F
      <3>1. 0..k \in SUBSET (0..n)
        BY <2>1
      <3>2. IsFiniteSet(0..k)
        BY FS_Interval
      <3> QED BY <3>1, <3>2 DEF FiniteSubsetsOf
    <2> QED BY <2>1
  <1>4. PICK x \in Below : \A y \in Below : <<y, x>> \notin R
    <2> HIDE DEF Below, R, F
    <2> QED BY <1>2, <1>3, WFMin
  <1>5. PICK k \in S : k <= n /\ x = 0..k
    OBVIOUS
  <1>6. ASSUME NEW j \in S, j < k
        PROVE  FALSE
    <2>1. 0..j \in Below
      BY <1>5, <1>6
    <2>2. 0..j \subseteq 0..k /\ 0..j # 0..k
      <3>1. k \in 0..k /\ k \notin 0..j
        BY <1>6
      <3> QED BY <1>6, <3>1
    <2>3. <<0..j, 0..k>> \in R
      BY <1>3, <1>5, <2>1, <2>2 DEF StrictSubsetOrdering
    <2> QED BY <1>4, <1>5, <2>1, <2>3
  <1> QED BY <1>5, <1>6

LEMMA EarliestIs ==
  ASSUME NEW S \in SUBSET Nat, S # {}
  PROVE  Router!Earliest(S) \in S /\ \A j \in S : Router!Earliest(S) <= j
  BY Least DEF Router!Earliest
-----------------------------------------------------------------------------
(***************************************************************************)
(* The order of locations.                                                 *)
(***************************************************************************)
LEMMA PrefixIs ==
  ASSUME NEW s \in Seq(Nat), NEW t \in Seq(Nat)
  PROVE  Router!IsPrefix(s, t) <=> Len(s) <= Len(t) /\ \A i \in 1..Len(s) : s[i] = t[i]
  <1>1. Len(s) \in Nat /\ Len(t) \in Nat
    OBVIOUS
  <1>2. CASE Len(s) <= Len(t)
    <2>1. /\ SubSeq(s, 1, Len(s)) \in Seq(Nat) /\ Len(SubSeq(s, 1, Len(s))) = Len(s)
          /\ \A i \in 1..Len(s) : SubSeq(s, 1, Len(s))[i] = s[i]
      BY <1>1, SubSeqProperties
    <2>2. /\ SubSeq(t, 1, Len(s)) \in Seq(Nat) /\ Len(SubSeq(t, 1, Len(s))) = Len(s)
          /\ \A i \in 1..Len(s) : SubSeq(t, 1, Len(s))[i] = t[i]
      BY <1>1, <1>2, SubSeqProperties
    <2>3. (\A i \in 1..Len(s) : s[i] = t[i]) => SubSeq(s, 1, Len(s)) = SubSeq(t, 1, Len(s))
      BY <2>1, <2>2, SeqEqual
    <2> QED BY <1>2, <2>1, <2>2, <2>3 DEF Router!IsPrefix
  <1> QED BY <1>1, <1>2 DEF Router!IsPrefix

\* a comes before b because of place i.
Decides(a, b, i) ==
  /\ i \in 1..Len(b) /\ i <= Len(a) + 1
  /\ \A j \in 1..(i - 1) : a[j] = b[j]
  /\ i <= Len(a) => a[i] < b[i]

LEMMA BeforeIs ==
  ASSUME NEW a \in Seq(Nat), NEW b \in Seq(Nat)
  PROVE  Router!Before(a, b) <=> \E i \in Nat : Decides(a, b, i)
  <1>1. Len(a) \in Nat /\ Len(b) \in Nat /\ DOMAIN a = 1..Len(a) /\ DOMAIN b = 1..Len(b)
    OBVIOUS
  <1>2. ASSUME Router!IsStrictPrefix(a, b)
        PROVE  Decides(a, b, Len(a) + 1)
    <2>1. Len(a) <= Len(b) /\ \A i \in 1..Len(a) : a[i] = b[i]
      BY <1>2, PrefixIs DEF Router!IsStrictPrefix
    <2>2. Len(a) # Len(b)
      <3> SUFFICES ASSUME Len(a) = Len(b)
                   PROVE  FALSE
        OBVIOUS
      <3>1. a = b
        BY <2>1, SeqEqual
      <3> QED BY <1>2, <3>1 DEF Router!IsStrictPrefix
    <2>3. \A j \in 1..((Len(a) + 1) - 1) : a[j] = b[j]
      BY <1>1, <2>1
    <2>4. Len(a) < Len(b)
      <3>1. Len(a) \in Nat /\ Len(b) \in Nat /\ Len(a) <= Len(b)
        BY <1>1, <2>1
      <3> QED BY <2>2, <3>1
    <2>5. Len(a) + 1 \in 1..Len(b) /\ ~(Len(a) + 1 <= Len(a))
      BY <1>1, <2>4
    <2> QED BY <2>3, <2>5 DEF Decides
  <1>3. ASSUME NEW i \in DOMAIN a \intersect DOMAIN b, a[i] < b[i],
               \A j \in 1..(i - 1) : a[j] = b[j]
        PROVE  Decides(a, b, i)
    BY <1>1, <1>3 DEF Decides
  <1>4. ASSUME NEW i \in Nat, Decides(a, b, i)
        PROVE  Router!Before(a, b)
    <2>1. CASE i <= Len(a)
      BY <1>1, <1>4, <2>1 DEF Decides, Router!Before
    <2>2. CASE i = Len(a) + 1
      <3>1. Router!IsPrefix(a, b) /\ a # b
        <4>1. Len(a) < Len(b) /\ \A j \in 1..Len(a) : a[j] = b[j]
          BY <1>1, <1>4, <2>2 DEF Decides
        <4> QED BY <1>1, <4>1, PrefixIs
      <3> QED BY <3>1 DEF Router!Before, Router!IsStrictPrefix
    <2> QED BY <1>1, <1>4, <2>1, <2>2 DEF Decides
  <1> QED BY <1>1, <1>2, <1>3, <1>4 DEF Router!Before

LEMMA BeforeTransitive ==
  ASSUME NEW a \in Seq(Nat), NEW b \in Seq(Nat), NEW c \in Seq(Nat),
         Router!Before(a, b), Router!Before(b, c)
  PROVE  Router!Before(a, c)
  <1>1. PICK i \in Nat : Decides(a, b, i)
    BY BeforeIs
  <1>2. PICK k \in Nat : Decides(b, c, k)
    BY BeforeIs
  <1>3. /\ Len(a) \in Nat /\ Len(b) \in Nat /\ Len(c) \in Nat
        /\ \A j \in 1..Len(a) : a[j] \in Nat
        /\ \A j \in 1..Len(b) : b[j] \in Nat
        /\ \A j \in 1..Len(c) : c[j] \in Nat
    OBVIOUS
  <1>4. /\ i \in 1..Len(b) /\ i <= Len(a) + 1 /\ (i <= Len(a) => a[i] < b[i])
        /\ k \in 1..Len(c) /\ k <= Len(b) + 1 /\ (k <= Len(b) => b[k] < c[k])
    BY <1>1, <1>2 DEF Decides
  <1>5. /\ \A j \in 1..(i - 1) : a[j] = b[j]
        /\ \A j \in 1..(k - 1) : b[j] = c[j]
    BY <1>1, <1>2 DEF Decides
  <1>6. CASE i <= k
    <2>1. \A j \in 1..(i - 1) : a[j] = c[j]
      BY <1>3, <1>4, <1>5, <1>6
    <2>2. i <= Len(a) => a[i] < c[i]
      <3>1. CASE i = k
        <4>1. i \in 1..Len(b) /\ i \in 1..Len(c)
          BY <1>3, <1>4, <3>1
        <4>2. i <= Len(a) => i \in 1..Len(a)
          BY <1>3, <4>1
        <4>3. i <= Len(a) => a[i] < b[i] /\ b[i] < c[i]
          BY <1>3, <1>4, <3>1, <4>1
        <4> QED BY <1>3, <4>1, <4>2, <4>3
      <3>2. CASE i < k
        BY <1>3, <1>4, <1>5, <3>2
      <3> QED BY <1>6, <3>1, <3>2
    <2>3. Decides(a, c, i)
      BY <1>3, <1>4, <1>6, <2>1, <2>2 DEF Decides
    <2> QED BY <2>3, BeforeIs
  <1>7. CASE k < i
    <2>1. \A j \in 1..(k - 1) : a[j] = c[j]
      BY <1>3, <1>4, <1>5, <1>7
    <2>2. a[k] = b[k] /\ k <= Len(a)
      BY <1>3, <1>4, <1>5, <1>7
    <2>3. k <= Len(b) /\ k \in 1..Len(c) /\ k <= Len(a) + 1
      <3>1. k \in 1..Len(c) /\ k <= Len(b) + 1 /\ k \in Nat /\ i \in Nat /\ i <= Len(b)
        BY <1>3, <1>4
      <3>2. Len(a) \in Nat /\ Len(b) \in Nat
        OBVIOUS
      <3> QED BY <1>7, <2>2, <3>1, <3>2
    <2>4. a[k] < c[k]
      BY <1>4, <2>2, <2>3
    <2>5. Decides(a, c, k)
      BY <2>1, <2>3, <2>4 DEF Decides
    <2> QED BY <2>5, BeforeIs
  <1> QED BY <1>6, <1>7

LEMMA BeforeTotal ==
  ASSUME NEW a \in Seq(Nat), NEW b \in Seq(Nat), a # b
  PROVE  Router!Before(a, b) \/ Router!Before(b, a)
  <1> DEFINE D == {i \in Nat \ {0} : i <= Len(a) /\ i <= Len(b) => a[i] # b[i]}
  <1>1. /\ Len(a) \in Nat /\ Len(b) \in Nat
        /\ \A j \in 1..Len(a) : a[j] \in Nat
        /\ \A j \in 1..Len(b) : b[j] \in Nat
    OBVIOUS
  <1>2. Len(a) + 1 \in D
    BY <1>1
  <1>3. PICK i \in D : \A j \in D : i <= j
    BY <1>2, Least
  <1>4. \A j \in 1..(i - 1) : j <= Len(a) /\ j <= Len(b) /\ a[j] = b[j]
    BY <1>1, <1>3
  <1>5. i <= Len(a) + 1 /\ i <= Len(b) + 1
    BY <1>1, <1>3, <1>4
  <1>6. i <= Len(a) \/ i <= Len(b)
    <2> SUFFICES ASSUME i = Len(a) + 1, i = Len(b) + 1
                 PROVE  FALSE
      BY <1>1, <1>5
    <2>1. Len(a) = Len(b) /\ \A j \in 1..Len(a) : a[j] = b[j]
      BY <1>1, <1>4
    <2> QED BY <2>1, SeqEqual
  <1>7. Decides(a, b, i) \/ Decides(b, a, i)
    BY <1>1, <1>3, <1>4, <1>5, <1>6 DEF Decides
  <1> QED BY <1>7, BeforeIs

LEMMA BeforeIrreflexive == ASSUME NEW a \in Seq(Nat) PROVE ~Router!Before(a, a)
  BY BeforeIs DEF Decides

\* Of two prefixes of a path the greater is the longer.
LEMMA PrefixesOfOne ==
  ASSUME NEW a \in Seq(Nat), NEW b \in Seq(Nat), NEW p \in Seq(Nat),
         Router!IsPrefix(a, p), Router!IsPrefix(b, p), Router!Before(a, b)
  PROVE  Len(a) < Len(b)
  <1>1. PICK i \in Nat : Decides(a, b, i)
    BY BeforeIs
  <1>2. Len(a) \in Nat /\ Len(b) \in Nat /\ \A j \in 1..Len(a) : a[j] \in Nat
    OBVIOUS
  <1>3. /\ \A j \in 1..Len(a) : a[j] = p[j]
        /\ \A j \in 1..Len(b) : b[j] = p[j]
    BY PrefixIs
  <1> QED BY <1>1, <1>2, <1>3 DEF Decides
-----------------------------------------------------------------------------
(***************************************************************************)
(* The lists of the table.                                                 *)
(***************************************************************************)
RouteSet == {Router!Route(d, l) : d \in Domains, l \in Locations}

Sorted(list) ==
  \A i, j \in DOMAIN list : i < j => Router!Before(list[j].location, list[i].location)

LEMMA RouteIs ==
  ASSUME NEW r \in RouteSet
  PROVE  /\ r.domain \in Domains /\ r.location \in Locations /\ r.found = TRUE
         /\ r = Router!Route(r.domain, r.location)
  BY DEF RouteSet, Router!Route

\* Sorting a sorted list with one more router puts the router into its place.
LEMMA SortInserts ==
  ASSUME NEW list \in Seq(RouteSet), Sorted(list), NEW r \in RouteSet,
         \A i \in DOMAIN list : list[i].location # r.location
  PROVE  /\ Router!SortReverse(Append(list, r)) \in Seq(RouteSet)
         /\ Sorted(Router!SortReverse(Append(list, r)))
         /\ Router!Range(Router!SortReverse(Append(list, r))) = Router!Range(list) \union {r}
  <1> DEFINE n == Len(list)
             long == Append(list, r)
             At == {i \in 1..(n + 1) : i = n + 1 \/ Router!Before(list[i].location, r.location)}
  <1>1. n \in Nat /\ DOMAIN list = 1..n /\ \A i \in 1..n : list[i] \in RouteSet
    OBVIOUS
  <1>2. /\ DOMAIN long = 1..(n + 1) /\ long \in Seq(RouteSet)
        /\ \A i \in 1..n : long[i] = list[i]
        /\ long[n + 1] = r
    BY AppendProperties
  <1>3. Router!Range(long) = Router!Range(list) \union {r} /\ Router!Range(long) \subseteq RouteSet
    BY <1>1, <1>2 DEF Router!Range
  <1>4. PICK p \in At : \A i \in At : p <= i
    <2>1. At \in SUBSET Nat /\ n + 1 \in At
      BY <1>1
    <2> HIDE DEF At
    <2> QED BY <2>1, Least
  <1> DEFINE w == [k \in 1..(n + 1) |-> IF k < p THEN list[k] ELSE IF k = p THEN r ELSE list[k - 1]]
  <1> HIDE DEF n, long
  <1>5. p \in 1..(n + 1)
    OBVIOUS
  <1>6. /\ \A k \in 1..(n + 1) : k < p => w[k] = list[k] /\ k \in 1..n
        /\ w[p] = r
        /\ \A k \in 1..(n + 1) : p < k => w[k] = list[k - 1] /\ k - 1 \in 1..n /\ p <= k - 1
    BY <1>1, <1>5
  <1>7. DOMAIN w = 1..(n + 1)
    OBVIOUS
  <1> HIDE DEF w
  <1>8. \A k \in 1..n : (k < p => w[k] = list[k]) /\ (p <= k => w[k + 1] = list[k])
    BY <1>1, <1>5, <1>6
  <1>9. Router!Range(w) = Router!Range(list) \union {r}
    <2>1. ASSUME NEW k \in 1..(n + 1)
          PROVE  w[k] \in Router!Range(list) \union {r}
      <3>1. CASE k < p
        BY <1>1, <1>6, <3>1 DEF Router!Range
      <3>2. CASE p < k
        BY <1>1, <1>6, <3>2 DEF Router!Range
      <3>3. CASE k = p
        BY <1>6, <3>3
      <3> QED BY <1>1, <1>5, <3>1, <3>2, <3>3
    <2>2. r \in Router!Range(w)
      BY <1>5, <1>6, <1>7 DEF Router!Range
    <2>3. ASSUME NEW k \in 1..n
          PROVE  list[k] \in Router!Range(w)
      BY <1>1, <1>5, <1>7, <1>8 DEF Router!Range
    <2> QED BY <1>1, <1>7, <2>1, <2>2, <2>3 DEF Router!Range
  <1>10. r.location \in Seq(Nat) /\ \A i \in 1..n : list[i].location \in Seq(Nat)
    BY <1>1, RouteIs, RouterTexts DEF Router!Texts
  <1>11. \A k \in 1..n : k < p => Router!Before(r.location, list[k].location)
    <2> SUFFICES ASSUME NEW k \in 1..n, k < p
                 PROVE  Router!Before(r.location, list[k].location)
      OBVIOUS
    <2>1. k \notin At
      BY <1>1, <1>4, <1>5
    <2>2. ~Router!Before(list[k].location, r.location)
      BY <1>1, <2>1
    <2> QED BY <1>1, <1>10, <2>2, BeforeTotal
  <1>12. \A k \in 1..n : p <= k => Router!Before(list[k].location, r.location)
    <2> SUFFICES ASSUME NEW k \in 1..n, p <= k
                 PROVE  Router!Before(list[k].location, r.location)
      OBVIOUS
    <2>1. p \in 1..n /\ Router!Before(list[p].location, r.location)
      BY <1>1, <1>4, <1>5
    <2>2. p < k => Router!Before(list[k].location, list[p].location)
      BY <1>1, <2>1 DEF Sorted
    <2>3. p = k \/ p < k
      BY <1>1, <1>5
    <2> QED BY <1>10, <2>1, <2>2, <2>3, BeforeTransitive
  <1>13. \A i, j \in 1..(n + 1) : i < j => Router!Before(w[j].location, w[i].location)
    <2> SUFFICES ASSUME NEW i \in 1..(n + 1), NEW j \in 1..(n + 1), i < j
                 PROVE  Router!Before(w[j].location, w[i].location)
      OBVIOUS
    <2> HIDE DEF At
    <2>1. CASE j < p
      BY <1>1, <1>5, <1>6, <2>1 DEF Sorted
    <2>2. CASE j = p
      BY <1>1, <1>5, <1>6, <1>11, <2>2
    <2>3. CASE p < j /\ i < p
      <3>1. w[j] = list[j - 1] /\ j - 1 \in 1..n /\ w[i] = list[i] /\ i \in 1..n /\ i < j - 1
        BY <1>1, <1>5, <1>6, <2>3
      <3> QED BY <1>1, <3>1 DEF Sorted
    <2>4. CASE p < j /\ i = p
      BY <1>1, <1>5, <1>6, <1>12, <2>4
    <2>5. CASE p < i
      <3>1. w[j] = list[j - 1] /\ j - 1 \in 1..n /\ w[i] = list[i - 1] /\ i - 1 \in 1..n
            /\ i - 1 < j - 1
        BY <1>1, <1>5, <1>6, <2>5
      <3> QED BY <1>1, <3>1 DEF Sorted
    <2> QED BY <1>1, <1>5, <2>1, <2>2, <2>3, <2>4, <2>5
  <1>14. w \in [DOMAIN long -> Router!Range(long)]
    BY <1>2, <1>3, <1>7, <1>9 DEF Router!Range, w
  <1> DEFINE s == Router!SortReverse(long)
  <1>15. /\ s \in [DOMAIN long -> Router!Range(long)] /\ Router!Range(s) = Router!Range(long)
         /\ \A i, j \in DOMAIN long : i < j => Router!Before(s[j].location, s[i].location)
    BY <1>2, <1>3, <1>9, <1>13, <1>14 DEF Router!SortReverse
  <1> HIDE DEF s
  <1>16. s \in [1..(n + 1) -> RouteSet]
    BY <1>2, <1>3, <1>15
  <1>17. s \in Seq(RouteSet) /\ Sorted(s) /\ Router!Range(s) = Router!Range(list) \union {r}
    BY <1>1, <1>2, <1>3, <1>15, <1>16 DEF Sorted
  <1> QED BY <1>17 DEF s, long
\* The routers of a sorted list have different locations.
LEMMA SortedDistinct ==
  ASSUME NEW list \in Seq(RouteSet), Sorted(list),
         NEW i \in DOMAIN list, NEW j \in DOMAIN list, list[i].location = list[j].location
  PROVE  i = j
  <1>1. list[i].location \in Seq(Nat)
    <2>1. list[i] \in RouteSet
      OBVIOUS
    <2> QED BY <2>1, RouteIs, RouterTexts DEF Router!Texts
  <1>2. ~(i < j) /\ ~(j < i)
    BY <1>1, BeforeIrreflexive DEF Sorted
  <1>3. i \in Nat /\ j \in Nat
    OBVIOUS
  <1> QED BY <1>2, <1>3

\* Taking one router out of a sorted list leaves the others in their order.
LEMMA RemoveKeeps ==
  ASSUME NEW list \in Seq(RouteSet), Sorted(list), NEW p \in DOMAIN list
  PROVE  /\ Router!RemoveAt(list, p) \in Seq(RouteSet)
         /\ Sorted(Router!RemoveAt(list, p))
         /\ Router!Range(Router!RemoveAt(list, p)) = Router!Range(list) \ {list[p]}
  <1> DEFINE n == Len(list)
             head == SubSeq(list, 1, p - 1)
             tail == SubSeq(list, p + 1, n)
             w == Router!RemoveAt(list, p)
  <1>1. n \in Nat /\ DOMAIN list = 1..n /\ p \in 1..n
    OBVIOUS
  <1>2. /\ head \in Seq(RouteSet) /\ Len(head) = p - 1
        /\ \A i \in 1..(p - 1) : head[i] = list[i]
    BY <1>1, SubSeqProperties
  <1>3. /\ tail \in Seq(RouteSet) /\ Len(tail) = n - p
        /\ \A i \in 1..(n - p) : tail[i] = list[p + i]
    BY <1>1, SubSeqProperties
  <1>4. w = head \o tail
    BY DEF Router!RemoveAt
  <1> HIDE DEF w, head, tail, n
  <1>5. /\ w \in Seq(RouteSet) /\ Len(w) = n - 1
        /\ \A i \in 1..(n - 1) : w[i] = IF i < p THEN list[i] ELSE list[i + 1]
    <2>1. /\ w \in Seq(RouteSet) /\ Len(w) = Len(head) + Len(tail)
          /\ \A i \in 1..Len(w) : w[i] = IF i <= Len(head) THEN head[i] ELSE tail[i - Len(head)]
      BY <1>2, <1>3, <1>4, ConcatProperties
    <2>2. Len(w) = n - 1
      BY <1>1, <1>2, <1>3, <2>1
    <2>3. ASSUME NEW i \in 1..(n - 1)
          PROVE  w[i] = IF i < p THEN list[i] ELSE list[i + 1]
      <3>1. CASE i < p
        BY <1>1, <1>2, <2>1, <2>2, <3>1
      <3>2. CASE p <= i
        <4>1. i - (p - 1) \in 1..(n - p) /\ p + (i - (p - 1)) = i + 1
          BY <1>1, <3>2
        <4>2. tail[i - (p - 1)] = list[i + 1]
          BY <1>3, <4>1
        <4>3. w[i] = tail[i - (p - 1)]
          BY <1>1, <1>2, <2>1, <2>2, <3>2
        <4> QED BY <1>1, <3>2, <4>2, <4>3
      <3> QED BY <1>1, <3>1, <3>2
    <2> QED BY <2>1, <2>2, <2>3
  <1>6. DOMAIN w = 1..(n - 1)
    BY <1>5
  <1>7. Sorted(w)
    <2> SUFFICES ASSUME NEW i \in 1..(n - 1), NEW j \in 1..(n - 1), i < j
                 PROVE  Router!Before(w[j].location, w[i].location)
      BY <1>6 DEF Sorted
    <2>1. PICK a \in 1..n : w[i] = list[a] /\ a = IF i < p THEN i ELSE i + 1
      BY <1>1, <1>5
    <2>2. PICK b \in 1..n : w[j] = list[b] /\ b = IF j < p THEN j ELSE j + 1
      BY <1>1, <1>5
    <2>3. a < b
      BY <1>1, <2>1, <2>2
    <2> QED BY <1>1, <2>1, <2>2, <2>3 DEF Sorted
  <1>8. Router!Range(w) \subseteq Router!Range(list) \ {list[p]}
    <2> SUFFICES ASSUME NEW i \in 1..(n - 1)
                 PROVE  w[i] \in Router!Range(list) \ {list[p]}
      BY <1>6 DEF Router!Range
    <2>1. PICK a \in 1..n : w[i] = list[a] /\ a # p
      BY <1>1, <1>5
    <2>2. list[a] # list[p]
      BY <1>1, <2>1, SortedDistinct
    <2> QED BY <1>1, <2>1, <2>2 DEF Router!Range
  <1>9. ASSUME NEW a \in 1..n, a # p
        PROVE  list[a] \in Router!Range(w)
    <2>1. CASE a < p
      <3>1. a \in 1..(n - 1) /\ w[a] = list[a]
        BY <1>1, <1>5, <2>1
      <3> QED BY <1>6, <3>1 DEF Router!Range
    <2>2. CASE p < a
      <3>1. a - 1 \in 1..(n - 1) /\ ~(a - 1 < p) /\ (a - 1) + 1 = a
        BY <1>1, <2>2
      <3>2. w[a - 1] = list[a]
        BY <1>5, <3>1
      <3> QED BY <1>6, <3>1, <3>2 DEF Router!Range
    <2> QED BY <1>1, <1>9, <2>1, <2>2
  <1>10. Router!Range(w) = Router!Range(list) \ {list[p]}
    BY <1>1, <1>8, <1>9 DEF Router!Range
  <1> QED BY <1>5, <1>7, <1>10 DEF w
-----------------------------------------------------------------------------
(***************************************************************************)
(* The invariant: the list of a domain is what is registered for it, in    *)
(* decreasing order of the locations.                                      *)
(***************************************************************************)
ListsAre(t, rs) ==
  \A d \in Domains :
    /\ Router!Routers(t, d) \in Seq(RouteSet)
    /\ Sorted(Router!Routers(t, d))
    /\ Router!Range(Router!Routers(t, d)) = {r \in rs : r.domain = d}

TableIs(t, rs) ==
  /\ rs \subseteq RouteSet
  /\ DOMAIN t \subseteq Domains
  /\ ListsAre(t, rs)

TableInv == TableIs(table, routes)

LEMMA EntryIs ==
  ASSUME NEW t, NEW d, NEW list, NEW e
  PROVE  Router!Routers(Router!Entry(t, d, list), e) = IF e = d THEN list ELSE Router!Routers(t, e)
  BY DEF Router!Routers, Router!Entry

LEMMA AddKeeps ==
  ASSUME TableInv, NEW d \in Domains, NEW l \in Locations
  PROVE  TableIs(Router!Add(table, d, l), routes \union {Router!Route(d, l)})
  <1> DEFINE list == Router!Routers(table, d)
             r == Router!Route(d, l)
             new == Router!SortReverse(Append(list, r))
  <1>1. r \in RouteSet /\ r.domain = d /\ r.location = l
    <2>1. r \in RouteSet
      BY DEF RouteSet
    <2> QED BY <2>1 DEF Router!Route
  <1>2. list \in Seq(RouteSet) /\ Sorted(list) /\ Router!Range(list) = {s \in routes : s.domain = d}
    BY DEF TableInv, TableIs, ListsAre
  <1>3. CASE Router!Exist(table, d, l)
    <2>1. PICK i \in DOMAIN list : list[i].location = l
      BY <1>3 DEF Router!Exist
    <2>2. list[i] \in routes /\ list[i] \in RouteSet /\ list[i].domain = d
      BY <1>2 DEF Router!Range
    <2>3. list[i] = r
      BY <2>1, <2>2, RouteIs
    <2>4. routes \union {r} = routes /\ Router!Add(table, d, l) = table
      BY <1>3, <2>2, <2>3 DEF Router!Add
    <2> QED BY <2>4 DEF TableInv
  <1>4. CASE ~Router!Exist(table, d, l)
    <2>1. \A i \in DOMAIN list : list[i].location # r.location
      BY <1>1, <1>4 DEF Router!Exist
    <2>2. new \in Seq(RouteSet) /\ Sorted(new) /\ Router!Range(new) = Router!Range(list) \union {r}
      BY <1>1, <1>2, <2>1, SortInserts
    <2>3. Router!Add(table, d, l) = Router!Entry(table, d, new)
      BY <1>4 DEF Router!Add
    <2> HIDE DEF new, list, r
    <2>4. Router!Range(new) = {s \in routes \union {r} : s.domain = d}
      BY <1>1, <1>2, <2>2
    <2>5. ASSUME NEW e \in Domains, e # d
          PROVE  {s \in routes \union {r} : s.domain = e} = {s \in routes : s.domain = e}
      BY <1>1, <2>5
    <2>6. ListsAre(Router!Entry(table, d, new), routes \union {r})
      BY <2>2, <2>4, <2>5, EntryIs DEF ListsAre, TableInv, TableIs
    <2>7. DOMAIN Router!Entry(table, d, new) \subseteq Domains
      BY DEF Router!Entry, TableInv, TableIs
    <2>8. TableIs(Router!Add(table, d, l), routes \union {r})
      BY <1>1, <2>3, <2>6, <2>7 DEF TableInv, TableIs
    <2> QED BY <2>8 DEF r
  <1> QED BY <1>3, <1>4

LEMMA DelKeeps ==
  ASSUME TableInv, NEW r \in routes
  PROVE  TableIs(Router!Del(table, r.domain, r.location), routes \ {r})
  <1> DEFINE d == r.domain
             list == Router!Routers(table, d)
             gone == {i \in DOMAIN list : list[i].location = r.location}
             p == Router!Earliest(gone)
             new == Router!RemoveAt(list, p)
  <1>1. r \in RouteSet /\ d \in Domains
    BY RouteIs DEF TableInv, TableIs
  <1>2. list \in Seq(RouteSet) /\ Sorted(list) /\ Router!Range(list) = {s \in routes : s.domain = d}
    BY <1>1 DEF TableInv, TableIs, ListsAre
  <1>3. PICK i \in DOMAIN list : list[i] = r
    BY <1>2 DEF Router!Range
  <1>4. gone \in SUBSET Nat /\ gone # {}
    BY <1>2, <1>3
  <1>5. p \in gone
    <2> HIDE DEF gone
    <2> QED BY <1>4, EarliestIs
  <1>6. list[p] = r
    BY <1>2, <1>3, <1>5, SortedDistinct
  <1>7. new \in Seq(RouteSet) /\ Sorted(new) /\ Router!Range(new) = Router!Range(list) \ {r}
    BY <1>2, <1>5, <1>6, RemoveKeeps
  <1>8. Router!Del(table, d, r.location) = Router!Entry(table, d, new)
    BY <1>4 DEF Router!Del
  <1> HIDE DEF new, p, gone, list
  <1>9. Router!Range(new) = {s \in routes \ {r} : s.domain = d}
    BY <1>2, <1>7
  <1>10. ListsAre(Router!Entry(table, d, new), routes \ {r})
    <2>1. ASSUME NEW e \in Domains, e # d
          PROVE  {s \in routes \ {r} : s.domain = e} = {s \in routes : s.domain = e}
      BY <2>1
    <2> HIDE DEF d
    <2> QED BY <1>7, <1>9, <2>1, EntryIs DEF ListsAre, TableInv, TableIs
  <1>11. DOMAIN Router!Entry(table, d, new) \subseteq Domains
    BY <1>1 DEF Router!Entry, TableInv, TableIs
  <1> QED BY <1>8, <1>10, <1>11 DEF TableInv, TableIs

LEMMA RouterInit == Router!Init => TableInv
  <1> SUFFICES ASSUME Router!Init
               PROVE  TableInv
    OBVIOUS
  <1>1. table = <<>> /\ routes = {} /\ DOMAIN table = {}
    BY DEF Router!Init
  <1>2. ASSUME NEW d \in Domains
        PROVE  Router!Routers(table, d) = <<>>
    BY <1>1 DEF Router!Routers
  <1>3. <<>> \in Seq(RouteSet) /\ Sorted(<<>>) /\ Router!Range(<<>>) = {}
    BY DEF Sorted, Router!Range
  <1>4. ListsAre(table, routes)
    BY <1>1, <1>2, <1>3 DEF ListsAre
  <1> QED BY <1>1, <1>4 DEF TableInv, TableIs

LEMMA RouterStep == TableInv /\ [Router!Next]_routeVars => TableInv'
  <1> SUFFICES ASSUME TableInv, [Router!Next]_routeVars
               PROVE  TableInv'
    OBVIOUS
  <1>1. CASE Router!Register
    <2>1. PICK d \in Domains, l \in Locations :
            table' = Router!Add(table, d, l) /\ routes' = routes \union {Router!Route(d, l)}
      BY <1>1 DEF Router!Register
    <2>2. TableIs(table', routes')
      BY <2>1, AddKeeps
    <2> QED BY <2>2 DEF TableInv
  <1>2. CASE Router!UnRegister
    <2>1. PICK r \in routes :
            table' = Router!Del(table, r.domain, r.location) /\ routes' = routes \ {r}
      BY <1>2 DEF Router!UnRegister
    <2>2. TableIs(table', routes')
      BY <2>1, DelKeeps
    <2> QED BY <2>2 DEF TableInv
  <1>3. CASE UNCHANGED routeVars
    BY <1>3 DEF TableInv, routeVars
  <1> QED BY <1>1, <1>2, <1>3 DEF Router!Next
-----------------------------------------------------------------------------
(***************************************************************************)
(* One look-up: the longest location of a name that is a prefix.           *)
(***************************************************************************)
Here(name, path) == {r \in routes : r.domain = name /\ Router!IsPrefix(r.location, path)}

LEMMA GetIs ==
  ASSUME TableInv, NEW name, NEW path \in Paths
  PROVE  /\ Here(name, path) = {} => Router!Get(table, name, path) = Router!NotFound
         /\ Here(name, path) # {} =>
              /\ Router!Get(table, name, path) \in Here(name, path)
              /\ \A s \in Here(name, path) \ {Router!Get(table, name, path)} :
                   Len(Router!Get(table, name, path).location) > Len(s.location)
  <1> DEFINE list == Router!Routers(table, name)
             hits == {i \in DOMAIN list : Router!IsPrefix(list[i].location, path)}
             e == Router!Earliest(hits)
  <1>1. /\ list \in Seq(RouteSet) /\ Sorted(list)
        /\ Router!Range(list) = {r \in routes : r.domain = name}
    <2>1. CASE name \in Domains
      BY <2>1 DEF TableInv, TableIs, ListsAre
    <2>2. CASE name \notin Domains
      <3>1. list = <<>>
        BY <2>2 DEF Router!Routers, TableInv, TableIs
      <3>2. {r \in routes : r.domain = name} = {}
        BY <2>2, RouteIs DEF TableInv, TableIs
      <3>3. <<>> \in Seq(RouteSet) /\ Sorted(<<>>) /\ Router!Range(<<>>) = {}
        BY DEF Sorted, Router!Range
      <3> QED BY <3>1, <3>2, <3>3
    <2> QED BY <2>1, <2>2
  <1>2. Router!Get(table, name, path) = IF hits = {} THEN Router!NotFound ELSE list[e]
    BY DEF Router!Get
  <1> HIDE DEF list
  <1>3. \A i \in DOMAIN list : list[i] \in routes /\ list[i].domain = name
    BY <1>1 DEF Router!Range
  <1>4. \A s \in Here(name, path) : \E i \in hits : list[i] = s
    BY <1>1 DEF Here, Router!Range
  <1>5. ASSUME hits # {}
        PROVE  /\ list[e] \in Here(name, path)
               /\ \A s \in Here(name, path) \ {list[e]} : Len(list[e].location) > Len(s.location)
    <2>1. hits \in SUBSET Nat
      BY <1>1
    <2>2. e \in hits /\ \A j \in hits : e <= j
      <3> HIDE DEF hits
      <3> QED BY <1>5, <2>1, EarliestIs
    <2>3. list[e] \in Here(name, path)
      BY <1>3, <2>2 DEF Here
    <2> HIDE DEF e
    <2>4. ASSUME NEW s \in Here(name, path) \ {list[e]}
          PROVE  Len(list[e].location) > Len(s.location)
      <3>1. PICK i \in hits : list[i] = s
        BY <1>4
      <3>2. e < i
        <4>1. e # i /\ e \in Nat /\ i \in Nat /\ e <= i
          BY <2>1, <2>2, <3>1
        <4> QED BY <4>1
      <3>3. Router!Before(list[i].location, list[e].location)
        BY <1>1, <2>2, <3>2 DEF Sorted
      <3>4. list[e] \in RouteSet /\ list[i] \in RouteSet
        BY <1>1, <2>2
      <3>5. list[e].location \in Seq(Nat) /\ list[i].location \in Seq(Nat) /\ path \in Seq(Nat)
        BY <3>4, RouteIs, RouterTexts DEF Router!Texts
      <3>6. Len(list[i].location) < Len(list[e].location)
        BY <2>2, <3>3, <3>5, PrefixesOfOne
      <3> QED BY <3>1, <3>5, <3>6
    <2> QED BY <2>3, <2>4
  <1>6. hits = {} <=> Here(name, path) = {}
    BY <1>4, <1>5
  <1> QED BY <1>2, <1>5, <1>6
-----------------------------------------------------------------------------
(***************************************************************************)
(* The names of the chain.                                                 *)
(***************************************************************************)
\* "*" is a string; the provers are told so.
Strings == Seq(STRING \union {"*"})

\* The host with "*" for its first k labels.
Wild(host, k) == <<"*">> \o SubSeq(host, k + 1, Len(host))

LEMMA OneIs ==
  ASSUME NEW S, NEW x \in S
  PROVE  <<x>> \in Seq(S) /\ Len(<<x>>) = 1 /\ <<x>>[1] = x
  OBVIOUS

LEMMA WildIs ==
  ASSUME NEW host \in Strings, NEW k \in 1..(Len(host) - 2)
  PROVE  /\ Wild(host, k) \in Strings /\ Len(Wild(host, k)) = Len(host) - k + 1
         /\ Wild(host, k)[1] = "*"
         /\ Tail(Wild(host, k)) = SubSeq(host, k + 1, Len(host))
  <1> DEFINE rest == SubSeq(host, k + 1, Len(host))
  <1>1. Len(host) \in Nat /\ k \in Nat
    BY DEF Strings
  <1>2. rest \in Strings /\ Len(rest) = Len(host) - k
    <2>1. \A i \in (k + 1)..Len(host) : host[i] \in STRING \union {"*"}
      BY <1>1 DEF Strings
    <2> QED BY <1>1, <2>1, SubSeqProperties DEF Strings
  <1> DEFINE star == <<"*">>
  <1>3. star \in Strings /\ Len(star) = 1 /\ star[1] = "*"
    BY OneIs DEF Strings
  <1> HIDE DEF rest, star
  <1> DEFINE w == star \o rest
  <1>4. /\ w \in Strings /\ Len(w) = Len(host) - k + 1
        /\ \A i \in 1..(Len(host) - k + 1) : w[i] = IF i <= 1 THEN star[i] ELSE rest[i - 1]
    <2>1. /\ w \in Strings /\ Len(w) = Len(star) + Len(rest)
          /\ \A i \in 1..(Len(star) + Len(rest)) :
               w[i] = IF i <= Len(star) THEN star[i] ELSE rest[i - Len(star)]
      BY <1>2, <1>3, ConcatProperties DEF Strings
    <2>2. Len(star) + Len(rest) = Len(host) - k + 1
      BY <1>1, <1>2, <1>3
    <2> QED BY <1>3, <2>1, <2>2
  <1>5. w[1] = "*"
    BY <1>1, <1>3, <1>4
  <1> HIDE DEF w
  <1>6. Tail(w) = rest
    <2>1. w # <<>>
      BY <1>1, <1>4
    <2>2. /\ Tail(w) \in Strings /\ Len(Tail(w)) = Len(host) - k
          /\ \A i \in 1..Len(Tail(w)) : Tail(w)[i] = w[i + 1]
      BY <1>1, <1>4, <2>1, HeadTailProperties DEF Strings
    <2>3. \A i \in 1..Len(Tail(w)) : Tail(w)[i] = rest[i]
      BY <1>1, <1>2, <1>4, <2>2
    <2> QED BY <1>2, <2>2, <2>3, SeqEqual DEF Strings
  <1> QED BY <1>4, <1>5, <1>6 DEF w, rest, star, Wild

LEMMA NamesAre ==
  ASSUME NEW host \in Strings
  PROVE  /\ DOMAIN Router!Names(host) = 1..(IF Len(host) < 3 THEN 1 ELSE Len(host) - 1)
         /\ Router!Names(host)[1] = host
         /\ \A k \in 1..(Len(host) - 2) : Router!Names(host)[k + 1] = Wild(host, k)
  <1> DEFINE m == IF Len(host) < 3 THEN 0 ELSE Len(host) - 2
             wild == [k \in 1..m |-> Wild(host, k)]
  <1>1. Len(host) \in Nat /\ m \in Nat
    BY DEF Strings
  <1>2. \A k \in 1..m : Wild(host, k) \in Strings
    BY <1>1, WildIs
  <1>3. wild \in Seq(Strings) /\ Len(wild) = m /\ \A k \in 1..m : wild[k] = Wild(host, k)
    BY <1>1, <1>2
  <1>4. <<host>> \in Seq(Strings) /\ Len(<<host>>) = 1 /\ <<host>>[1] = host
    OBVIOUS
  <1>5. Router!Names(host) = <<host>> \o wild
    BY DEF Router!Names, Wild
  <1> HIDE DEF wild
  <1>6. /\ Router!Names(host) \in Seq(Strings) /\ Len(Router!Names(host)) = m + 1
        /\ \A i \in 1..(m + 1) : Router!Names(host)[i] = IF i <= 1 THEN <<host>>[i] ELSE wild[i - 1]
    BY <1>1, <1>3, <1>4, <1>5, ConcatProperties
  <1>7. Router!Names(host)[1] = host
    BY <1>1, <1>4, <1>6
  <1>8. ASSUME NEW k \in 1..m
        PROVE  Router!Names(host)[k + 1] = Wild(host, k)
    BY <1>1, <1>3, <1>6
  <1> HIDE DEF m
  <1>9. DOMAIN Router!Names(host) = 1..(m + 1)
    BY <1>6
  <1>10. \A k \in 1..m : Router!Names(host)[k + 1] = Wild(host, k)
    BY <1>8
  <1>11. /\ m + 1 = IF Len(host) < 3 THEN 1 ELSE Len(host) - 1
         /\ 1..(Len(host) - 2) \subseteq 1..m
    BY <1>1 DEF m
  <1> QED BY <1>7, <1>9, <1>10, <1>11

\* The names of the chain cover the host, each of them less closely than those before it.
LEMMA NamesCover ==
  ASSUME NEW host \in Strings, NEW i \in DOMAIN Router!Names(host)
  PROVE  /\ Router!Covers(Router!Names(host)[i], host)
         /\ Router!Closeness(Router!Names(host)[i], host) \in Nat
         /\ \A j \in DOMAIN Router!Names(host) :
              i < j => \/ Router!Names(host)[i] = Router!Names(host)[j]
                       \/ Router!Closeness(Router!Names(host)[i], host)
                            > Router!Closeness(Router!Names(host)[j], host)
  <1> DEFINE n == Len(host)
             c(k) == Router!Closeness(Router!Names(host)[k], host)
  <1>1. /\ n \in Nat /\ i \in 1..(IF n < 3 THEN 1 ELSE n - 1)
        /\ \A k \in DOMAIN Router!Names(host) : k = 1 \/ k - 1 \in 1..(n - 2)
        /\ DOMAIN Router!Names(host) \subseteq Nat
    BY NamesAre DEF Strings
  <1>2. Router!Names(host)[1] = host /\ c(1) = n + 1
    BY NamesAre DEF Router!Closeness
  <1>3. ASSUME NEW k \in 1..(n - 2)
        PROVE  /\ Router!Names(host)[k + 1] = Wild(host, k)
               /\ Router!Covers(Wild(host, k), host)
               /\ Wild(host, k) # host => c(k + 1) = n - k + 1
               /\ Wild(host, k) = host => k = 1
    <2> DEFINE w == Wild(host, k)
    <2>1. Router!Names(host)[k + 1] = w
      BY NamesAre
    <2>2. Len(w) = n - k + 1 /\ w[1] = "*" /\ Tail(w) = SubSeq(host, k + 1, n)
      BY WildIs
    <2> HIDE DEF w
    <2>3. Len(w) >= 3 /\ Len(w) <= n /\ n - Len(w) + 2 = k + 1
      BY <1>1, <2>2
    <2>4. Router!Covers(w, host)
      BY <2>2, <2>3 DEF Router!Covers
    <2>5. w # host => c(k + 1) = n - k + 1
      BY <2>1, <2>2 DEF Router!Closeness
    <2>6. w = host => k = 1
      BY <1>1, <2>2
    <2> QED BY <2>1, <2>4, <2>5, <2>6 DEF w
  <1> DEFINE kind(k) == \/ Router!Names(host)[k] = host /\ k \in {1, 2} /\ c(k) = n + 1
                        \/ Router!Names(host)[k] # host /\ k >= 2 /\ c(k) = n - k + 2 /\ k <= n
  <1>4. ASSUME NEW k \in DOMAIN Router!Names(host)
        PROVE  Router!Covers(Router!Names(host)[k], host) /\ kind(k)
    <2>1. CASE k = 1
      BY <1>2, <2>1 DEF Router!Covers
    <2>2. CASE k - 1 \in 1..(n - 2)
      <3> DEFINE q == k - 1
      <3>1. k = q + 1 /\ n - q + 1 = n - k + 2 /\ k >= 2 /\ k <= n /\ q \in 1..(n - 2)
        BY <1>1, <2>2
      <3> HIDE DEF q
      <3>2. CASE Wild(host, q) = host
        <4>1. k = 2 /\ Router!Names(host)[k] = host
          BY <1>3, <3>1, <3>2
        <4> QED BY <1>3, <3>1, <3>2, <4>1 DEF Router!Closeness
      <3>3. CASE Wild(host, q) # host
        BY <1>3, <3>1, <3>3
      <3> QED BY <3>2, <3>3
    <2> QED BY <1>1, <2>1, <2>2
  <1>5. kind(i) /\ Router!Covers(Router!Names(host)[i], host)
    BY <1>4
  <1>6. ASSUME NEW j \in DOMAIN Router!Names(host), i < j
        PROVE  Router!Names(host)[i] = Router!Names(host)[j] \/ c(i) > c(j)
    <2>1. kind(j)
      BY <1>4
    <2> HIDE DEF c
    <2> QED BY <1>1, <1>5, <1>6, <2>1
  <1>7. c(i) \in Nat
    <2> HIDE DEF c
    <2> QED BY <1>1, <1>5
  <1> QED BY <1>5, <1>6, <1>7

\* Whatever covers the host is in the chain.
LEMMA CoversIsName ==
  ASSUME NEW host \in Strings, NEW d \in Strings, Router!Covers(d, host)
  PROVE  \E i \in DOMAIN Router!Names(host) : Router!Names(host)[i] = d
  <1>1. Len(host) \in Nat /\ Len(d) \in Nat
    BY DEF Strings
  <1>2. CASE d = host
    <2>1. 1 \in DOMAIN Router!Names(host) /\ Router!Names(host)[1] = host
      BY <1>1, NamesAre
    <2> QED BY <1>2, <2>1
  <1>3. CASE d # host
    <2> DEFINE k == Len(host) - Len(d) + 1
    <2>1. /\ Len(d) >= 3 /\ d[1] = "*" /\ Len(d) <= Len(host)
          /\ Tail(d) = SubSeq(host, Len(host) - Len(d) + 2, Len(host))
      BY <1>3 DEF Router!Covers
    <2>2. k \in 1..(Len(host) - 2) /\ k + 1 = Len(host) - Len(d) + 2
      BY <1>1, <2>1
    <2> HIDE DEF k
    <2> DEFINE w == Wild(host, k)
    <2>3. w \in Strings /\ w[1] = "*" /\ Tail(w) = Tail(d) /\ Len(w) = Len(host) - k + 1
      BY <2>1, <2>2, WildIs
    <2>4. Len(w) = Len(d)
      BY <1>1, <2>3 DEF k
    <2> HIDE DEF w
    <2>5. \A i \in 1..Len(d) : w[i] = d[i]
      <3>1. w # <<>> /\ d # <<>>
        BY <1>1, <2>1, <2>4
      <3>2. /\ Len(Tail(d)) = Len(d) - 1
            /\ \A i \in 1..Len(Tail(d)) : Tail(d)[i] = d[i + 1]
        BY <3>1, HeadTailProperties DEF Strings
      <3>3. /\ Len(Tail(w)) = Len(w) - 1
            /\ \A i \in 1..Len(Tail(w)) : Tail(w)[i] = w[i + 1]
        BY <2>3, <3>1, HeadTailProperties DEF Strings
      <3>4. ASSUME NEW i \in 1..Len(d), i # 1
            PROVE  w[i] = d[i]
        <4>1. i - 1 \in 1..(Len(d) - 1) /\ (i - 1) + 1 = i
          BY <1>1, <3>4
        <4> QED BY <2>3, <2>4, <3>2, <3>3, <4>1
      <3> QED BY <2>1, <2>3, <3>4
    <2>6. w = d
      BY <2>3, <2>4, <2>5, SeqEqual DEF Strings
    <2>7. k + 1 \in DOMAIN Router!Names(host) /\ Router!Names(host)[k + 1] = w
      BY <1>1, <2>2, NamesAre DEF w
    <2> QED BY <2>6, <2>7
  <1> QED BY <1>2, <1>3
-----------------------------------------------------------------------------
(***************************************************************************)
(* The first hit of the chain is the most specific route.                  *)
(***************************************************************************)
LEMMA FirstIsBest ==
  ASSUME TableInv, NEW host \in Hosts, NEW path \in Paths
  PROVE  Router!getListener(table, host, path) = Router!MostSpecific(routes, host, path)
  <1> DEFINE names == Router!Names(host)
             hits == {i \in DOMAIN names : Router!Get(table, names[i], path).found}
             e == Router!Earliest(hits)
             g == Router!Get(table, names[e], path)
             m == Router!Matching(routes, host, path)
  <1>1. host \in Strings /\ \A d \in Domains : d \in Strings
    BY RouterTexts DEF Router!Texts, Strings
  <1>2. ASSUME NEW r \in routes
        PROVE  /\ r.domain \in Domains /\ r.found = TRUE
               /\ r.location \in Seq(Nat)
    BY RouteIs, RouterTexts DEF TableInv, TableIs, Router!Texts
  <1>3. \A i \in DOMAIN names : i \in hits <=> Here(names[i], path) # {}
    <2> SUFFICES ASSUME NEW i \in DOMAIN names
                 PROVE  Router!Get(table, names[i], path).found <=> Here(names[i], path) # {}
      OBVIOUS
    <2>1. ~Router!NotFound.found
      BY DEF Router!NotFound
    <2>2. \A r \in Here(names[i], path) : r.found
      BY <1>2 DEF Here
    <2> HIDE DEF names
    <2> QED BY <2>1, <2>2, GetIs
  <1>4. ASSUME NEW s \in m
        PROVE  \E j \in hits : names[j] = s.domain /\ s \in Here(names[j], path)
    <2>1. s \in routes /\ Router!Covers(s.domain, host) /\ Router!IsPrefix(s.location, path)
      BY DEF Router!Matching
    <2>2. PICK j \in DOMAIN names : names[j] = s.domain
      BY <1>1, <1>2, <2>1, CoversIsName
    <2>3. s \in Here(names[j], path)
      BY <2>1, <2>2 DEF Here
    <2> QED BY <1>3, <2>2, <2>3
  <1>5. CASE hits = {}
    <2>1. m = {}
      BY <1>4, <1>5
    <2> QED BY <1>5, <2>1 DEF Router!getListener, Router!getVhost, Router!MostSpecific
  <1>6. CASE hits # {}
    <2>1. DOMAIN names \subseteq Nat
      BY <1>1, NamesAre DEF Strings
    <2>2. e \in hits /\ \A j \in hits : e <= j
      <3>1. hits \in SUBSET Nat
        BY <2>1
      <3> HIDE DEF hits
      <3> QED BY <1>6, <3>1, EarliestIs
    <2>3. Router!getListener(table, host, path) = g
      BY <1>6 DEF Router!getListener, Router!getVhost
    <2>4. /\ g \in Here(names[e], path)
          /\ \A s \in Here(names[e], path) \ {g} : Len(g.location) > Len(s.location)
      <3>1. Here(names[e], path) # {}
        BY <1>3, <2>2
      <3> HIDE DEF names, e
      <3> QED BY <3>1, GetIs
    <2>5. e \in DOMAIN names
      BY <2>2
    <2> HIDE DEF g, e, hits
    <2>6. g \in m /\ g.domain = names[e]
      BY <1>1, <2>4, <2>5, NamesCover DEF Here, Router!Matching
    <2>7. ASSUME NEW s \in m, s # g
          PROVE  Router!Better(g, s, host)
      <3>1. PICK j \in hits : names[j] = s.domain /\ s \in Here(names[j], path)
        BY <1>4
      <3>2. CASE names[j] = names[e]
        BY <2>4, <2>6, <2>7, <3>1, <3>2 DEF Router!Better
      <3>3. CASE names[j] # names[e]
        <4>1. j \in DOMAIN names
          BY <3>1 DEF hits
        <4>2. e < j
          <5>1. e # j /\ e <= j /\ e \in Nat /\ j \in Nat
            BY <2>1, <2>2, <2>5, <3>3, <4>1
          <5> QED BY <5>1
        <4>3. Router!Closeness(names[e], host) > Router!Closeness(names[j], host)
          BY <1>1, <2>5, <3>3, <4>1, <4>2, NamesCover
        <4> QED BY <2>6, <3>1, <4>3 DEF Router!Better
      <3> QED BY <3>2, <3>3
    <2>8. ASSUME NEW r \in m, \A s \in m \ {r} : Router!Better(r, s, host)
          PROVE  r = g
      <3> SUFFICES ASSUME r # g
                   PROVE  FALSE
        OBVIOUS
      <3>1. Router!Better(r, g, host) /\ Router!Better(g, r, host)
        BY <2>6, <2>7, <2>8
      <3>2. r \in routes /\ g \in routes
        BY <2>6 DEF Router!Matching
      <3>3. Len(r.location) \in Nat /\ Len(g.location) \in Nat
        BY <1>2, <3>2
      <3>4. Router!Closeness(g.domain, host) \in Nat /\ Router!Closeness(r.domain, host) \in Nat
        BY <1>1, <1>2, <3>2 DEF Router!Closeness, Strings
      <3> QED BY <3>1, <3>3, <3>4 DEF Router!Better
    <2>9. Router!MostSpecific(routes, host, path)
            = CHOOSE r \in m : \A s \in m \ {r} : Router!Better(r, s, host)
      BY <2>6 DEF Router!MostSpecific
    <2> HIDE DEF m
    <2> QED BY <2>3, <2>6, <2>7, <2>8, <2>9
  <1> QED BY <1>5, <1>6

\* A request is answered by the most specific route that is registered, whatever the domains,
\* locations, hosts and paths and however many routes came and went: Routers.Add keeps the
\* list of a domain in reverse order (router.go:34-57), Routers.Get takes its first hit, and
\* getListener and getVhost try the names from the closest on (vhost.go:100-127,
\* http.go:164-191).
THEOREM MostSpecificAnswers == Spec => []AnswersMostSpecific
  <1> DEFINE RouterInv == part = "router" => TableInv
  <1>1. Init => RouterInv
    BY RouterInit DEF Init
  <1>2. RouterInv /\ [Next]_vars => RouterInv'
    <2> SUFFICES ASSUME RouterInv, [Next]_vars, part' = "router"
                 PROVE  TableInv'
      OBVIOUS
    <2>1. part = "router" /\ [Router!Next]_routeVars
      BY DEF Next, vars
    <2> QED BY <2>1, RouterStep
  <1>3. RouterInv => AnswersMostSpecific
    BY FirstIsBest DEF AnswersMostSpecific, Router!AnswersMostSpecific
  <1> QED BY <1>1, <1>2, <1>3, PTL DEF Spec
-----------------------------------------------------------------------------
(***************************************************************************)
(* The configuration of a proxy.                                           *)
(***************************************************************************)
AllTypes == Proxy!Types \union Proxy!Visitors

\* What Compare, MarshalToMsg and UnmarshalFromMsg of a type treat.
LEMMA TypesTreatTheirFields ==
  ASSUME NEW t \in AllTypes
  PROVE  /\ (IF t \in Proxy!Visitors THEN Proxy!VisitorCompare ELSE Proxy!BaseCompare)
              \union Proxy!TypeConf(t).compare = Proxy!Fields(t)
         /\ t \notin Proxy!Visitors =>
              /\ Proxy!ServerUses(t) \subseteq Proxy!Fields(t)
              /\ Proxy!ServerUses(t) \subseteq Proxy!BaseMarshal \union Proxy!TypeConf(t).marshal
              /\ Proxy!ServerUses(t) \subseteq
                   Proxy!BaseUnmarshal \union Proxy!TypeConf(t).unmarshal
  <1> USE DEF Proxy!Fields, Proxy!VisitorCompare, Proxy!BaseCompare, Proxy!TypeConf, Proxy!Table,
              Proxy!Whole, Proxy!ServerUses, Proxy!BaseMarshal, Proxy!BaseUnmarshal,
              Proxy!Secret, Proxy!Visitors
  <1>1. CASE t = "tcp"
    BY <1>1 DEF Proxy!TCPConf, Proxy!Base
  <1>2. CASE t = "tcpmux"
    BY <1>2 DEF Proxy!TCPMuxConf, Proxy!TCPMuxOwn, Proxy!Base
  <1>3. CASE t = "udp"
    BY <1>3 DEF Proxy!UDPConf, Proxy!Base
  <1>4. CASE t = "http"
    BY <1>4 DEF Proxy!HTTPConf, Proxy!HTTPOwn, Proxy!Base
  <1>5. CASE t = "https"
    BY <1>5 DEF Proxy!HTTPSConf, Proxy!Base
  <1>6. CASE t = "stcp"
    BY <1>6 DEF Proxy!STCPConf, Proxy!Base
  <1>7. CASE t = "xtcp"
    BY <1>7 DEF Proxy!XTCPConf, Proxy!Base
  <1>8. CASE t = "sudp"
    BY <1>8 DEF Proxy!SUDPConf, Proxy!Base
  <1>9. CASE t \in Proxy!Visitors
    BY <1>9 DEF Proxy!VisitorConf, Proxy!SUDPVisitorConf, Proxy!STCPVisitorConf,
                Proxy!XTCPVisitorConf
  <1> QED BY <1>1, <1>2, <1>3, <1>4, <1>5, <1>6, <1>7, <1>8, <1>9 DEF AllTypes, Proxy!Types

\* c has a value for every field of the type, and nothing else.
ConfigOf(t, c) == c = [f \in Proxy!Fields(t) |-> c[f]]

LEMMA FromIniIs ==
  ASSUME NEW t \in AllTypes, NEW sec, ConfigOf(t, sec), Proxy!FromIni(t, sec) # Proxy!Error
  PROVE  ConfigOf(t, Proxy!FromIni(t, sec))
  <1>1. ConfigOf(t, Proxy!Decorated(sec))
    BY DEF ConfigOf, Proxy!Decorated
  <1>2. ConfigOf(t, Proxy!VisitorDecorated(sec))
    BY DEF ConfigOf, Proxy!VisitorDecorated
  <1> QED BY <1>1, <1>2 DEF Proxy!FromIni, Proxy!NewVisitorConfFromIni, Proxy!NewProxyConfFromIni

\* Two configurations that Compare finds equal are the same.
LEMMA CompareIs ==
  ASSUME NEW t \in AllTypes, NEW c, NEW d, ConfigOf(t, c), ConfigOf(t, d), Proxy!Compare(t, c, d)
  PROVE  c = d
  <1>1. \A f \in Proxy!Fields(t) : c[f] = d[f]
    BY TypesTreatTheirFields DEF Proxy!Compare
  <1> QED BY <1>1 DEF ConfigOf

(***************************************************************************)
(* The invariant.  What was loaded runs, or was refused by a check; what   *)
(* frps has was made from what runs now, for a reload that changes it      *)
(* registers the proxy anew.                                               *)
(***************************************************************************)
ProxyInv ==
  /\ type \in AllTypes
  /\ ConfigOf(type, section)
  /\ running # Proxy!Error => ConfigOf(type, running)
  /\ Proxy!ReloadRunsTheFile
  /\ remote # Proxy!Error =>
       /\ type \notin Proxy!Visitors
       /\ remote = Proxy!UnmarshalFromMsg(type, Proxy!MarshalToMsg(type, running))

LEMMA ProxyInit == Proxy!Init => ProxyInv
  <1> SUFFICES ASSUME Proxy!Init
               PROVE  ProxyInv
    OBVIOUS
  <1>1. ConfigOf(type, Proxy!Default(type))
    BY DEF ConfigOf, Proxy!Default
  <1>2. ConfigOf(type, section)
    BY <1>1 DEF ConfigOf, Proxy!Init
  <1> QED BY <1>2 DEF ProxyInv, Proxy!Init, Proxy!ReloadRunsTheFile, AllTypes

LEMMA ProxyStep == ProxyInv /\ [Proxy!Next]_proxyVars => ProxyInv'
  <1> SUFFICES ASSUME ProxyInv, [Proxy!Next]_proxyVars
               PROVE  ProxyInv'
    OBVIOUS
  <1>1. ASSUME NEW f \in Proxy!Fields(type), NEW v, Proxy!Edit(f, v)
        PROVE  ProxyInv'
    <2>1. UNCHANGED <<type, running, remote>> /\ proxyLoaded' = FALSE
      BY <1>1 DEF Proxy!Edit
    <2>2. ConfigOf(type, section')
      BY <1>1 DEF Proxy!Edit, ProxyInv, ConfigOf
    <2> QED BY <2>1, <2>2 DEF ProxyInv, Proxy!ReloadRunsTheFile
  <1>2. CASE Proxy!Reload
    <2> DEFINE c == Proxy!FromIni(type, section)
    <2>1. UNCHANGED <<type, section>> /\ c' = c
      BY <1>2 DEF Proxy!Reload
    <2>2. c # Proxy!Error => ConfigOf(type, c)
      BY FromIniIs DEF ProxyInv
    <2>3. CASE c = Proxy!Error \/ (running # Proxy!Error /\ Proxy!Compare(type, running, c))
      <3>1. UNCHANGED <<running, remote>>
        BY <1>2, <2>3 DEF Proxy!Reload
      <3>2. c # Proxy!Error => running = c
        BY <2>2, <2>3, CompareIs DEF ProxyInv
      <3> QED BY <2>1, <3>1, <3>2 DEF ProxyInv, Proxy!ReloadRunsTheFile
    <2>4. CASE ~(c = Proxy!Error \/ (running # Proxy!Error /\ Proxy!Compare(type, running, c)))
      <3>1. /\ running' = c
            /\ remote' = IF type \in Proxy!Visitors THEN Proxy!Error
                         ELSE Proxy!NewProxyConfFromMsg(type, Proxy!MarshalToMsg(type, c), server)
        BY <1>2, <2>4 DEF Proxy!Reload
      <3>2. remote' # Proxy!Error =>
              /\ type \notin Proxy!Visitors
              /\ remote' = Proxy!UnmarshalFromMsg(type, Proxy!MarshalToMsg(type, running'))
        BY <3>1 DEF Proxy!NewProxyConfFromMsg
      <3> HIDE DEF c
      <3>3. ConfigOf(type, running')
        BY <2>2, <2>4, <3>1
      <3>4. Proxy!ReloadRunsTheFile'
        BY <2>1, <3>1 DEF Proxy!ReloadRunsTheFile, c
      <3> QED BY <2>1, <3>2, <3>3, <3>4 DEF ProxyInv
    <2> QED BY <2>3, <2>4
  <1>3. CASE UNCHANGED proxyVars
    BY <1>3 DEF ProxyInv, proxyVars, Proxy!ReloadRunsTheFile
  <1> QED BY <1>1, <1>2, <1>3 DEF Proxy!Next

LEMMA ProxyInvariant == Spec => [](part = "proxy" => ProxyInv)
  <1> DEFINE Inv == part = "proxy" => ProxyInv
  <1>1. Init => Inv
    BY ProxyInit DEF Init
  <1>2. Inv /\ [Next]_vars => Inv'
    <2> SUFFICES ASSUME Inv, [Next]_vars, part' = "proxy"
                 PROVE  ProxyInv'
      OBVIOUS
    <2>1. part = "proxy" /\ [Proxy!Next]_proxyVars
      BY DEF Next, vars
    <2> QED BY <2>1, ProxyStep
  <1> QED BY <1>1, <1>2, PTL DEF Spec

\* What frpc runs after a reload of a valid file is what the file says, in every field of every
\* type: no Compare misses a change (pkg/config/proxy.go:326, 507-1018, visitor.go:107).
THEOREM ReloadsRunTheFile == Spec => []ReloadRunsTheFile
  <1>1. (part = "proxy" => ProxyInv) => ReloadRunsTheFile
    BY DEF ProxyInv, ReloadRunsTheFile
  <1> QED BY <1>1, ProxyInvariant, PTL

\* A proxy that frps accepted has the values that frpc runs with, in all fields that frps uses:
\* MarshalToMsg and UnmarshalFromMsg of no type lose one (pkg/config/proxy.go:384-402).
THEOREM NothingLostInNewProxy == Spec => []BothSidesAgree
  <1>1. ASSUME ProxyInv
        PROVE  Proxy!BothSidesAgree
    <2> SUFFICES ASSUME remote # Proxy!Error, NEW f \in Proxy!ServerUses(type)
                 PROVE  remote[f] = running[f]
      BY DEF Proxy!BothSidesAgree
    <2> DEFINE m == Proxy!MarshalToMsg(type, running)
    <2>1. /\ type \in AllTypes /\ type \notin Proxy!Visitors
          /\ remote = Proxy!UnmarshalFromMsg(type, m)
      BY <1>1 DEF ProxyInv
    <2>2. /\ f \in Proxy!Fields(type)
          /\ f \in Proxy!BaseMarshal \union Proxy!TypeConf(type).marshal
          /\ f \in Proxy!BaseUnmarshal \union Proxy!TypeConf(type).unmarshal
      BY <2>1, TypesTreatTheirFields
    <2>3. f \in DOMAIN m /\ m[f] = running[f]
      BY <2>2 DEF Proxy!MarshalToMsg
    <2> HIDE DEF m
    <2>4. remote[f] = m[f]
      BY <2>1, <2>2, <2>3 DEF Proxy!UnmarshalFromMsg
    <2> QED BY <2>3, <2>4
  <1>2. (part = "proxy" => ProxyInv) => BothSidesAgree
    BY <1>1 DEF BothSidesAgree
  <1> QED BY <1>2, ProxyInvariant, PTL
-----------------------------------------------------------------------------
(***************************************************************************)
(* Recursion over the natural numbers: what a step function says is a      *)
(* function, and what holds at 0 and is kept by each step holds of all.    *)
(***************************************************************************)
LEMMA Induction ==
  ASSUME NEW S \in SUBSET Nat, 0 \in S, \A n \in S : n + 1 \in S
  PROVE  S = Nat
  <1> SUFFICES ASSUME Nat \ S # {} PROVE FALSE
    OBVIOUS
  <1>1. PICK i \in Nat \ S : \A j \in Nat \ S : i <= j
    <2> DEFINE T == Nat \ S
    <2>1. T \in SUBSET Nat /\ T # {}
      OBVIOUS
    <2> HIDE DEF T
    <2>2. \E i \in T : \A j \in T : i <= j
      BY <2>1, Least
    <2> QED BY <2>2 DEF T
  <1>2. i # 0 /\ i - 1 \in Nat
    BY <1>1
  <1>3. i - 1 \in S
    BY <1>1, <1>2
  <1>4. (i - 1) + 1 \in S
    BY <1>3
  <1> QED BY <1>1, <1>2, <1>4

\* f follows the step function up to n.
Follows(f, n, b, step) == f[0] = b /\ \A i \in 0..(n - 1) : f[i + 1] = step[i][f[i]]

LEMMA FollowsAgree ==
  ASSUME NEW b, NEW step, NEW m \in Nat, NEW n \in Nat, m <= n, NEW f, NEW g,
         Follows(f, m, b, step), Follows(g, n, b, step)
  PROVE  \A i \in 0..m : f[i] = g[i]
  <1> DEFINE S == {i \in Nat : i <= m => f[i] = g[i]}
  <1>1. 0 \in S
    BY DEF Follows
  <1>2. ASSUME NEW i \in S
        PROVE  i + 1 \in S
    <2> SUFFICES ASSUME i + 1 <= m PROVE f[i + 1] = g[i + 1]
      BY <1>2
    <2>1. f[i] = g[i] /\ i \in 0..(m - 1) /\ i \in 0..(n - 1)
      BY <1>2
    <2> QED BY <2>1 DEF Follows
  <1>3. S = Nat
    <2> HIDE DEF S
    <2>1. S \in SUBSET Nat
      BY DEF S
    <2> QED BY <1>1, <1>2, <2>1, Induction
  <1> QED BY <1>3

\* f is the function into S that starts at b and goes on as step says.
Recurs(f, S, b, step) ==
  f \in [Nat -> S] /\ f[0] = b /\ \A n \in Nat : f[n + 1] = step[n][f[n]]

LEMMA Recursion ==
  ASSUME NEW S, NEW b \in S, NEW step \in [Nat -> [S -> S]]
  PROVE  \E f : Recurs(f, S, b, step)
  <1> DEFINE Up(n) == {f \in [0..n -> S] : Follows(f, n, b, step)}
             T == {n \in Nat : Up(n) # {}}
  <1>1. 0 \in T
    <2>1. [i \in 0..0 |-> b] \in Up(0)
      BY DEF Follows
    <2> QED BY <2>1
  <1>2. ASSUME NEW n \in T
        PROVE  n + 1 \in T
    <2>1. PICK f \in Up(n) : TRUE
      OBVIOUS
    <2> DEFINE g == [i \in 0..(n + 1) |-> IF i <= n THEN f[i] ELSE step[n][f[n]]]
    <2>2. f[n] \in S
      BY <2>1
    <2>3. step[n][f[n]] \in S
      BY <2>2
    <2>4. g \in [0..(n + 1) -> S]
      BY <2>1, <2>3
    <2>5. g[0] = b
      BY <2>1 DEF Follows
    <2>6. ASSUME NEW i \in 0..n
          PROVE  g[i + 1] = step[i][g[i]]
      <3>1. CASE i = n
        <4>1. n \in 0..(n + 1) /\ n <= n /\ n + 1 \in 0..(n + 1) /\ ~(n + 1 <= n)
          OBVIOUS
        <4>2. g[n] = f[n] /\ g[n + 1] = step[n][f[n]]
          BY <4>1
        <4> HIDE DEF g
        <4> QED BY <3>1, <4>2
      <3>2. CASE i # n
        <4>1. i \in 0..(n - 1) /\ i + 1 <= n
          BY <3>2
        <4> QED BY <2>1, <4>1 DEF Follows
      <3> QED BY <3>1, <3>2
    <2>7. Follows(g, n + 1, b, step)
      <3>1. (n + 1) - 1 = n
        OBVIOUS
      <3> QED BY <2>5, <2>6, <3>1 DEF Follows
    <2> QED BY <2>4, <2>7
  <1>3. T = Nat
    <2> HIDE DEF T
    <2>1. T \in SUBSET Nat
      BY DEF T
    <2> QED BY <1>1, <1>2, <2>1, Induction
  <1> DEFINE F == [n \in Nat |-> (CHOOSE f \in Up(n) : TRUE)[n]]
  <1>4. ASSUME NEW n \in Nat
        PROVE  (CHOOSE f \in Up(n) : TRUE) \in Up(n)
    BY <1>3
  <1>5. \A n \in Nat : F[n] \in S
    BY <1>4
  <1>6. F[0] = b
    BY <1>4 DEF Follows
  <1>7. ASSUME NEW n \in Nat
        PROVE  F[n + 1] = step[n][F[n]]
    <2> DEFINE f == CHOOSE x \in Up(n) : TRUE
               g == CHOOSE x \in Up(n + 1) : TRUE
    <2>1. n + 1 \in Nat
      OBVIOUS
    <2>2. F[n] = f[n] /\ F[n + 1] = g[n + 1]
      BY <2>1
    <2>3. f \in Up(n) /\ g \in Up(n + 1)
      BY <1>4, <2>1
    <2> HIDE DEF f, g, F
    <2>4. f[n] = g[n]
      BY <2>1, <2>3, FollowsAgree
    <2>5. g[n + 1] = step[n][g[n]]
      <3>1. n \in 0..((n + 1) - 1)
        OBVIOUS
      <3>2. Follows(g, n + 1, b, step)
        BY <2>3
      <3> QED BY <3>1, <3>2 DEF Follows
    <2>6. F[n + 1] = step[n][f[n]]
      BY <2>2, <2>4, <2>5
    <2> QED BY <2>2, <2>6
  <1>8. F \in [Nat -> S]
    BY <1>5
  <1> HIDE DEF F
  <1>9. Recurs(F, S, b, step)
    BY <1>6, <1>7, <1>8 DEF Recurs
  <1> QED BY <1>9
-----------------------------------------------------------------------------
(***************************************************************************)
(* The text of a range.  Parsed, it has its numbers in the order of the    *)
(* items: the number p of item k is at the place that Place counts.        *)
(***************************************************************************)
ItemsValid(items) == items \in Seq(Seq(Int)) /\ \A i \in DOMAIN items : File!ItemValid(items[i])

LEMMA NumbersAre ==
  ASSUME NEW item \in Seq(Int), File!ItemValid(item)
  PROVE  /\ File!Size(item) \in Nat
         /\ File!Numbers(item) \in Seq(Int) /\ Len(File!Numbers(item)) = File!Size(item)
         /\ \A i \in 1..File!Size(item) : File!Numbers(item)[i] = item[1] + i - 1
         /\ item[1] \in Int /\ item[Len(item)] = item[1] + File!Size(item) - 1
  <1>1. CASE Len(item) = 1
    <2>1. item \in [1..1 -> Int]
      BY <1>1
    <2>2. File!Size(item) = 1 /\ File!Numbers(item) = item
      BY <1>1 DEF File!Size, File!Numbers
    <2> QED BY <1>1, <2>1, <2>2
  <1>2. CASE Len(item) = 2 /\ item[1] <= item[2]
    <2> DEFINE n == item[2] - item[1] + 1
    <2>0. item \in [1..2 -> Int]
      BY <1>2
    <2>1. item[1] \in Int /\ item[2] \in Int /\ n \in Nat
      BY <1>2, <2>0
    <2>2. File!Size(item) = n /\ File!Numbers(item) = [i \in 1..n |-> item[1] + i - 1]
      BY <1>2 DEF File!Size, File!Numbers
    <2> HIDE DEF n
    <2>3. \A i \in 1..n : item[1] + i - 1 \in Int
      BY <2>1
    <2>4. /\ [i \in 1..n |-> item[1] + i - 1] \in Seq(Int)
          /\ Len([i \in 1..n |-> item[1] + i - 1]) = n
      BY <2>1, <2>3
    <2>5. item[2] = item[1] + n - 1
      BY <2>1 DEF n
    <2> QED BY <1>2, <2>1, <2>2, <2>4, <2>5
  <1> QED BY <1>1, <1>2 DEF File!ItemValid

\* Starts counts what is before an item.
LEMMA StartsAre ==
  ASSUME NEW items, ItemsValid(items)
  PROVE  /\ File!Starts(items) \in [0..Len(items) -> Nat]
         /\ File!Starts(items)[0] = 0
         /\ \A i \in 1..Len(items) :
              File!Starts(items)[i] = File!Starts(items)[i - 1] + File!Size(items[i])
  <1> DEFINE n == Len(items)
             size(i) == File!Size(items[i])
             Equation(g) == g = [i \in 0..n |-> IF i = 0 THEN 0 ELSE g[i - 1] + size(i)]
  <1>1. n \in Nat /\ DOMAIN items = 1..n
    BY DEF ItemsValid
  <1>2. \A i \in 1..n : size(i) \in Nat
    BY <1>1, NumbersAre DEF ItemsValid
  <1> HIDE DEF n, size
  <1>4. PICK step \in [Nat -> [Nat -> Nat]] :
          \A i, m \in Nat : step[i][m] = IF i + 1 \in 1..n THEN m + size(i + 1) ELSE 0
    <2> DEFINE s == [i \in Nat |-> [m \in Nat |-> IF i + 1 \in 1..n THEN m + size(i + 1) ELSE 0]]
    <2>1. s \in [Nat -> [Nat -> Nat]]
      BY <1>2
    <2> QED BY <2>1
  <1>5. PICK f : f \in [Nat -> Nat] /\ f[0] = 0 /\ \A i \in Nat : f[i + 1] = step[i][f[i]]
    <2>1. 0 \in Nat
      OBVIOUS
    <2>2. PICK f : Recurs(f, Nat, 0, step)
      BY <2>1, Recursion
    <2> QED BY <2>2 DEF Recurs
  <1>6. \A i \in 1..n : f[i] = f[i - 1] + size(i)
    <2> TAKE i \in 1..n
    <2>1. i - 1 \in Nat /\ (i - 1) + 1 = i
      BY <1>1
    <2>2. f[i] = step[i - 1][f[i - 1]]
      BY <1>5, <2>1
    <2>3. step[i - 1][f[i - 1]] = f[i - 1] + size(i)
      <3>1. f[i - 1] \in Nat
        BY <1>5, <2>1
      <3>2. step[i - 1][f[i - 1]] = IF (i - 1) + 1 \in 1..n THEN f[i - 1] + size((i - 1) + 1) ELSE 0
        BY <1>4, <2>1, <3>1
      <3> QED BY <2>1, <3>2
    <2> QED BY <2>2, <2>3
  <1> DEFINE g == [i \in 0..n |-> f[i]]
  <1>7. Equation(g)
    <2>1. ASSUME NEW i \in 0..n
          PROVE  g[i] = IF i = 0 THEN 0 ELSE g[i - 1] + size(i)
      <3>1. CASE i = 0
        BY <1>5, <3>1
      <3>2. CASE i # 0
        <4>1. i \in 1..n /\ i - 1 \in 0..n
          BY <1>1, <3>2
        <4> QED BY <1>6, <3>2, <4>1
      <3> QED BY <3>1, <3>2
    <2> QED BY <2>1
  <1>8. Equation(CHOOSE h : Equation(h))
    <2> HIDE DEF Equation, g
    <2>1. \E h : Equation(h)
      BY <1>7
    <2> QED BY <2>1
  <1>9. Equation(File!Starts(items))
    <2>1. File!Starts(items) = CHOOSE h : Equation(h)
      BY DEF File!Starts, n, size
    <2> HIDE DEF Equation
    <2> QED BY <1>8, <2>1
  <1> DEFINE st == File!Starts(items)
  <1> HIDE DEF st, g
  <1>10. st = [i \in 0..n |-> IF i = 0 THEN 0 ELSE st[i - 1] + size(i)]
    BY <1>9 DEF st
  <1>11. st[0] = 0 /\ \A i \in 1..n : st[i] = st[i - 1] + size(i)
    <2>1. 0 \in 0..n /\ \A i \in 1..n : i \in 0..n /\ i # 0
      BY <1>1
    <2> QED BY <1>10, <2>1
  <1>12. \A i \in Nat : i <= n => st[i] \in Nat
    <2> DEFINE T == {i \in Nat : i <= n => st[i] \in Nat}
    <2>1. 0 \in T
      BY <1>11
    <2>2. ASSUME NEW i \in T
          PROVE  i + 1 \in T
      <3> SUFFICES ASSUME i + 1 <= n PROVE st[i + 1] \in Nat
        OBVIOUS
      <3>1. i + 1 \in 1..n /\ (i + 1) - 1 = i /\ st[i] \in Nat
        BY <1>1
      <3>2. st[i + 1] = st[i] + size(i + 1)
        BY <1>11, <3>1
      <3>3. size(i + 1) \in Nat
        BY <1>2, <3>1
      <3>4. \A k, m \in Nat : k + m \in Nat
        OBVIOUS
      <3> HIDE DEF size
      <3> QED BY <3>1, <3>2, <3>3, <3>4
    <2> HIDE DEF T
    <2>3. T \in SUBSET Nat
      BY DEF T
    <2>4. T = Nat
      BY <2>1, <2>2, <2>3, Induction
    <2> QED BY <2>4 DEF T
  <1>13. st \in [0..n -> Nat]
    <2>1. \A i \in 0..n : st[i] \in Nat
      BY <1>1, <1>12
    <2> QED BY <1>10, <2>1
  <1> QED BY <1>11, <1>13 DEF st, n, size

\* FlattenSeq puts one after the other.
LEMMA FlattenIs ==
  ASSUME NEW S, NEW seqs \in Seq(Seq(S)), seqs # <<>>
  PROVE  \E flat \in [1..Len(seqs) -> Seq(S)] :
           /\ flat[1] = seqs[1]
           /\ \A i \in 2..Len(seqs) : flat[i] = flat[i - 1] \o seqs[i]
           /\ File!FlattenSeq(seqs) = flat[Len(seqs)]
  <1> DEFINE n == Len(seqs)
             Equation(g) == g = [i \in 1..n |-> IF i = 1 THEN seqs[i] ELSE g[i - 1] \o seqs[i]]
  <1>1. n \in Nat \ {0} /\ \A i \in 1..n : seqs[i] \in Seq(S)
    OBVIOUS
  <1>2. <<>> \in Seq(S) /\ \A s, t \in Seq(S) : s \o t \in Seq(S)
    OBVIOUS
  <1> HIDE DEF n
  <1>4. PICK step \in [Nat -> [Seq(S) -> Seq(S)]] :
          \A i \in Nat, t \in Seq(S) :
            step[i][t] = IF i + 1 \in 1..n THEN t \o seqs[i + 1] ELSE <<>>
    <2> DEFINE s == [i \in Nat |-> [t \in Seq(S) |-> IF i + 1 \in 1..n THEN t \o seqs[i + 1] ELSE <<>>]]
    <2>1. s \in [Nat -> [Seq(S) -> Seq(S)]]
      BY <1>1, <1>2
    <2> QED BY <2>1
  <1>5. PICK f :
          f \in [Nat -> Seq(S)] /\ f[0] = <<>> /\ \A i \in Nat : f[i + 1] = step[i][f[i]]
    <2>1. <<>> \in Seq(S)
      OBVIOUS
    <2>2. PICK f : Recurs(f, Seq(S), <<>>, step)
      BY <2>1, Recursion
    <2> QED BY <2>2 DEF Recurs
  <1>6. \A i \in 1..n : f[i] = f[i - 1] \o seqs[i]
    <2> TAKE i \in 1..n
    <2>1. i - 1 \in Nat /\ (i - 1) + 1 = i /\ f[i - 1] \in Seq(S)
      BY <1>1, <1>5
    <2>2. f[i] = step[i - 1][f[i - 1]]
      BY <1>5, <2>1
    <2>3. step[i - 1][f[i - 1]] = f[i - 1] \o seqs[i]
      BY <1>4, <2>1
    <2> QED BY <2>2, <2>3
  <1>7. f[1] = seqs[1]
    <2>1. 1 \in 1..n /\ seqs[1] \in Seq(S) /\ 1 - 1 = 0
      BY <1>1
    <2>2. <<>> \o seqs[1] = seqs[1]
      BY <2>1, ConcatEmptySeq
    <2> QED BY <1>5, <1>6, <2>1, <2>2
  <1> DEFINE g == [i \in 1..n |-> f[i]]
  <1>8. Equation(g)
    <2>1. ASSUME NEW i \in 1..n
          PROVE  g[i] = IF i = 1 THEN seqs[i] ELSE g[i - 1] \o seqs[i]
      <3>1. CASE i = 1
        BY <1>7, <3>1
      <3>2. CASE i # 1
        <4>1. i - 1 \in 1..n
          BY <1>1, <3>2
        <4> QED BY <1>6, <3>2, <4>1
      <3> QED BY <3>1, <3>2
    <2> QED BY <2>1
  <1> DEFINE h == CHOOSE x : Equation(x)
  <1>9. Equation(h)
    <2> HIDE DEF Equation, g
    <2>1. \E x : Equation(x)
      BY <1>8
    <2> QED BY <2>1
  <1>10. File!FlattenSeq(seqs) = h[n]
    BY <1>1 DEF File!FlattenSeq, n
  <1> HIDE DEF h, g
  <1>11. h[1] = seqs[1] /\ \A i \in 2..n : h[i] = h[i - 1] \o seqs[i]
    <2>1. 1 \in 1..n /\ \A i \in 2..n : i \in 1..n /\ i # 1
      BY <1>1
    <2> QED BY <1>9, <2>1
  <1>12. \A i \in Nat : i \in 1..n => h[i] \in Seq(S)
    <2> DEFINE T == {i \in Nat : i \in 1..n => h[i] \in Seq(S)}
    <2>1. 0 \in T
      BY <1>1
    <2>2. ASSUME NEW i \in T
          PROVE  i + 1 \in T
      <3> SUFFICES ASSUME i + 1 \in 1..n PROVE h[i + 1] \in Seq(S)
        OBVIOUS
      <3>1. CASE i = 0
        BY <1>1, <1>11, <3>1
      <3>2. CASE i # 0
        <4>1. i \in 1..n /\ i + 1 \in 2..n /\ i + 1 \in 1..n /\ (i + 1) - 1 = i
          BY <1>1, <3>2
        <4>2. h[i] \in Seq(S) /\ seqs[i + 1] \in Seq(S)
          BY <1>1, <4>1
        <4>3. h[i + 1] = h[i] \o seqs[i + 1]
          BY <1>11, <4>1
        <4> QED BY <1>2, <4>2, <4>3
      <3> QED BY <3>1, <3>2
    <2> HIDE DEF T
    <2>3. T \in SUBSET Nat
      BY DEF T
    <2>4. T = Nat
      BY <2>1, <2>2, <2>3, Induction
    <2> QED BY <2>4 DEF T
  <1>13. h \in [1..n -> Seq(S)]
    <2>1. \A i \in 1..n : h[i] \in Seq(S)
      BY <1>1, <1>12
    <2> QED BY <1>9, <2>1
  <1> QED BY <1>10, <1>11, <1>13 DEF n

\* What ParseRangeNumbers makes of items: number q of item j comes after those of the others.
LEMMA ParsedIs ==
  ASSUME NEW items, ItemsValid(items), items # <<>>
  PROVE  LET parsed == File!ParseRangeNumbers(items)
             st == File!Starts(items)
         IN /\ parsed \in Seq(Int) /\ Len(parsed) = st[Len(items)]
            /\ \A j \in 1..Len(items), q \in Nat : q \in 1..File!Size(items[j]) =>
                 st[j - 1] + q \in 1..Len(parsed) /\ parsed[st[j - 1] + q] = items[j][1] + q - 1
            /\ \A i \in 1..Len(parsed) :
                 \E j \in 1..Len(items) : \E q \in 1..File!Size(items[j]) : i = st[j - 1] + q
  <1> DEFINE n == Len(items)
             st == File!Starts(items)
             size(j) == File!Size(items[j])
             seqs == [i \in DOMAIN items |-> File!Numbers(items[i])]
  <1>1. n \in Nat \ {0} /\ DOMAIN items = 1..n
    BY DEF ItemsValid
  <1>2. \A j \in 1..n :
          /\ size(j) \in Nat /\ seqs[j] \in Seq(Int) /\ Len(seqs[j]) = size(j) /\ items[j][1] \in Int
          /\ \A q \in 1..size(j) : seqs[j][q] = items[j][1] + q - 1
    <2> TAKE j \in 1..n
    <2>1. items[j] \in Seq(Int) /\ File!ItemValid(items[j])
      BY <1>1, ElementOfSeq DEF ItemsValid
    <2>2. seqs[j] = File!Numbers(items[j])
      BY <1>1
    <2> QED BY <2>1, <2>2, NumbersAre
  <1>3. seqs \in Seq(Seq(Int)) /\ Len(seqs) = n
    <2>1. seqs = [i \in 1..n |-> File!Numbers(items[i])]
      BY <1>1
    <2>2. \A i \in 1..n : File!Numbers(items[i]) \in Seq(Int)
      BY <1>2, <2>1
    <2> HIDE DEF seqs, n
    <2> QED BY <1>1, <2>1, <2>2
  <1>4. st \in [0..n -> Nat] /\ st[0] = 0 /\ \A j \in 1..n : st[j] = st[j - 1] + size(j)
    BY StartsAre
  <1>5. File!ParseRangeNumbers(items) = File!FlattenSeq(seqs)
    BY DEF File!ParseRangeNumbers
  <1> HIDE DEF n, st, size, seqs
  <1>6. PICK flat \in [1..n -> Seq(Int)] :
          /\ flat[1] = seqs[1]
          /\ \A i \in 2..n : flat[i] = flat[i - 1] \o seqs[i]
          /\ File!FlattenSeq(seqs) = flat[n]
    <2>1. seqs # <<>>
      BY <1>1, <1>3
    <2> QED BY <1>3, <2>1, FlattenIs
  <1> DEFINE Hits(k) == \A j \in 1..k : \A q \in 1..size(j) :
                          st[j - 1] + q \in 1..st[k] /\ flat[k][st[j - 1] + q] = items[j][1] + q - 1
             Hit(k) == \A i \in 1..st[k] : \E j \in 1..k : \E q \in 1..size(j) : i = st[j - 1] + q
             Good(k) == flat[k] \in Seq(Int) /\ Len(flat[k]) = st[k] /\ Hits(k) /\ Hit(k)
             T == {k \in Nat : k + 1 \in 1..n => Good(k + 1)}
  <1>7. 0 \in T
    <2>1. flat[1] \in Seq(Int) /\ Len(flat[1]) = st[1] /\ st[1] = size(1) /\ st[1 - 1] = 0
      BY <1>1, <1>2, <1>4, <1>6
    <2>2. Hits(1)
      <3> SUFFICES ASSUME NEW q \in 1..size(1)
                   PROVE  st[1 - 1] + q \in 1..st[1] /\ flat[1][st[1 - 1] + q] = items[1][1] + q - 1
        OBVIOUS
      <3>1. st[1 - 1] + q = q /\ size(1) \in Nat
        BY <1>1, <1>2, <2>1
      <3>2. flat[1][q] = items[1][1] + q - 1
        BY <1>1, <1>2, <1>6
      <3> QED BY <2>1, <3>1, <3>2
    <2>3. Hit(1)
      <3> SUFFICES ASSUME NEW i \in 1..st[1]
                   PROVE  \E q \in 1..size(1) : i = st[1 - 1] + q
        OBVIOUS
      <3>1. i \in 1..size(1) /\ i = st[1 - 1] + i
        BY <2>1
      <3> QED BY <3>1
    <2>4. Good(1)
      BY <2>1, <2>2, <2>3
    <2>5. 0 + 1 = 1
      OBVIOUS
    <2> HIDE DEF Good
    <2> QED BY <2>4, <2>5
  <1>8. ASSUME NEW k \in T
        PROVE  k + 1 \in T
    <2> DEFINE c == k + 1
    <2>0. k \in Nat /\ c \in Nat
      OBVIOUS
    <2> SUFFICES ASSUME c + 1 \in 1..n PROVE Good(c + 1)
      OBVIOUS
    <2>1. c \in 1..n /\ c + 1 \in 2..n /\ (c + 1) - 1 = c /\ c \in 0..n /\ c + 1 \in 0..n
      BY <1>1, <2>0
    <2>2. Good(c)
      BY <2>1
    <2> HIDE DEF c, T
    <2>3. flat[c + 1] = flat[c] \o seqs[c + 1]
      BY <1>6, <2>1
    <2>4. seqs[c + 1] \in Seq(Int) /\ Len(seqs[c + 1]) = size(c + 1) /\ size(c + 1) \in Nat
      BY <1>2, <2>1
    <2>5. st[c + 1] = st[c] + size(c + 1) /\ st[c] \in Nat
      BY <1>4, <2>1
    <2>6. /\ flat[c + 1] \in Seq(Int) /\ Len(flat[c + 1]) = st[c + 1]
          /\ \A i \in 1..st[c + 1] :
               flat[c + 1][i] = IF i <= st[c] THEN flat[c][i] ELSE seqs[c + 1][i - st[c]]
      <3>1. flat[c] \in Seq(Int) /\ Len(flat[c]) = st[c]
        BY <2>2
      <3> DEFINE a == flat[c]
                 b == seqs[c + 1]
      <3>2. a \in Seq(Int) /\ b \in Seq(Int) /\ Len(a) = st[c] /\ Len(a) + Len(b) = st[c + 1]
        BY <2>4, <2>5, <3>1
      <3>3. flat[c + 1] = a \o b
        BY <2>3
      <3> HIDE DEF a, b
      <3>4. /\ a \o b \in Seq(Int) /\ Len(a \o b) = Len(a) + Len(b)
            /\ \A i \in 1..(Len(a) + Len(b)) :
                 (a \o b)[i] = IF i <= Len(a) THEN a[i] ELSE b[i - Len(a)]
        BY <3>2, ConcatProperties
      <3>5. /\ flat[c + 1] \in Seq(Int) /\ Len(flat[c + 1]) = st[c + 1]
            /\ \A i \in 1..st[c + 1] : flat[c + 1][i] = IF i <= st[c] THEN a[i] ELSE b[i - st[c]]
        BY <3>2, <3>3, <3>4
      <3> QED BY <3>5 DEF a, b
    <2>7. ASSUME NEW j \in 1..(c + 1), NEW q \in 1..size(j)
          PROVE  st[j - 1] + q \in 1..st[c + 1] /\ flat[c + 1][st[j - 1] + q] = items[j][1] + q - 1
      <3>1. CASE j = c + 1
        <4>1. q \in 1..size(c + 1) /\ st[j - 1] = st[c]
          BY <2>1, <3>1
        <4>2. st[c] + q \in 1..st[c + 1] /\ ~(st[c] + q <= st[c]) /\ (st[c] + q) - st[c] = q
          <5>1. q \in Nat /\ 1 <= q /\ q <= size(c + 1) /\ size(c + 1) \in Nat /\ st[c] \in Nat
            BY <2>4, <2>5, <4>1
          <5> HIDE DEF Good, size
          <5> QED BY <2>5, <5>1
        <4>3. flat[c + 1][st[c] + q] = seqs[c + 1][q]
          BY <2>6, <4>2
        <4>4. seqs[c + 1][q] = items[c + 1][1] + q - 1
          BY <1>2, <2>1, <4>1
        <4> QED BY <3>1, <4>1, <4>2, <4>3, <4>4
      <3>2. CASE j # c + 1
        <4>1. j \in 1..c
          BY <2>0, <3>2 DEF c
        <4>2. st[j - 1] + q \in 1..st[c] /\ flat[c][st[j - 1] + q] = items[j][1] + q - 1
          BY <2>2, <4>1
        <4>3. st[j - 1] + q \in 1..st[c + 1] /\ st[j - 1] + q <= st[c]
          BY <2>4, <2>5, <4>2
        <4> QED BY <2>6, <4>2, <4>3
      <3> QED BY <3>1, <3>2
    <2>8. ASSUME NEW i \in 1..st[c + 1]
          PROVE  \E j \in 1..(c + 1) : \E q \in 1..size(j) : i = st[j - 1] + q
      <3>1. CASE i <= st[c]
        <4>1. i \in 1..st[c]
          BY <2>4, <2>5, <3>1
        <4>2. PICK j \in 1..c : \E q \in 1..size(j) : i = st[j - 1] + q
          BY <2>2, <4>1
        <4>3. j \in 1..(c + 1)
          BY <2>1
        <4> QED BY <4>2, <4>3
      <3>2. CASE ~(i <= st[c])
        <4>1. i - st[c] \in 1..size(c + 1) /\ i = st[c] + (i - st[c])
          BY <2>4, <2>5, <3>2
        <4>2. c + 1 \in 1..(c + 1)
          BY <2>1
        <4>3. i = st[(c + 1) - 1] + (i - st[c])
          BY <2>1, <4>1
        <4> QED BY <4>1, <4>2, <4>3
      <3> QED BY <3>1, <3>2
    <2> QED BY <2>6, <2>7, <2>8
  <1>9. Good(n)
    <2> HIDE DEF T, Good
    <2>1. T \in SUBSET Nat
      BY DEF T
    <2>2. T = Nat
      BY <1>7, <1>8, <2>1, Induction
    <2>3. n - 1 \in T /\ (n - 1) + 1 \in 1..n /\ (n - 1) + 1 = n
      BY <1>1, <2>2
    <2> QED BY <2>3 DEF T
  <1>10. File!ParseRangeNumbers(items) = flat[n]
    BY <1>5, <1>6
  <1> HIDE DEF T
  <1>11. /\ flat[n] \in Seq(Int) /\ Len(flat[n]) = st[n]
         /\ \A j \in 1..n, q \in Nat : q \in 1..size(j) =>
              st[j - 1] + q \in 1..st[n] /\ flat[n][st[j - 1] + q] = items[j][1] + q - 1
         /\ \A i \in 1..st[n] : \E j \in 1..n : \E q \in 1..size(j) : i = st[j - 1] + q
    BY <1>9
  <1> QED BY <1>10, <1>11 DEF n, st, size

\* In terms of Place: every number of the text has its place, and every place its number.
LEMMA PlacesAre ==
  ASSUME NEW items, ItemsValid(items), items # <<>>
  PROVE  LET parsed == File!ParseRangeNumbers(items)
         IN /\ parsed \in Seq(Int) /\ Len(parsed) = File!Starts(items)[Len(items)]
            /\ \A k \in DOMAIN items : \A p \in items[k][1]..items[k][Len(items[k])] :
                 /\ File!Place(items, k, p) \in 0..(Len(parsed) - 1)
                 /\ parsed[File!Place(items, k, p) + 1] = p
            /\ \A i \in 0..(Len(parsed) - 1) : \E k \in DOMAIN items :
                 /\ File!Within(items[k], parsed[i + 1])
                 /\ File!Place(items, k, parsed[i + 1]) = i
  <1> DEFINE n == Len(items)
             st == File!Starts(items)
             parsed == File!ParseRangeNumbers(items)
  <1>1. n \in Nat /\ DOMAIN items = 1..n
    BY DEF ItemsValid
  <1>2. st \in [0..n -> Nat]
    BY StartsAre
  <1>3. \A j \in 1..n : /\ File!Size(items[j]) \in Nat /\ items[j][1] \in Int
                        /\ items[j][Len(items[j])] = items[j][1] + File!Size(items[j]) - 1
    <2> TAKE j \in 1..n
    <2>1. items[j] \in Seq(Int) /\ File!ItemValid(items[j])
      BY <1>1, ElementOfSeq DEF ItemsValid
    <2> QED BY <2>1, NumbersAre
  <1>4. /\ parsed \in Seq(Int) /\ Len(parsed) = st[n]
        /\ \A j \in 1..n, q \in Nat : q \in 1..File!Size(items[j]) =>
             st[j - 1] + q \in 1..Len(parsed) /\ parsed[st[j - 1] + q] = items[j][1] + q - 1
        /\ \A i \in 1..Len(parsed) :
             \E j \in 1..n : \E q \in 1..File!Size(items[j]) : i = st[j - 1] + q
    BY ParsedIs
  <1> HIDE DEF n, st, parsed
  <1>5. Len(parsed) \in Nat
    BY <1>4
  <1>6. ASSUME NEW k \in 1..n, NEW p \in items[k][1]..items[k][Len(items[k])]
        PROVE  /\ File!Place(items, k, p) \in 0..(Len(parsed) - 1)
               /\ parsed[File!Place(items, k, p) + 1] = p
    <2> DEFINE q == p - items[k][1] + 1
    <2>1. q \in Nat /\ q \in 1..File!Size(items[k]) /\ p = items[k][1] + q - 1
      BY <1>3
    <2>2. st[k - 1] \in Nat
      BY <1>1, <1>2
    <2>3. File!Place(items, k, p) = st[k - 1] + (p - items[k][1])
      BY DEF File!Place, st
    <2>4. File!Place(items, k, p) + 1 = st[k - 1] + q
      BY <1>3, <2>2, <2>3
    <2> HIDE DEF q
    <2>5. st[k - 1] + q \in 1..Len(parsed) /\ parsed[st[k - 1] + q] = p
      BY <1>4, <2>1
    <2>6. File!Place(items, k, p) \in Int
      BY <1>3, <2>2, <2>3
    <2> QED BY <1>5, <2>4, <2>5, <2>6
  <1>7. ASSUME NEW i \in 0..(Len(parsed) - 1)
        PROVE  \E k \in 1..n : /\ File!Within(items[k], parsed[i + 1])
                               /\ File!Place(items, k, parsed[i + 1]) = i
    <2>1. i + 1 \in 1..Len(parsed)
      BY <1>5
    <2>2. PICK k \in 1..n : \E q \in 1..File!Size(items[k]) : i + 1 = st[k - 1] + q
      BY <1>4, <2>1
    <2> PICK q \in 1..File!Size(items[k]) : i + 1 = st[k - 1] + q
      BY <2>2
    <2>3. q \in Nat /\ st[k - 1] \in Nat
      BY <1>1, <1>2, <1>3
    <2>4. parsed[i + 1] = items[k][1] + q - 1
      BY <1>4, <2>2, <2>3
    <2> DEFINE a == items[k][1]
               z == File!Size(items[k])
    <2>8. a \in Int /\ z \in Nat /\ q \in 1..z /\ items[k][Len(items[k])] = a + z - 1
      BY <1>3
    <2> HIDE DEF a, z
    <2>9. a + q - 1 \in a..(a + z - 1) /\ st[k - 1] + ((a + q - 1) - a) = st[k - 1] + q - 1
      BY <2>3, <2>8
    <2>5. File!Within(items[k], parsed[i + 1])
      BY <2>4, <2>8, <2>9 DEF File!Within, a
    <2>6. File!Place(items, k, parsed[i + 1]) = st[k - 1] + (parsed[i + 1] - items[k][1])
      BY DEF File!Place, st
    <2>7. File!Place(items, k, parsed[i + 1]) = i
      <3>1. File!Place(items, k, parsed[i + 1]) = st[k - 1] + q - 1
        BY <2>4, <2>6, <2>9 DEF a
      <3>2. i + 1 = st[k - 1] + q
        OBVIOUS
      <3> QED BY <2>3, <3>1, <3>2
    <2> QED BY <2>5, <2>7
  <1> QED BY <1>1, <1>4, <1>6, <1>7 DEF n, st, parsed
-----------------------------------------------------------------------------
(***************************************************************************)
(* What is loaded.  A section is the keys of some rows of the file, so its *)
(* name is a name's text and its ports are texts of numbers; the section   *)
(* of a generated proxy has one number for each of the two ports.          *)
(***************************************************************************)
LEMMA Greatest ==
  ASSUME NEW n \in Nat, NEW S \in SUBSET (1..n), S # {}
  PROVE  \E i \in S : \A j \in S : j <= i
  <1> DEFINE T == {n - i : i \in S}
  <1>1. T \in SUBSET Nat /\ T # {}
    <2>1. \A i \in S : n - i \in Nat
      <3> TAKE i \in S
      <3>1. i \in 1..n
        OBVIOUS
      <3> HIDE DEF T
      <3> QED BY <3>1
    <2> QED BY <2>1
  <1>2. PICK m \in T : \A j \in T : m <= j
    <2> HIDE DEF T
    <2> QED BY <1>1, Least
  <1>3. PICK i \in S : m = n - i
    OBVIOUS
  <1>4. \A j \in S : n - i <= n - j
    BY <1>2, <1>3
  <1>5. \A j \in S : j <= i
    BY <1>4
  <1> QED BY <1>5

PortKeys == {"local_port", "remote_port"}

LEMMA RowIs ==
  ASSUME NEW row \in File!Written
  PROVE  IF row.header THEN File!NameText(row.name)
         ELSE row.key \in PortKeys => row.value \in Seq(Seq(Int))
  BY FileTexts DEF File!Texts, PortKeys

LEMMA OwnerIs ==
  ASSUME NEW rows \in Seq(File!Written), NEW i \in DOMAIN rows
  PROVE  File!NameText(File!Owner(rows, i))
  <1> DEFINE above == {h \in 1..i : rows[h].header}
  <1>1. CASE above = {}
    BY <1>1 DEF File!Owner, File!NameText
  <1>2. CASE above # {}
    <2> DEFINE Top(h) == \A g \in above : g <= h
               h == CHOOSE x \in above : Top(x)
    <2>1. i \in Nat /\ above \in SUBSET (1..i)
      OBVIOUS
    <2>2. \E x \in above : Top(x)
      <3> HIDE DEF above
      <3> QED BY <1>2, <2>1, Greatest
    <2>3. h \in above
      <3> HIDE DEF above, Top
      <3> QED BY <2>2
    <2>4. h \in DOMAIN rows /\ rows[h].header
      BY <2>3
    <2>5. File!Owner(rows, i) = rows[h].name
      BY <1>2 DEF File!Owner
    <2> HIDE DEF h
    <2>6. rows[h] \in File!Written
      BY <2>4, ElementOfSeq
    <2> QED BY <2>4, <2>5, <2>6, RowIs
  <1> QED BY <1>1, <1>2

LEMMA KeysAre ==
  ASSUME NEW rows \in Seq(File!Written), NEW name, NEW k \in PortKeys,
         k \in DOMAIN File!Keys(rows, name)
  PROVE  File!Keys(rows, name)[k] \in Seq(Seq(Int))
  <1> DEFINE mine == {i \in DOMAIN rows : ~rows[i].header /\ File!Owner(rows, i) = name}
             Last(i) == rows[i].key = k /\ \A j \in mine : rows[j].key = k => j <= i
             c == CHOOSE i \in mine : Last(i)
  <1>1. k \in {rows[i].key : i \in mine} /\ File!Keys(rows, name)[k] = rows[c].value
    BY DEF File!Keys
  <1>2. \E i \in mine : Last(i)
    <2> DEFINE S == {i \in mine : rows[i].key = k}
    <2>1. Len(rows) \in Nat /\ S \in SUBSET (1..Len(rows)) /\ S # {}
      BY <1>1
    <2>2. \E i \in S : \A j \in S : j <= i
      <3> HIDE DEF S
      <3> QED BY <2>1, Greatest
    <2> QED BY <2>2
  <1>3. c \in mine /\ Last(c)
    <2> HIDE DEF mine, Last
    <2> QED BY <1>2
  <1>4. c \in DOMAIN rows /\ ~rows[c].header /\ rows[c].key = k
    BY <1>3
  <1> HIDE DEF c, mine, Last
  <1>5. rows[c] \in File!Written
    BY <1>4, ElementOfSeq
  <1> QED BY <1>1, <1>4, <1>5, RowIs

\* What a file is loaded to.
SectionsAre(sections) ==
  /\ sections = [n \in DOMAIN sections |-> sections[n]]
  /\ \A n \in DOMAIN sections :
       /\ File!NameText(n)
       /\ \A k \in PortKeys : k \in DOMAIN sections[n] => sections[n][k] \in Seq(Seq(Int))

LEMMA LoadIs ==
  ASSUME NEW rows \in Seq(File!Written)
  PROVE  SectionsAre(File!Load(rows))
  <1> DEFINE sections == File!Load(rows)
  <1>1. sections = [name \in {File!Owner(rows, i) : i \in DOMAIN rows} |-> File!Keys(rows, name)]
    BY DEF File!Load
  <1>2. ASSUME NEW n \in DOMAIN sections
        PROVE  /\ File!NameText(n)
               /\ \A k \in PortKeys : k \in DOMAIN sections[n] => sections[n][k] \in Seq(Seq(Int))
    <2>1. PICK i \in DOMAIN rows : n = File!Owner(rows, i)
      BY <1>1
    <2>2. sections[n] = File!Keys(rows, n)
      BY <1>1
    <2> QED BY <2>1, <2>2, OwnerIs, KeysAre
  <1>3. sections = [n \in DOMAIN sections |-> sections[n]]
    BY <1>1
  <1> QED BY <1>2, <1>3 DEF SectionsAre

\* The text and the file hold rows that there are, and what runs was loaded from one of them.
FileInv ==
  /\ file \in Seq(File!Written) /\ editor \in Seq(File!Written) /\ loadedOf \in Seq(File!Written)
  /\ loaded # File!Error =>
       loaded = File!LoadAllProxyConfsFromIni(loadedOf, File!Start(loadedOf))

LEMMA FlattenIn ==
  ASSUME NEW S, NEW seqs \in Seq(Seq(S))
  PROVE  File!FlattenSeq(seqs) \in Seq(S)
  <1>1. CASE seqs = <<>>
    <2>1. File!FlattenSeq(seqs) = <<>>
      BY <1>1 DEF File!FlattenSeq
    <2> QED BY <2>1
  <1>2. CASE seqs # <<>>
    <2>1. PICK flat \in [1..Len(seqs) -> Seq(S)] : File!FlattenSeq(seqs) = flat[Len(seqs)]
      BY <1>2, FlattenIs
    <2>2. Len(seqs) \in 1..Len(seqs)
      BY <1>2
    <2> QED BY <2>1, <2>2
  <1> QED BY <1>1, <1>2

LEMMA WithoutTokensIs ==
  ASSUME NEW S, NEW rows \in Seq(S)
  PROVE  File!WithoutTokens(rows) \in Seq(S)
  <1> DEFINE seqs == [i \in DOMAIN rows |-> IF File!IsToken(rows[i]) THEN <<>> ELSE <<rows[i]>>]
  <1>1. Len(rows) \in Nat /\ DOMAIN rows = 1..Len(rows) /\ \A i \in 1..Len(rows) : rows[i] \in S
    OBVIOUS
  <1>2. \A i \in 1..Len(rows) :
          (IF File!IsToken(rows[i]) THEN <<>> ELSE <<rows[i]>>) \in Seq(S)
    BY <1>1
  <1>3. seqs \in Seq(Seq(S))
    BY <1>1, <1>2
  <1>4. File!WithoutTokens(rows) = File!FlattenSeq(seqs)
    BY DEF File!WithoutTokens
  <1> HIDE DEF seqs
  <1> QED BY <1>3, <1>4, FlattenIn

LEMMA PutRowsIs ==
  ASSUME NEW S, NEW rows \in Seq(S), NEW body \in Seq(S)
  PROVE  File!PutRows(rows, body) \in Seq(S)
  <1> DEFINE plain == File!WithoutTokens(body)
             T == File!TokenRows(rows)
             m == File!Min(T)
             seqs == [i \in DOMAIN plain |->
                        IF plain[i] = File!CommonRow THEN <<plain[i], rows[m]>> ELSE <<plain[i]>>]
  <1>1. plain \in Seq(S)
    BY WithoutTokensIs
  <1>2. CASE T = {}
    BY <1>1, <1>2 DEF File!PutRows
  <1>3. CASE T # {}
    <2>1. T \in SUBSET Nat /\ T \subseteq DOMAIN rows
      BY DEF File!TokenRows
    <2>2. \E i \in T : \A j \in T : i <= j
      <3> HIDE DEF T
      <3> QED BY <1>3, <2>1, Least
    <2>3. m \in T
      <3> HIDE DEF T
      <3> QED BY <2>2 DEF File!Min
    <2>4. rows[m] \in S
      <3>1. m \in 1..Len(rows)
        BY <2>1, <2>3
      <3> HIDE DEF m
      <3> QED BY <3>1, ElementOfSeq
    <2>5. File!PutRows(rows, body) = File!FlattenSeq(seqs)
      BY <1>3 DEF File!PutRows
    <2> HIDE DEF plain, m, T
    <2>6. /\ Len(plain) \in Nat /\ DOMAIN plain = 1..Len(plain)
          /\ \A i \in 1..Len(plain) : plain[i] \in S
      BY <1>1
    <2>7. \A i \in 1..Len(plain) :
            (IF plain[i] = File!CommonRow THEN <<plain[i], rows[m]>> ELSE <<plain[i]>>) \in Seq(S)
      BY <2>4, <2>6
    <2>8. seqs \in Seq(Seq(S))
      BY <2>6, <2>7
    <2> HIDE DEF seqs
    <2> QED BY <2>5, <2>8, FlattenIn
  <1> QED BY <1>2, <1>3

LEMMA EditedIs ==
  ASSUME NEW S, NEW text \in Seq(S)
  PROVE  /\ \A i \in 1..(Len(text) + 1), r \in S : File!InsertAt(text, i, r) \in Seq(S)
         /\ \A i \in DOMAIN text : File!RemoveAt(text, i) \in Seq(S)
  <1> DEFINE n == Len(text)
  <1>1. n \in Nat /\ DOMAIN text = 1..n /\ \A i \in 1..n : text[i] \in S
    OBVIOUS
  <1>2. \A a, b \in Int : 1 <= a /\ b <= n => SubSeq(text, a, b) \in Seq(S)
    <2> TAKE a, b \in Int
    <2> HAVE 1 <= a /\ b <= n
    <2>1. \A i \in a..b : text[i] \in S
      BY <1>1
    <2> QED BY <2>1, SubSeqProperties
  <1> HIDE DEF n
  <1>3. ASSUME NEW i \in 1..(n + 1), NEW r \in S
        PROVE  File!InsertAt(text, i, r) \in Seq(S)
    <2>1. SubSeq(text, 1, i - 1) \in Seq(S) /\ SubSeq(text, i, n) \in Seq(S) /\ <<r>> \in Seq(S)
      BY <1>1, <1>2
    <2>2. SubSeq(text, 1, i - 1) \o <<r>> \in Seq(S)
      BY <2>1, ConcatProperties
    <2>3. (SubSeq(text, 1, i - 1) \o <<r>>) \o SubSeq(text, i, n) \in Seq(S)
      BY <2>1, <2>2, ConcatProperties
    <2> QED BY <2>3 DEF File!InsertAt, n
  <1>4. ASSUME NEW i \in 1..n
        PROVE  File!RemoveAt(text, i) \in Seq(S)
    <2>1. SubSeq(text, 1, i - 1) \in Seq(S) /\ SubSeq(text, i + 1, n) \in Seq(S)
      BY <1>1, <1>2
    <2>2. SubSeq(text, 1, i - 1) \o SubSeq(text, i + 1, n) \in Seq(S)
      BY <2>1, ConcatProperties
    <2> QED BY <2>2 DEF File!RemoveAt, n
  <1> QED BY <1>1, <1>3, <1>4 DEF n

LEMMA FileInit == File!Init => FileInv
  <1> SUFFICES ASSUME File!Init
               PROVE  FileInv
    OBVIOUS
  <1>1. file \in Seq(File!Written) /\ loadedOf = file
    BY FileTexts DEF File!Init, File!Texts
  <1>2. editor = <<>> /\ loaded = File!Error
    BY DEF File!Init
  <1> QED BY <1>1, <1>2 DEF FileInv

LEMMA FileStep == FileInv /\ [File!Next]_fileVars => FileInv'
  <1> SUFFICES ASSUME FileInv, [File!Next]_fileVars
               PROVE  FileInv'
    OBVIOUS
  <1> USE DEF FileInv
  <1>1. CASE File!apiGetConfig
    <2>1. editor' \in Seq(File!Written)
      BY <1>1, WithoutTokensIs DEF File!apiGetConfig
    <2> QED BY <1>1, <2>1 DEF File!apiGetConfig
  <1>2. CASE File!Edit
    <2>1. Rows \subseteq File!Written
      BY DEF File!Written
    <2>2. editor' \in Seq(File!Written)
      BY <1>2, <2>1, EditedIs DEF File!Edit
    <2> QED BY <1>2, <2>2 DEF File!Edit
  <1>3. CASE File!apiPutConfig
    <2>1. file' \in Seq(File!Written)
      BY <1>3, PutRowsIs DEF File!apiPutConfig
    <2>2. editor' = <<>>
      BY <1>3 DEF File!apiPutConfig
    <2> QED BY <1>3, <2>1, <2>2 DEF File!apiPutConfig
  <1>4. CASE File!apiReload
    BY <1>4 DEF File!apiReload
  <1>5. CASE UNCHANGED fileVars
    BY <1>5 DEF fileVars
  <1> QED BY <1>1, <1>2, <1>3, <1>4, <1>5 DEF File!Next

LEMMA FileInvariant == Spec => [](part = "file" => FileInv)
  <1> DEFINE Inv == part = "file" => FileInv
  <1>1. Init => Inv
    BY FileInit DEF Init
  <1>2. Inv /\ [Next]_vars => Inv'
    <2> SUFFICES ASSUME Inv, [Next]_vars, part' = "file"
                 PROVE  FileInv'
      OBVIOUS
    <2>1. part = "file" /\ [File!Next]_fileVars
      BY DEF Next, vars
    <2> QED BY <2>1, FileStep
  <1> QED BY <1>1, <1>2, PTL DEF Spec

LEMMA RangeIs ==
  ASSUME NEW sections, SectionsAre(sections), NEW n \in DOMAIN sections,
         File!IsRange(n), File!TemplateValid(sections[n])
  PROVE  LET local == sections[n]["local_port"]
             remotes == sections[n]["remote_port"]
         IN /\ n = <<"range:", n[2]>> /\ n[2] # "range:"
            /\ ItemsValid(local) /\ local # <<>>
            /\ ItemsValid(remotes) /\ remotes # <<>>
            /\ File!LocalPorts(sections[n]) = File!ParseRangeNumbers(local)
            /\ File!RemotePorts(sections[n]) = File!ParseRangeNumbers(remotes)
            /\ Len(File!LocalPorts(sections[n])) = Len(File!RemotePorts(sections[n]))
  <1>1. n = <<"range:", n[2]>> /\ n[2] # "range:"
    <2>1. File!NameText(n)
      BY DEF SectionsAre
    <2>2. n[1] = "range:"
      BY <2>1 DEF File!IsRange, File!NameText
    <2> QED BY <2>1, <2>2 DEF File!NameText
  <1>2. ASSUME NEW k \in PortKeys, File!RangeValid(File!Value(sections[n], k, <<>>))
        PROVE  /\ File!Value(sections[n], k, <<>>) = sections[n][k]
               /\ ItemsValid(sections[n][k]) /\ sections[n][k] # <<>>
    <2>1. k \in DOMAIN sections[n]
      BY <1>2 DEF File!Value, File!RangeValid
    <2>2. sections[n][k] \in Seq(Seq(Int))
      BY <2>1 DEF SectionsAre
    <2> QED BY <1>2, <2>1, <2>2 DEF File!Value, File!RangeValid, ItemsValid
  <1>3. "local_port" \in PortKeys /\ "remote_port" \in PortKeys
    BY DEF PortKeys
  <1>4. /\ File!RangeValid(File!Value(sections[n], "local_port", <<>>))
        /\ File!RangeValid(File!Value(sections[n], "remote_port", <<>>))
        /\ Len(File!LocalPorts(sections[n])) = Len(File!RemotePorts(sections[n]))
    BY DEF File!TemplateValid
  <1> QED BY <1>1, <1>2, <1>3, <1>4 DEF File!LocalPorts, File!RemotePorts

\* The names of the proxies of the ranges.
NewNames(sections) ==
  UNION {{<<n[2], i>> : i \in 0..(Len(File!LocalPorts(sections[n])) - 1)} :
           n \in {m \in DOMAIN sections : File!IsRange(m)}}

LEMMA NewNameIs ==
  ASSUME NEW sections, SectionsAre(sections),
         \A n \in DOMAIN sections : File!IsRange(n) => File!TemplateValid(sections[n]),
         NEW name
  PROVE  name \in NewNames(sections) <=>
           /\ name = <<name[1], name[2]>> /\ name[1] # "range:"
           /\ <<"range:", name[1]>> \in DOMAIN sections
           /\ name[2] \in 0..(Len(File!LocalPorts(sections[<<"range:", name[1]>>])) - 1)
  <1>1. ASSUME name \in NewNames(sections)
        PROVE  /\ name = <<name[1], name[2]>> /\ name[1] # "range:"
               /\ <<"range:", name[1]>> \in DOMAIN sections
               /\ name[2] \in 0..(Len(File!LocalPorts(sections[<<"range:", name[1]>>])) - 1)
    <2>1. PICK n \in {m \in DOMAIN sections : File!IsRange(m)} :
            name \in {<<n[2], i>> : i \in 0..(Len(File!LocalPorts(sections[n])) - 1)}
      BY <1>1 DEF NewNames
    <2>2. PICK i \in 0..(Len(File!LocalPorts(sections[n])) - 1) : name = <<n[2], i>>
      BY <2>1
    <2>3. n = <<"range:", n[2]>> /\ n[2] # "range:"
      BY RangeIs
    <2> QED BY <2>2, <2>3
  <1>2. ASSUME name = <<name[1], name[2]>>,
               <<"range:", name[1]>> \in DOMAIN sections,
               name[2] \in 0..(Len(File!LocalPorts(sections[<<"range:", name[1]>>])) - 1)
        PROVE  name \in NewNames(sections)
    <2> DEFINE n == <<"range:", name[1]>>
               of == {<<n[2], i>> : i \in 0..(Len(File!LocalPorts(sections[n])) - 1)}
    <2>1. n \in {m \in DOMAIN sections : File!IsRange(m)} /\ n[2] = name[1]
      BY <1>2 DEF File!IsRange
    <2>2. name \in of
      BY <1>2, <2>1
    <2> QED BY <2>1, <2>2 DEF NewNames
  <1> QED BY <1>1, <1>2

LEMMA RenderedIs ==
  ASSUME NEW sections, SectionsAre(sections),
         \A n \in DOMAIN sections : File!IsRange(n) => File!TemplateValid(sections[n])
  PROVE  LET rendered == File!Rendered(sections)
             Of(name) == sections[<<"range:", name[1]>>]
         IN /\ DOMAIN rendered = DOMAIN sections \union NewNames(sections)
            /\ \A n \in DOMAIN sections \ NewNames(sections) : rendered[n] = sections[n]
            /\ \A n \in NewNames(sections) :
                 /\ "local_port" \in DOMAIN rendered[n]
                 /\ rendered[n]["local_port"] = <<<<File!LocalPorts(Of(n))[n[2] + 1]>>>>
                 /\ "remote_port" \in DOMAIN rendered[n]
                 /\ rendered[n]["remote_port"] = <<<<File!RemotePorts(Of(n))[n[2] + 1]>>>>
  <1> DEFINE rendered == File!Rendered(sections)
             new == NewNames(sections)
             Old(n) == IF n \in DOMAIN sections THEN sections[n] ELSE <<>>
             Gen(n) == File!Generated(sections[<<"range:", n[1]>>], n[2])
  <1>1. rendered = [n \in DOMAIN sections \union new |->
                      IF n \in new THEN File!Over(Old(n), Gen(n)) ELSE sections[n]]
    BY DEF File!Rendered, NewNames
  <1>2. ASSUME NEW n \in new
        PROVE  /\ "local_port" \in DOMAIN Gen(n) /\ "remote_port" \in DOMAIN Gen(n)
               /\ Gen(n)["local_port"] =
                    <<<<File!LocalPorts(sections[<<"range:", n[1]>>])[n[2] + 1]>>>>
               /\ Gen(n)["remote_port"] =
                    <<<<File!RemotePorts(sections[<<"range:", n[1]>>])[n[2] + 1]>>>>
    BY DEF File!Generated, File!Over
  <1>3. ASSUME NEW old, NEW gen, NEW k \in DOMAIN gen
        PROVE  k \in DOMAIN File!Over(old, gen) /\ File!Over(old, gen)[k] = gen[k]
    BY DEF File!Over
  <1> HIDE DEF rendered, new, Old, Gen
  <1>4. ASSUME NEW n \in new, NEW k \in DOMAIN Gen(n)
        PROVE  k \in DOMAIN rendered[n] /\ rendered[n][k] = Gen(n)[k]
    <2>1. rendered[n] = File!Over(Old(n), Gen(n))
      BY <1>1
    <2> QED BY <1>3, <2>1
  <1>5. DOMAIN rendered = DOMAIN sections \union new
    BY <1>1
  <1>6. \A n \in DOMAIN sections \ new : rendered[n] = sections[n]
    BY <1>1
  <1>7. \A n \in new : /\ "local_port" \in DOMAIN rendered[n] /\ "remote_port" \in DOMAIN rendered[n]
                       /\ rendered[n]["local_port"] = Gen(n)["local_port"]
                       /\ rendered[n]["remote_port"] = Gen(n)["remote_port"]
    BY <1>2, <1>4
  <1> QED BY <1>2, <1>5, <1>6, <1>7 DEF rendered, new

LEMMA PortIs ==
  ASSUME NEW items
  PROVE  /\ \A x : items = <<<<x>>>> => File!Port(items) = x
         /\ File!Port(<<>>) = 0
         /\ items \in Seq(Seq(Int)) /\ File!Port(items) # 0 => items = <<<<File!Port(items)>>>>
  <1>1. ASSUME items \in Seq(Seq(Int)), File!Port(items) # 0
        PROVE  items = <<<<File!Port(items)>>>>
    <2>1. Len(items) = 1 /\ Len(items[1]) = 1 /\ File!Port(items) = items[1][1]
      BY <1>1 DEF File!Port
    <2>2. items[1] \in Seq(Int)
      BY <1>1, <2>1, ElementOfSeq
    <2>3. items[1] = <<items[1][1]>>
      BY <2>1, <2>2
    <2>4. items = <<items[1]>>
      BY <1>1, <2>1
    <2> QED BY <2>1, <2>3, <2>4
  <1> QED BY <1>1 DEF File!Port

LEMMA LoadedIsWritten == FileInv => File!LoadedAsWritten
  <1> SUFFICES ASSUME FileInv, loaded # File!Error
               PROVE  File!LoadedAsWritten
    BY DEF File!LoadedAsWritten
  <1> DEFINE sections == File!Load(loadedOf)
             start == File!Start(loadedOf)
             rendered == File!Rendered(sections)
             chosen == File!Chosen(rendered, start)
             proxies == {n \in chosen : File!Role(rendered[n]) = "server"}
             new == NewNames(sections)
             RangeName(n) == <<"range:", n[1]>>
             Local(n) == sections[n]["local_port"]
             Remote(n) == sections[n]["remote_port"]
             names == DOMAIN loaded.proxies \union loaded.visitors
             ranged == {n \in names :
                          /\ Len(n) = 2 /\ RangeName(n) \in DOMAIN sections
                          /\ n[2] < File!Starts(Local(RangeName(n)))[Len(Local(RangeName(n)))]}
  <1>1. SectionsAre(sections)
    BY LoadIs DEF FileInv
  <1>2. /\ \A n \in DOMAIN sections : File!IsRange(n) => File!TemplateValid(sections[n])
        /\ \A n \in chosen : File!SectionValid(rendered[n])
        /\ loaded = [proxies |-> [n \in proxies |-> File!ProxyOf(rendered[n])],
                     visitors |-> chosen \ proxies]
    BY DEF FileInv, File!LoadAllProxyConfsFromIni
  <1>3. /\ DOMAIN loaded.proxies = proxies /\ loaded.visitors = chosen \ proxies
        /\ \A n \in proxies : loaded.proxies[n] = File!ProxyOf(rendered[n])
        /\ names = chosen /\ proxies \subseteq chosen
    <2>1. DOMAIN loaded.proxies = proxies /\ loaded.visitors = chosen \ proxies
      BY <1>2
    <2>2. \A n \in proxies : loaded.proxies[n] = File!ProxyOf(rendered[n])
      BY <1>2
    <2> HIDE DEF chosen
    <2> QED BY <2>1, <2>2
  <1>4. /\ DOMAIN rendered = DOMAIN sections \union new
        /\ \A n \in DOMAIN sections \ new : rendered[n] = sections[n]
        /\ \A n \in new :
             /\ "local_port" \in DOMAIN rendered[n]
             /\ rendered[n]["local_port"] = <<<<File!LocalPorts(sections[RangeName(n)])[n[2] + 1]>>>>
             /\ "remote_port" \in DOMAIN rendered[n]
             /\ rendered[n]["remote_port"] = <<<<File!RemotePorts(sections[RangeName(n)])[n[2] + 1]>>>>
    BY <1>1, <1>2, RenderedIs
  <1>5. \A n \in DOMAIN rendered :
          n \in chosen <=> /\ n # <<"DEFAULT">> /\ n # File!Common /\ ~File!IsRange(n)
                           /\ (start = {} \/ n \in start)
    BY DEF File!Chosen
  <1>6. chosen \subseteq DOMAIN rendered
    BY DEF File!Chosen
  <1>7. \A n \in new : n # <<"DEFAULT">> /\ n # File!Common /\ ~File!IsRange(n)
    <2> TAKE n \in new
    <2>1. n = <<n[1], n[2]>> /\ n[1] # "range:"
      BY <1>1, <1>2, NewNameIs
    <2> QED BY <2>1 DEF File!Common, File!IsRange
  <1>8. \A n \in DOMAIN sections : File!NameText(n)
    BY <1>1 DEF SectionsAre
  <1>9. ASSUME NEW n \in DOMAIN sections, File!IsRange(n)
        PROVE  /\ n = <<"range:", n[2]>> /\ n[2] # "range:"
               /\ ItemsValid(Local(n)) /\ Local(n) # <<>>
               /\ ItemsValid(Remote(n)) /\ Remote(n) # <<>>
               /\ File!LocalPorts(sections[n]) = File!ParseRangeNumbers(Local(n))
               /\ File!RemotePorts(sections[n]) = File!ParseRangeNumbers(Remote(n))
               /\ Len(File!LocalPorts(sections[n])) = Len(File!RemotePorts(sections[n]))
    BY <1>1, <1>2, <1>9, RangeIs
  <1>10. \A name : name \in new <=>
           /\ name = <<name[1], name[2]>> /\ name[1] # "range:"
           /\ RangeName(name) \in DOMAIN sections
           /\ name[2] \in 0..(Len(File!LocalPorts(sections[RangeName(name)])) - 1)
    BY <1>1, <1>2, NewNameIs
  <1>11. \A name : RangeName(name) \in DOMAIN sections => File!IsRange(RangeName(name))
    BY DEF File!IsRange
  <1> HIDE DEF sections, start, rendered, chosen, proxies, new, names
  <1>12. ranged = new \intersect chosen
    <2>1. ASSUME NEW n \in names, RangeName(n) \in DOMAIN sections
          PROVE  /\ Len(File!LocalPorts(sections[RangeName(n)])) \in Nat
                 /\ File!Starts(Local(RangeName(n)))[Len(Local(RangeName(n)))]
                      = Len(File!LocalPorts(sections[RangeName(n)]))
      BY <1>9, <1>11, <2>1, PlacesAre
    <2>2. ASSUME NEW n \in new, n \in chosen
          PROVE  n \in ranged
      <3>1. /\ n = <<n[1], n[2]>> /\ RangeName(n) \in DOMAIN sections
            /\ n[2] \in 0..(Len(File!LocalPorts(sections[RangeName(n)])) - 1)
        BY <1>10
      <3>2. n \in names /\ Len(n) = 2
        BY <1>3, <2>2, <3>1
      <3> QED BY <2>1, <3>1, <3>2
    <2>3. ASSUME NEW n \in ranged
          PROVE  n \in new /\ n \in chosen
      <3>1. n \in chosen /\ n \in names /\ Len(n) = 2 /\ RangeName(n) \in DOMAIN sections
        BY <1>3
      <3>2. n[2] < Len(File!LocalPorts(sections[RangeName(n)]))
        BY <2>1, <3>1
      <3>3. CASE n \notin DOMAIN sections
        BY <1>4, <1>6, <3>1, <3>3
      <3>4. CASE n \in DOMAIN sections
        <4>1. File!NameText(n) /\ ~File!IsRange(n)
          BY <1>5, <1>6, <1>8, <3>1, <3>4
        <4>2. n[1] # "range:" /\ n = <<n[1], n[2]>> /\ n[2] \in Nat
          <5>1. n # <<n[1]>>
            BY <3>1
          <5>2. n # <<"range:", n[2]>>
            BY <4>1 DEF File!IsRange
          <5> QED BY <4>1, <5>1, <5>2 DEF File!NameText
        <4>3. n[2] \in 0..(Len(File!LocalPorts(sections[RangeName(n)])) - 1)
          BY <2>1, <3>1, <3>2, <4>2
        <4> QED BY <1>10, <3>1, <4>2, <4>3
      <3> QED BY <3>1, <3>3, <3>4
    <2> HIDE DEF ranged
    <2> QED BY <2>2, <2>3
  <1> HIDE DEF ranged
  \* Each number of a range has its proxy.
  <1>13. ASSUME NEW n \in DOMAIN sections, File!IsRange(n),
                NEW k \in DOMAIN Local(n), NEW p \in Local(n)[k][1]..Local(n)[k][Len(Local(n)[k])]
         PROVE  LET name == <<n[2], File!Place(Local(n), k, p)>>
                IN \/ start # {} /\ name \notin start
                   \/ name \in loaded.visitors
                   \/ name \in DOMAIN loaded.proxies /\ loaded.proxies[name].local = p
    <2> DEFINE i == File!Place(Local(n), k, p)
               name == <<n[2], i>>
               parsed == File!LocalPorts(sections[n])
    <2>1. /\ n = <<"range:", n[2]>> /\ n[2] # "range:"
          /\ i \in 0..(Len(parsed) - 1) /\ parsed[i + 1] = p
      BY <1>9, <1>13, PlacesAre
    <2> HIDE DEF i
    <2>2. name[1] = n[2] /\ name[2] = i /\ RangeName(name) = n
      BY <2>1
    <2>3. name \in new
      BY <1>10, <2>1, <2>2
    <2>4. /\ "local_port" \in DOMAIN rendered[name]
          /\ rendered[name]["local_port"] = <<<<p>>>>
      BY <1>4, <2>1, <2>2, <2>3
    <2>5. File!ProxyOf(rendered[name]).local = p
      BY <2>4, PortIs DEF File!ProxyOf, File!Value
    <2> HIDE DEF name
    <2>6. start = {} \/ name \in start => name \in chosen
      BY <1>4, <1>5, <1>7, <2>3
    <2> QED BY <1>3, <2>5, <2>6 DEF name, i
  \* Its remote port is the one of its place.
  <1>14. ASSUME NEW n \in ranged \intersect DOMAIN loaded.proxies
         PROVE  \E k \in DOMAIN Remote(RangeName(n)) :
                  /\ File!Within(Remote(RangeName(n))[k], loaded.proxies[n].remote)
                  /\ File!Place(Remote(RangeName(n)), k, loaded.proxies[n].remote) = n[2]
    <2> DEFINE parsed == File!RemotePorts(sections[RangeName(n)])
    <2>1. n \in new /\ n \in proxies
      BY <1>3, <1>12
    <2>2. /\ RangeName(n) \in DOMAIN sections /\ File!IsRange(RangeName(n))
          /\ n[2] \in 0..(Len(File!LocalPorts(sections[RangeName(n)])) - 1)
      BY <1>10, <1>11, <2>1
    <2>3. /\ ItemsValid(Remote(RangeName(n))) /\ Remote(RangeName(n)) # <<>>
          /\ parsed = File!ParseRangeNumbers(Remote(RangeName(n)))
          /\ n[2] \in 0..(Len(parsed) - 1)
      BY <1>9, <2>2
    <2>4. rendered[n]["remote_port"] = <<<<parsed[n[2] + 1]>>>> /\ "remote_port" \in DOMAIN rendered[n]
      BY <1>4, <2>1
    <2>5. loaded.proxies[n].remote = parsed[n[2] + 1]
      <3>1. File!Value(rendered[n], "remote_port", <<>>) = <<<<parsed[n[2] + 1]>>>>
        BY <2>4 DEF File!Value
      <3>2. File!ProxyOf(rendered[n]).remote = File!Port(File!Value(rendered[n], "remote_port", <<>>))
        BY DEF File!ProxyOf
      <3> HIDE DEF parsed
      <3> QED BY <1>3, <2>1, <3>1, <3>2, PortIs
    <2> QED BY <2>3, <2>5, PlacesAre
  \* The others are sections of the file.
  <1>15. names \ ranged \subseteq DOMAIN sections
    BY <1>3, <1>4, <1>6, <1>12
  <1>16. ASSUME NEW n \in DOMAIN loaded.proxies \ ranged
         PROVE  Local(n) = <<<<loaded.proxies[n].local>>>>
    <2>1. n \in proxies /\ n \in chosen /\ File!Role(rendered[n]) = "server"
      BY <1>3 DEF proxies
    <2>2. n \in DOMAIN sections /\ n \notin new /\ rendered[n] = sections[n]
      BY <1>4, <1>6, <1>12, <2>1
    <2> DEFINE items == File!Value(sections[n], "local_port", <<>>)
    <2>3. loaded.proxies[n].local = File!Port(items) /\ File!Port(items) > 0
      <3>1. File!SectionValid(sections[n]) /\ File!Role(sections[n]) # "visitor"
        BY <1>2, <2>1, <2>2
      <3>2. File!ProxyOf(sections[n]).local > 0
        BY <3>1 DEF File!SectionValid
      <3>3. File!ProxyOf(sections[n]).local = File!Port(items)
        BY DEF File!ProxyOf
      <3>4. loaded.proxies[n] = File!ProxyOf(sections[n])
        BY <1>3, <2>1, <2>2
      <3> HIDE DEF items
      <3> QED BY <3>2, <3>3, <3>4
    <2>4. "local_port" \in DOMAIN sections[n] /\ items = Local(n)
      BY <2>3, PortIs DEF File!Value
    <2>5. Local(n) \in Seq(Seq(Int))
      BY <1>1, <2>2, <2>4 DEF SectionsAre, PortKeys
    <2> QED BY <2>3, <2>4, <2>5, PortIs
  <1> QED BY <1>13, <1>14, <1>15, <1>16 DEF File!LoadedAsWritten, sections, start, names, ranged

\* Every number of a range has the proxy of its place, with the local and the remote port of
\* that place, whatever the rows of the file and their order; the other started sections are
\* loaded as they are written (pkg/config/client.go:234-414, pkg/util/util/util.go:70-110).
THEOREM FilesAreLoadedAsWritten == Spec => []LoadedAsWritten
  <1>1. (part = "file" => FileInv) => LoadedAsWritten
    BY LoadedIsWritten DEF LoadedAsWritten
  <1> QED BY <1>1, FileInvariant, PTL
=============================================================================
