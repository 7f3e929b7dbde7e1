----------------------------- MODULE MeshProofs -----------------------------
(***************************************************************************)
(* For every hull: what a mesh says after an update does not depend on     *)
(* what was done before; each part lies on its side of the surface; parts  *)
(* of a hull without holes are open along the surface only; both parts     *)
(* together are the hull again; each contour that is a loop is closed by   *)
(* one polygon, and a cut between the vertices leaves nothing but loops.   *)
(***************************************************************************)
EXTENDS MeshIntersection, HistoryLemmas

(* A list is a function on 1 .. n, for a natural number n. *)
IsList(s) == Len(s) \in Nat /\ s = [k \in 1 .. Len(s) |-> s[k]]

\* A function on 1 .. n is a list of length n.
LEMMA ListOfLength ==
  ASSUME NEW n \in Nat, NEW s, s = [k \in 1 .. n |-> s[k]]
  PROVE  IsList(s) /\ Len(s) = n
<1> DEFINE S == {s[k] : k \in 1 .. n}
<1>1. s \in [1 .. n -> S]
  OBVIOUS
<1>2. s \in Seq(S)
  BY <1>1, SeqDef
<1>3. Len(s) \in Nat /\ DOMAIN s = 1 .. Len(s) /\ DOMAIN s = 1 .. n
  BY <1>1, <1>2, LenProperties
<1>4. Len(s) = n
  BY <1>3
<1> QED
  BY <1>4 DEF IsList

\* Two lists joined are a list that starts with the first one.
LEMMA Joined ==
  ASSUME NEW s, NEW t, IsList(s), IsList(t)
  PROVE  /\ IsList(s \o t) /\ Len(s \o t) = Len(s) + Len(t)
         /\ SubSeq(s \o t, 1, Len(s)) = s
         /\ DOMAIN (s \o t) = 1 .. Len(s) + Len(t)
         /\ \A k \in 1 .. Len(s) + Len(t) :
              (s \o t)[k] = IF k <= Len(s) THEN s[k] ELSE t[k - Len(s)]
<1> DEFINE m == Len(s)
           n == Len(t)
           S == {s[k] : k \in 1 .. m} \union {t[k] : k \in 1 .. n}
           j == s \o t
<1>1. m \in Nat /\ n \in Nat /\ s \in [1 .. m -> S] /\ t \in [1 .. n -> S]
  BY DEF IsList
<1>2. s \in Seq(S) /\ t \in Seq(S)
  BY <1>1, SeqDef
<1>3. /\ j \in Seq(S) /\ Len(j) = m + n
      /\ \A k \in 1 .. m + n : j[k] = IF k <= m THEN s[k] ELSE t[k - m]
  BY <1>2, ConcatProperties
<1> HIDE DEF S, j
<1>4. IsList(j)
  <2>1. DOMAIN j = 1 .. Len(j) /\ Len(j) \in Nat /\ j = [k \in DOMAIN j |-> j[k]]
    BY <1>3, LenProperties, SeqDef
  <2> QED
    BY <2>1 DEF IsList
<1>5. SubSeq(j, 1, m) = s
  <2> DEFINE r == SubSeq(j, 1, m)
  <2>1. \A k \in 1 .. m : j[k] \in S
    BY <1>1, <1>3, ElementOfSeq
  <2>2. /\ r \in Seq(S) /\ Len(r) = IF 1 <= m THEN m - 1 + 1 ELSE 0
        /\ \A k \in 1 .. m - 1 + 1 : r[k] = j[1 + k - 1]
    BY <1>1, <2>1, SubSeqProperties
  <2> HIDE DEF r, m
  <2>3. Len(r) = m /\ Len(s) = m
    BY <1>1, <2>2 DEF m
  <2>4. \A k \in 1 .. m : r[k] = s[k]
    BY <1>1, <1>3, <2>2
  <2> QED
    BY <1>2, <2>2, <2>3, <2>4, SeqEqual
<1>6. DOMAIN j = 1 .. m + n
  BY <1>3, LenProperties
<1> QED
  BY <1>3, <1>4, <1>5, <1>6 DEF j

\* A list of n places has n of them.
LEMMA CountPlaces ==
  ASSUME NEW n \in Nat
  PROVE  Cardinality(1 .. n) = n
<1>1. Cardinality(1 .. n) = IF 1 > n THEN 0 ELSE n - 1 + 1
  BY FS_Interval
<1> QED
  BY <1>1

\* A subset of an interval has a number of members.
LEMMA IntervalSubset ==
  ASSUME NEW a \in Int, NEW b \in Int, NEW S \in SUBSET (a .. b)
  PROVE  IsFiniteSet(S) /\ Cardinality(S) \in Nat
BY FS_Interval, FS_Subset, FS_CardinalityType

\* The same for the places of a list.
LEMMA PlacesSubset ==
  ASSUME NEW b \in Nat, NEW S \in SUBSET (1 .. b)
  PROVE  IsFiniteSet(S) /\ Cardinality(S) \in Nat
<1>1. 1 \in Int /\ b \in Int
  OBVIOUS
<1> QED
  BY <1>1, IntervalSubset, Zenon

\* The members of a set of places are numbered by their ranks.
LEMMA Ranked ==
  ASSUME NEW n \in Nat, NEW S \in SUBSET (1 .. n)
  PROVE  /\ \A k \in 1 .. Cardinality(S) : Nth(S, k) \in S /\ RankIn(S, Nth(S, k)) = k
         /\ \A i \in S : RankIn(S, i) \in 1 .. Cardinality(S) /\ Nth(S, RankIn(S, i)) = i
<1> DEFINE c == Cardinality(S)
           below(i) == {j \in S : j <= i}
           rank == [i \in S |-> RankIn(S, i)]
<1>1. IsFiniteSet(S) /\ c \in Nat /\ \A i \in S : i \in Int
  BY PlacesSubset
<1>2. \A i \in S : RankIn(S, i) = Cardinality(below(i))
  BY DEF RankIn
<1>3. ASSUME NEW i \in S
      PROVE  RankIn(S, i) \in 1 .. c /\ IsFiniteSet(below(i)) /\ Cardinality(below(i)) \in Nat
  <2>1. below(i) \in SUBSET S /\ i \in below(i)
    BY <1>1
  <2> HIDE DEF below
  <2>2. IsFiniteSet(below(i)) /\ Cardinality(below(i)) <= c
    BY <1>1, <2>1, FS_Subset
  <2>3. Cardinality(below(i)) \in Nat /\ Cardinality(below(i)) # 0
    BY <2>1, <2>2, FS_CardinalityType, FS_EmptySet
  <2> QED
    BY <1>1, <1>2, <2>2, <2>3
<1>4. ASSUME NEW i \in S, NEW j \in S, i < j
      PROVE  RankIn(S, i) # RankIn(S, j)
  <2>1. below(i) \in SUBSET below(j) /\ j \in below(j) /\ j \notin below(i)
    <3>1. i \in Int /\ j \in Int /\ \A k \in S : k <= i => k <= j
      BY <1>1, <1>4
    <3>2. ~ (j <= i) /\ j <= j
      BY <1>4, <3>1
    <3> QED
      BY <3>1, <3>2
  <2>2. IsFiniteSet(below(j))
    BY <1>3
  <2> HIDE DEF below
  <2>3. Cardinality(below(i)) # Cardinality(below(j))
    BY <2>1, <2>2, FS_Subset
  <2> QED
    BY <1>2, <2>3
<1> HIDE DEF c, below
<1>5. \A i, j \in S : RankIn(S, i) = RankIn(S, j) => i = j
  <2>1. \A i, j \in S : i = j \/ i < j \/ j < i
    BY <1>1
  <2> QED
    BY <1>4, <2>1
<1>6. rank \in Injection(S, 1 .. c)
  BY <1>3, <1>5 DEF Injection, IsInjective
<1>7. IsFiniteSet(1 .. c) /\ Cardinality(1 .. c) = c
  BY <1>1, FS_Interval
<1>8. rank \in Surjection(S, 1 .. c)
  BY <1>6, <1>7, FS_Injection DEF c
<1>9. \A k \in 1 .. c : \E i \in S : RankIn(S, i) = k
  BY <1>8 DEF Surjection
<1>10. ASSUME NEW k \in 1 .. c
       PROVE  Nth(S, k) \in S /\ RankIn(S, Nth(S, k)) = k
  BY <1>9 DEF Nth
<1>11. ASSUME NEW i \in S
       PROVE  Nth(S, RankIn(S, i)) = i
  BY <1>3, <1>5, <1>10
<1> QED
  BY <1>3, <1>10, <1>11 DEF c

\* The mesh that MeshBuilder makes has lists of facets and of edges.
LEMMA BuiltHull ==
  ASSUME NEW h \in {Build(g) : g \in Hulls}
  PROVE  h.vertices \in Nat /\ IsList(h.facets) /\ IsList(h.edges)
<1>1. PICK g \in Hulls : h = Build(g)
  OBVIOUS
<1>2. /\ h.vertices = g.vertices /\ h.facets = g.facets /\ h.edges = EdgesOf(g.facets)
  BY <1>1 DEF Build
<1>3. h.vertices \in Nat /\ g.facets \in Seq([1 .. 3 -> 1 .. g.vertices])
  BY <1>2, HullAssumption
<1>4. IsList(g.facets)
  <2>1. Len(g.facets) \in Nat /\ DOMAIN g.facets = 1 .. Len(g.facets)
        /\ g.facets = [k \in DOMAIN g.facets |-> g.facets[k]]
    BY <1>3, LenProperties
  <2> QED
    BY <2>1 DEF IsList
<1>5. IsList(EdgesOf(g.facets))
  <2> DEFINE list == g.facets
             side(k) == Sides(list[(k - 1) \div 3 + 1])[((k - 1) % 3) + 1]
             new == {k \in 1 .. 3 * Len(list) : \A i \in 1 .. k - 1 : ~ SameEdge(side(i), side(k))}
             n == Cardinality(new)
  <2>1. EdgesOf(list) = [k \in 1 .. n |-> side(Nth(new, k))]
    BY DEF EdgesOf
  <2>2. 3 * Len(list) \in Nat
    BY <1>4 DEF IsList
  <2>3. n \in Nat
    <3>1. new \in SUBSET (1 .. 3 * Len(list))
      OBVIOUS
    <3> HIDE DEF new, list
    <3> QED
      BY <2>2, <3>1, PlacesSubset, Zenon
  <2> HIDE DEF n, new, side
  <2>4. EdgesOf(list) = [k \in 1 .. n |-> EdgesOf(list)[k]]
    BY <2>1
  <2> QED
    BY <2>3, <2>4, ListOfLength
<1> QED
  BY <1>2, <1>3, <1>4, <1>5

(***************************************************************************)
(* Hulls whose triangles have three vertices.  The side number k of a      *)
(* facet goes from its vertex k to the next one.                           *)
(***************************************************************************)
ProperHulls == \A g \in Hulls : \A f \in DOMAIN g.facets : IsInjective(g.facets[f])

NextPlace(k) == (k % 3) + 1
Side(list, f, k) == <<list[f][k], list[f][NextPlace(k)]>>

(* The oriented edge o goes from u to v. *)
Runs(edgeList, o, u, v) ==
  /\ o.edge \in DOMAIN edgeList
  /\ \/ o.reverse = FALSE /\ edgeList[o.edge] = <<u, v>>
     \/ o.reverse = TRUE /\ edgeList[o.edge] = <<v, u>>

\* Two pairs are the same edge if they have the same vertices.
LEMMA SameEdgePairs ==
  ASSUME NEW a, NEW b, NEW c, NEW d
  PROVE  SameEdge(<<a, b>>, <<c, d>>) <=> (a = c /\ b = d) \/ (a = d /\ b = c)
BY DEF SameEdge

\* A list of triangles.
LEMMA TrianglesType ==
  ASSUME NEW g \in Hulls
  PROVE  /\ g.vertices \in Nat
         /\ Len(g.facets) \in Nat /\ DOMAIN g.facets = 1 .. Len(g.facets)
         /\ \A f \in DOMAIN g.facets :
              /\ Len(g.facets[f]) = 3 /\ DOMAIN g.facets[f] = 1 .. 3
              /\ \A k \in 1 .. 3 : /\ NextPlace(k) \in 1 .. 3
                                   /\ g.facets[f][k] \in 1 .. g.vertices
                                   /\ Sides(g.facets[f])[k] = Side(g.facets, f, k)
              /\ DOMAIN Sides(g.facets[f]) = 1 .. 3
<1>1. g.vertices \in Nat /\ g.facets \in Seq([1 .. 3 -> 1 .. g.vertices])
  BY HullAssumption
<1>2. Len(g.facets) \in Nat /\ DOMAIN g.facets = 1 .. Len(g.facets)
  BY <1>1, LenProperties
<1>3. ASSUME NEW f \in DOMAIN g.facets
      PROVE  g.facets[f] \in [1 .. 3 -> 1 .. g.vertices]
  BY <1>1, <1>2, ElementOfSeq
<1>4. \A k \in 1 .. 3 : NextPlace(k) \in 1 .. 3
  BY DEF NextPlace
<1>5. ASSUME NEW f \in DOMAIN g.facets
      PROVE  /\ Len(g.facets[f]) = 3 /\ DOMAIN g.facets[f] = 1 .. 3
             /\ \A k \in 1 .. 3 : /\ g.facets[f][k] \in 1 .. g.vertices
                                  /\ Sides(g.facets[f])[k] = Side(g.facets, f, k)
             /\ DOMAIN Sides(g.facets[f]) = 1 .. 3
  <2> DEFINE t == g.facets[f]
  <2>1. t \in [1 .. 3 -> 1 .. g.vertices]
    BY <1>3
  <2>2. Len(t) = 3
    <3>1. t = [k \in 1 .. 3 |-> t[k]] /\ 3 \in Nat
      BY <2>1
    <3> HIDE DEF t
    <3> QED
      BY <3>1, ListOfLength
  <2>3. DOMAIN t = 1 .. 3
    BY <2>1
  <2>4. Sides(t) = [k \in 1 .. 3 |-> <<t[k], t[NextPlace(k)]>>]
    BY <2>2, <2>3 DEF Sides, NextPlace
  <2> QED
    BY <2>1, <2>2, <2>3, <2>4 DEF Side
<1> QED
  BY <1>1, <1>2, <1>4, <1>5

\* MeshBuilder: every side of a facet is an edge, stored once.
LEMMA EdgesList ==
  ASSUME NEW g \in Hulls
  PROVE  LET edgeList == EdgesOf(g.facets)
         IN  /\ Len(edgeList) \in Nat /\ DOMAIN edgeList = 1 .. Len(edgeList)
             /\ \A e \in DOMAIN edgeList :
                  \E f \in DOMAIN g.facets : \E k \in 1 .. 3 : edgeList[e] = Side(g.facets, f, k)
             /\ \A f \in DOMAIN g.facets : \A k \in 1 .. 3 :
                  \E e \in DOMAIN edgeList : SameEdge(edgeList[e], Side(g.facets, f, k))
             /\ \A e, d \in DOMAIN edgeList : SameEdge(edgeList[e], edgeList[d]) => e = d
<1> DEFINE list == g.facets
           N == Len(list)
           places == 1 .. 3 * N
           side(p) == Sides(list[(p - 1) \div 3 + 1])[((p - 1) % 3) + 1]
           new == {p \in places : \A i \in 1 .. p - 1 : ~ SameEdge(side(i), side(p))}
           c == Cardinality(new)
           edgeList == EdgesOf(list)
<1>1. N \in Nat /\ 3 * N \in Nat /\ DOMAIN list = 1 .. N
  BY TrianglesType
<1>2. edgeList = [n \in 1 .. c |-> side(Nth(new, n))]
  BY DEF EdgesOf
<1>3. new \in SUBSET places
  OBVIOUS
<1>4. c \in Nat
  <2> HIDE DEF new, N
  <2> QED
    BY <1>1, <1>3, PlacesSubset, Zenon
<1>5. /\ \A n \in 1 .. c : Nth(new, n) \in new /\ RankIn(new, Nth(new, n)) = n
      /\ \A p \in new : RankIn(new, p) \in 1 .. c /\ Nth(new, RankIn(new, p)) = p
  <2> HIDE DEF new, N
  <2> QED
    BY <1>1, <1>3, Ranked
<1>6. Len(edgeList) = c /\ DOMAIN edgeList = 1 .. c
  <2> HIDE DEF c, new, side
  <2>1. edgeList = [n \in 1 .. c |-> edgeList[n]]
    BY <1>2
  <2> QED
    BY <1>2, <1>4, <2>1, ListOfLength
<1>7. ASSUME NEW p \in places
      PROVE  /\ (p - 1) \div 3 + 1 \in 1 .. N /\ ((p - 1) % 3) + 1 \in 1 .. 3
             /\ side(p) = Side(list, (p - 1) \div 3 + 1, ((p - 1) % 3) + 1)
  <2>1. (p - 1) \div 3 + 1 \in 1 .. N /\ ((p - 1) % 3) + 1 \in 1 .. 3
    BY <1>1
  <2> QED
    BY <1>1, <2>1, TrianglesType
<1>8. ASSUME NEW f \in 1 .. N, NEW k \in 1 .. 3
      PROVE  \E p \in places : side(p) = Side(list, f, k)
  <2> DEFINE p == 3 * (f - 1) + k
  <2>1. p \in places /\ (p - 1) \div 3 + 1 = f /\ ((p - 1) % 3) + 1 = k
    BY <1>1
  <2> HIDE DEF p
  <2> QED
    BY <1>7, <2>1
<1> HIDE DEF side, c, N, edgeList, list
<1>9. \A e \in 1 .. c : \E f \in 1 .. N : \E k \in 1 .. 3 : edgeList[e] = Side(list, f, k)
  <2> SUFFICES ASSUME NEW e \in 1 .. c
               PROVE  \E f \in 1 .. N : \E k \in 1 .. 3 : edgeList[e] = Side(list, f, k)
    OBVIOUS
  <2>1. Nth(new, e) \in places /\ edgeList[e] = side(Nth(new, e))
    BY <1>2, <1>5
  <2> QED
    BY <1>7, <2>1
<1>10. \A p, q, r \in places : /\ SameEdge(side(p), side(q)) => SameEdge(side(q), side(p))
                               /\ SameEdge(side(p), side(q)) /\ SameEdge(side(q), side(r))
                                    => SameEdge(side(p), side(r))
                               /\ SameEdge(side(p), side(p))
  <2>1. \A p \in places : \E a, b : side(p) = <<a, b>>
    BY <1>7 DEF Side
  <2> HIDE DEF places
  <2> QED
    BY <2>1, SameEdgePairs
<1>11. ASSUME NEW p \in places
       PROVE  \E q \in new : SameEdge(side(q), side(p))
  <2> DEFINE same == {q \in places : SameEdge(side(q), side(p))}
  <2>1. same \in SUBSET Nat /\ same # {}
    BY <1>1, <1>10
  <2>2. PICK q \in same : \A r \in same : q <= r
    <3> HIDE DEF same
    <3> QED
      BY <2>1, LeastNatural
  <2>3. ASSUME NEW i \in 1 .. q - 1
        PROVE  ~ SameEdge(side(i), side(q))
    <3>1. i \in places /\ ~ (q <= i) /\ q \in places
      BY <1>1
    <3>2. i \notin same
      BY <2>2, <3>1
    <3> QED
      BY <1>10, <3>1, <3>2
  <2> QED
    BY <2>3
<1>12. ASSUME NEW f \in 1 .. N, NEW k \in 1 .. 3
       PROVE  \E e \in 1 .. c : SameEdge(edgeList[e], Side(list, f, k))
  <2>1. PICK p \in places : side(p) = Side(list, f, k)
    BY <1>8
  <2>2. PICK q \in new : SameEdge(side(q), side(p))
    BY <1>11
  <2> HIDE DEF new
  <2>3. RankIn(new, q) \in 1 .. c /\ edgeList[RankIn(new, q)] = side(q)
    BY <1>2, <1>5
  <2> QED
    BY <2>1, <2>2, <2>3
<1>13. ASSUME NEW e \in 1 .. c, NEW d \in 1 .. c, SameEdge(edgeList[e], edgeList[d])
       PROVE  e = d
  <2> DEFINE p == Nth(new, e)
             q == Nth(new, d)
  <2>1. /\ p \in new /\ q \in new /\ RankIn(new, p) = e /\ RankIn(new, q) = d
        /\ edgeList[e] = side(p) /\ edgeList[d] = side(q)
    BY <1>2, <1>5
  <2> HIDE DEF p, q
  <2>2. SameEdge(side(p), side(q)) /\ SameEdge(side(q), side(p))
    BY <1>10, <1>13, <2>1
  <2>3. p \in Int /\ q \in Int /\ ~ (p < q) /\ ~ (q < p)
    BY <1>1, <2>1, <2>2
  <2>4. p = q
    BY <2>3
  <2> QED
    BY <2>1, <2>4
<1> QED
  BY <1>1, <1>4, <1>6, <1>9, <1>12, <1>13 DEF edgeList, list

\* The oriented edges of a facet run along its sides, in their order.
LEMMA BuiltFacets ==
  ASSUME NEW h \in {Build(g) : g \in Hulls}, ProperHulls
  PROVE  /\ h.vertices \in Nat
         /\ Len(h.edges) \in Nat /\ DOMAIN h.edges = 1 .. Len(h.edges)
         /\ Len(h.facets) \in Nat /\ DOMAIN h.facets = 1 .. Len(h.facets)
         /\ \A f \in DOMAIN h.facets :
              /\ Len(h.oriented[f]) = 3 /\ DOMAIN h.oriented[f] = 1 .. 3
              /\ Len(h.facets[f]) = 3 /\ DOMAIN h.facets[f] = 1 .. 3
              /\ \A k \in 1 .. 3 :
                   /\ NextPlace(k) \in 1 .. 3
                   /\ h.facets[f][k] \in 1 .. h.vertices
                   /\ h.facets[f][k] # h.facets[f][NextPlace(k)]
                   /\ Runs(h.edges, h.oriented[f][k], h.facets[f][k], h.facets[f][NextPlace(k)])
                   /\ Sides(h.facets[f])[k] = Side(h.facets, f, k)
              /\ DOMAIN Sides(h.facets[f]) = 1 .. 3
         /\ \A e \in DOMAIN h.edges :
              \E f \in DOMAIN h.facets : \E k \in 1 .. 3 : h.edges[e] = Side(h.facets, f, k)
         /\ \A e, d \in DOMAIN h.edges : SameEdge(h.edges[e], h.edges[d]) => e = d
<1>1. PICK g \in Hulls : h = Build(g)
  OBVIOUS
<1>2. /\ h.vertices = g.vertices /\ h.facets = g.facets /\ h.edges = EdgesOf(g.facets)
      /\ h.oriented = [f \in DOMAIN g.facets |-> Oriented(EdgesOf(g.facets), g.facets[f])]
  BY <1>1 DEF Build
<1> DEFINE list == g.facets
           edgeList == EdgesOf(list)
<1>3. /\ g.vertices \in Nat /\ Len(list) \in Nat /\ DOMAIN list = 1 .. Len(list)
      /\ \A f \in DOMAIN list :
           /\ Len(list[f]) = 3 /\ DOMAIN list[f] = 1 .. 3
           /\ \A k \in 1 .. 3 : /\ NextPlace(k) \in 1 .. 3
                                /\ list[f][k] \in 1 .. g.vertices
                                /\ Sides(list[f])[k] = Side(list, f, k)
           /\ DOMAIN Sides(list[f]) = 1 .. 3
  BY TrianglesType
<1>4. /\ Len(edgeList) \in Nat /\ DOMAIN edgeList = 1 .. Len(edgeList)
      /\ \A e \in DOMAIN edgeList :
           \E f \in DOMAIN list : \E k \in 1 .. 3 : edgeList[e] = Side(list, f, k)
      /\ \A f \in DOMAIN list : \A k \in 1 .. 3 :
           \E e \in DOMAIN edgeList : SameEdge(edgeList[e], Side(list, f, k))
      /\ \A e, d \in DOMAIN edgeList : SameEdge(edgeList[e], edgeList[d]) => e = d
  BY EdgesList
<1> HIDE DEF list, edgeList
<1>5. \A f \in DOMAIN list : \A k \in 1 .. 3 : list[f][k] # list[f][NextPlace(k)]
  <2> SUFFICES ASSUME NEW f \in DOMAIN list, NEW k \in 1 .. 3
               PROVE  list[f][k] # list[f][NextPlace(k)]
    OBVIOUS
  <2>1. IsInjective(list[f])
    BY DEF ProperHulls, list
  <2>2. k # NextPlace(k)
    BY DEF NextPlace
  <2> QED
    BY <1>3, <2>1, <2>2 DEF IsInjective
<1>6. ASSUME NEW f \in DOMAIN list
      PROVE  /\ Len(h.oriented[f]) = 3 /\ DOMAIN h.oriented[f] = 1 .. 3
             /\ \A k \in 1 .. 3 :
                  Runs(edgeList, h.oriented[f][k], list[f][k], list[f][NextPlace(k)])
  <2> DEFINE o == Oriented(edgeList, list[f])
  <2>1. h.oriented[f] = o
    BY <1>2 DEF list, edgeList
  <2>2. o = [k \in 1 .. 3 |->
               LET side == Sides(list[f])[k]
                   e == CHOOSE e \in DOMAIN edgeList : SameEdge(edgeList[e], side)
               IN  [edge |-> e, reverse |-> edgeList[e][2] = side[1]]]
    BY <1>3 DEF Oriented
  <2>3. Len(o) = 3 /\ DOMAIN o = 1 .. 3
    <3>1. o = [k \in 1 .. 3 |-> o[k]] /\ 3 \in Nat
      BY <2>2
    <3>2. DOMAIN o = 1 .. 3
      BY <2>2
    <3> HIDE DEF o
    <3> QED
      BY <3>1, <3>2, ListOfLength
  <2>4. ASSUME NEW k \in 1 .. 3
        PROVE  Runs(edgeList, o[k], list[f][k], list[f][NextPlace(k)])
    <3> DEFINE u == list[f][k]
               v == list[f][NextPlace(k)]
               side == Sides(list[f])[k]
               e == CHOOSE d \in DOMAIN edgeList : SameEdge(edgeList[d], side)
    <3>1. side = <<u, v>> /\ u # v
      BY <1>3, <1>5 DEF Side
    <3>2. e \in DOMAIN edgeList /\ SameEdge(edgeList[e], <<u, v>>)
      <4> DEFINE s == Side(list, f, k)
      <4>0. side = s
        BY <1>3
      <4>1. \E d \in DOMAIN edgeList : SameEdge(edgeList[d], side)
        <5>1. \E d \in DOMAIN edgeList : SameEdge(edgeList[d], s)
          BY <1>4
        <5> HIDE DEF side, s
        <5> QED
          BY <4>0, <5>1
      <4>2. e \in DOMAIN edgeList /\ SameEdge(edgeList[e], side)
        <5> HIDE DEF side
        <5> QED
          BY <4>1
      <4> QED
        BY <3>1, <4>2
    <3>3. o[k] = [edge |-> e, reverse |-> edgeList[e][2] = side[1]]
      BY <2>2
    <3> HIDE DEF o, e, u, v, side
    <3>4. PICK a, b : edgeList[e] = <<a, b>>
      BY <1>4, <3>2 DEF Side
    <3>5. (a = u /\ b = v) \/ (a = v /\ b = u)
      BY <3>2, <3>4, SameEdgePairs
    <3>6. o[k].edge = e /\ o[k].reverse = (edgeList[e][2] = side[1])
      BY <3>3
    <3>7. edgeList[e][2] = b /\ side[1] = u
      BY <3>1, <3>4
    <3> SUFFICES Runs(edgeList, o[k], u, v)
      BY DEF u, v
    <3>8. CASE a = u /\ b = v
      <4>1. o[k].reverse = FALSE
        BY <3>1, <3>6, <3>7, <3>8
      <4>2. edgeList[o[k].edge] = <<u, v>> /\ o[k].edge \in DOMAIN edgeList
        BY <3>2, <3>4, <3>6, <3>8
      <4> QED
        BY <4>1, <4>2, Zenon DEF Runs
    <3>9. CASE a = v /\ b = u
      <4>1. o[k].reverse = TRUE
        BY <3>1, <3>6, <3>7, <3>9
      <4>2. edgeList[o[k].edge] = <<v, u>> /\ o[k].edge \in DOMAIN edgeList
        BY <3>2, <3>4, <3>6, <3>9
      <4> QED
        BY <4>1, <4>2, Zenon DEF Runs
    <3> QED
      BY <3>5, <3>8, <3>9
  <2> QED
    BY <2>1, <2>3, <2>4
<1>7. h.facets = list /\ h.edges = edgeList /\ h.vertices = g.vertices
  BY <1>2 DEF list, edgeList
<1>8. h.vertices \in Nat /\ Len(h.facets) \in Nat /\ DOMAIN h.facets = 1 .. Len(h.facets)
  BY <1>3, <1>7
<1>9. Len(h.edges) \in Nat /\ DOMAIN h.edges = 1 .. Len(h.edges)
  BY <1>4, <1>7
<1>10. /\ \A e \in DOMAIN h.edges :
            \E f \in DOMAIN h.facets : \E k \in 1 .. 3 : h.edges[e] = Side(h.facets, f, k)
       /\ \A e, d \in DOMAIN h.edges : SameEdge(h.edges[e], h.edges[d]) => e = d
  BY <1>4, <1>7
<1>11. ASSUME NEW f \in DOMAIN h.facets
       PROVE  /\ Len(h.oriented[f]) = 3 /\ DOMAIN h.oriented[f] = 1 .. 3
              /\ Len(h.facets[f]) = 3 /\ DOMAIN h.facets[f] = 1 .. 3
              /\ DOMAIN Sides(h.facets[f]) = 1 .. 3
  BY <1>3, <1>6, <1>7
<1>12. ASSUME NEW f \in DOMAIN h.facets, NEW k \in 1 .. 3
       PROVE  /\ NextPlace(k) \in 1 .. 3
              /\ h.facets[f][k] \in 1 .. h.vertices
              /\ h.facets[f][k] # h.facets[f][NextPlace(k)]
              /\ Runs(h.edges, h.oriented[f][k], h.facets[f][k], h.facets[f][NextPlace(k)])
              /\ Sides(h.facets[f])[k] = Side(h.facets, f, k)
  BY <1>3, <1>5, <1>6, <1>7
<1> QED
  BY <1>8, <1>9, <1>10, <1>11, <1>12

-----------------------------------------------------------------------------
(* Cutting edges.                                                           *)

StatusOf(h, zs, e) == Status(zs[h.edges[e][1]], zs[h.edges[e][2]])

(* The edges that are cut, and the node put on each of them. *)
Crossing(h, zs) == {e \in DOMAIN h.edges : Crosses(StatusOf(h, zs, e))}
NodeOf(h, zs, e) == h.vertices + RankIn(Crossing(h, zs), e)

(* An edge that is cut is replaced by its halves, on either side of its node. *)
HalvesOf(h, zs, cut, e) ==
  LET half == cut.half[e]
      node == NodeOf(h, zs, e)
  IN  /\ half \in DOMAIN cut.edges /\ half + 1 \in DOMAIN cut.edges
      /\ half \in Int /\ half > Len(h.edges)
      /\ cut.edges[half] = <<h.edges[e][1], node>>
      /\ cut.edges[half + 1] = <<node, h.edges[e][2]>>
      /\ cut.status[half] = HalfStatus(StatusOf(h, zs, e), 1)
      /\ cut.status[half + 1] = HalfStatus(StatusOf(h, zs, e), 2)
      /\ node \in Int /\ node > h.vertices /\ node <= Len(cut.z)
      /\ cut.z[node] = 0

(* The edges added are halves. *)
OnlyHalves(h, zs, cut) ==
  \A k \in 1 .. Len(cut.edges) - Len(h.edges) :
    \E e \in Crossing(h, zs) : Len(h.edges) + k \in {cut.half[e], cut.half[e] + 1}

\* find_intersection_with_free_surface: what is added to the edges, to their
\* status and to the immersions.
LEMMA CutEffect ==
  ASSUME NEW h \in {Build(g) : g \in Hulls}, ProperHulls,
         NEW zs \in [1 .. h.vertices -> Immersions]
  PROVE  LET cut == CutEdges(h, zs)
         IN  /\ IsList(cut.edges) /\ IsList(cut.z)
             /\ Len(cut.z) = h.vertices + Cardinality(Crossing(h, zs))
             /\ Cardinality(Crossing(h, zs)) \in Nat
             /\ DOMAIN h.edges \subseteq DOMAIN cut.edges
             /\ \A e \in DOMAIN h.edges : /\ cut.edges[e] = h.edges[e]
                                          /\ cut.status[e] = StatusOf(h, zs, e)
             /\ \A e \in Crossing(h, zs) : HalvesOf(h, zs, cut, e)
             /\ \A v \in 1 .. h.vertices : cut.z[v] = zs[v]
             /\ \A e, d \in Crossing(h, zs) : NodeOf(h, zs, e) = NodeOf(h, zs, d) => e = d
             /\ OnlyHalves(h, zs, cut)
             /\ \A v \in h.vertices + 1 .. Len(cut.z) :
                  \E e \in Crossing(h, zs) : v = NodeOf(h, zs, e)
<1> DEFINE cut == CutEdges(h, zs)
           m == Len(h.edges)
           status == [e \in DOMAIN h.edges |-> Status(zs[h.edges[e][1]], zs[h.edges[e][2]])]
           crossing == {e \in DOMAIN status : Crosses(status[e])}
           c == Cardinality(crossing)
           origin(k) == Nth(crossing, (k + 1) \div 2)
           node(k) == h.vertices + (k + 1) \div 2
           halfOf(k) == IF k % 2 = 1 THEN <<h.edges[origin(k)][1], node(k)>>
                                     ELSE <<node(k), h.edges[origin(k)][2]>>
           halves == [k \in 1 .. 2 * c |-> halfOf(k)]
           added == [k \in 1 .. 2 * c |-> HalfStatus(status[origin(k)], 2 - (k % 2))]
           zeroes == [k \in 1 .. c |-> 0]
<1>1. h.vertices \in Nat /\ m \in Nat /\ DOMAIN h.edges = 1 .. m /\ IsList(h.edges)
  BY BuiltHull, BuiltFacets
<1>2. /\ cut.edges = h.edges \o halves /\ cut.status = status \o added
      /\ cut.z = zs \o zeroes
      /\ cut.half = [e \in crossing |-> m + 2 * RankIn(crossing, e) - 1]
  <2>1. cut.edges = h.edges \o halves
    BY DEF CutEdges
  <2>2. cut.status = status \o added
    BY DEF CutEdges
  <2>3. cut.z = zs \o zeroes
    BY DEF CutEdges
  <2>4. cut.half = [e \in crossing |-> m + 2 * RankIn(crossing, e) - 1]
    BY DEF CutEdges
  <2> QED
    BY <2>1, <2>2, <2>3, <2>4
<1>3. crossing = Crossing(h, zs) /\ crossing \in SUBSET (1 .. m)
  BY <1>1 DEF Crossing, StatusOf
<1>4. \A e \in 1 .. m : status[e] = StatusOf(h, zs, e)
  BY <1>1 DEF StatusOf
<1>5. c \in Nat
  <2> HIDE DEF crossing
  <2> QED
    BY <1>1, <1>3, PlacesSubset, Zenon
<1>6. /\ \A k \in 1 .. c : Nth(crossing, k) \in crossing /\ RankIn(crossing, Nth(crossing, k)) = k
      /\ \A e \in crossing : RankIn(crossing, e) \in 1 .. c
                             /\ Nth(crossing, RankIn(crossing, e)) = e
  <2> HIDE DEF crossing
  <2> QED
    BY <1>1, <1>3, Ranked
<1> HIDE DEF crossing, c, origin, halfOf, m
<1>7. /\ IsList(halves) /\ Len(halves) = 2 * c /\ IsList(added) /\ Len(added) = 2 * c
      /\ IsList(zeroes) /\ Len(zeroes) = c
  <2> HIDE DEF status
  <2> DEFINE n == 2 * c
  <2>1. n \in Nat
    BY <1>5
  <2>2. halves = [k \in 1 .. n |-> halves[k]]
    BY Zenon
  <2>3. added = [k \in 1 .. n |-> added[k]]
    BY Zenon
  <2>4. zeroes = [k \in 1 .. c |-> zeroes[k]]
    BY Zenon
  <2> HIDE DEF halves, added, zeroes, n
  <2>5. /\ IsList(halves) /\ Len(halves) = n /\ IsList(added) /\ Len(added) = n
        /\ IsList(zeroes) /\ Len(zeroes) = c
    BY <1>5, <2>1, <2>2, <2>3, <2>4, ListOfLength
  <2> QED
    BY <2>5 DEF n
<1>8. IsList(status) /\ Len(status) = m
  <2>1. status = [k \in 1 .. m |-> status[k]]
    BY <1>1, Zenon
  <2> HIDE DEF status
  <2> QED
    BY <1>1, <2>1, ListOfLength
<1>9. IsList(zs) /\ Len(zs) = h.vertices
  BY <1>1, ListOfLength
<1> HIDE DEF status
<1>10. /\ \A k \in 1 .. 2 * c : halves[k] = halfOf(k)
       /\ \A k \in 1 .. 2 * c : added[k] = HalfStatus(status[origin(k)], 2 - (k % 2))
       /\ \A k \in 1 .. c : zeroes[k] = 0
  OBVIOUS
<1> HIDE DEF halves, added, zeroes, cut
<1>0. Len(h.edges) = m
  BY DEF m
<1>11. /\ IsList(cut.edges) /\ Len(cut.edges) = m + 2 * c /\ DOMAIN cut.edges = 1 .. m + 2 * c
       /\ \A k \in 1 .. m + 2 * c : cut.edges[k] = IF k <= m THEN h.edges[k] ELSE halves[k - m]
  <2> DEFINE j == h.edges \o halves
  <2>1. /\ IsList(j) /\ Len(j) = Len(h.edges) + Len(halves)
        /\ DOMAIN j = 1 .. Len(h.edges) + Len(halves)
        /\ \A k \in 1 .. Len(h.edges) + Len(halves) :
             j[k] = IF k <= Len(h.edges) THEN h.edges[k] ELSE halves[k - Len(h.edges)]
    BY <1>1, <1>7, Joined
  <2>2. cut.edges = j
    BY <1>2
  <2> HIDE DEF j
  <2> QED
    BY <1>0, <1>7, <2>1, <2>2
<1>12. \A k \in 1 .. m + 2 * c : cut.status[k] = IF k <= m THEN status[k] ELSE added[k - m]
  <2> DEFINE j == status \o added
  <2>1. \A k \in 1 .. Len(status) + Len(added) :
          j[k] = IF k <= Len(status) THEN status[k] ELSE added[k - Len(status)]
    BY <1>7, <1>8, Joined
  <2>2. cut.status = j
    BY <1>2
  <2> HIDE DEF j
  <2> QED
    BY <1>7, <1>8, <2>1, <2>2
<1>13. /\ IsList(cut.z) /\ Len(cut.z) = h.vertices + c
       /\ \A k \in 1 .. h.vertices + c :
            cut.z[k] = IF k <= h.vertices THEN zs[k] ELSE zeroes[k - h.vertices]
  <2> DEFINE j == zs \o zeroes
  <2>1. /\ IsList(j) /\ Len(j) = Len(zs) + Len(zeroes)
        /\ \A k \in 1 .. Len(zs) + Len(zeroes) :
             j[k] = IF k <= Len(zs) THEN zs[k] ELSE zeroes[k - Len(zs)]
    BY <1>7, <1>9, Joined
  <2>2. cut.z = j
    BY <1>2
  <2> HIDE DEF j
  <2> QED
    BY <1>7, <1>9, <2>1, <2>2
<1>14. \A e \in 1 .. m : cut.edges[e] = h.edges[e] /\ cut.status[e] = StatusOf(h, zs, e)
  <2> SUFFICES ASSUME NEW e \in 1 .. m
               PROVE  cut.edges[e] = h.edges[e] /\ cut.status[e] = StatusOf(h, zs, e)
    OBVIOUS
  <2>1. e \in 1 .. m + 2 * c /\ e <= m
    BY <1>1, <1>5
  <2> QED
    BY <1>4, <1>11, <1>12, <2>1
<1>15. ASSUME NEW e \in crossing
       PROVE  HalvesOf(h, zs, cut, e)
  <2> DEFINE r == RankIn(crossing, e)
             k == 2 * r - 1
             half == m + k
  <2>1. r \in 1 .. c /\ r \in Nat /\ Nth(crossing, r) = e
    BY <1>5, <1>6
  <2> HIDE DEF r
  <2>2. /\ k \in 1 .. 2 * c /\ k + 1 \in 1 .. 2 * c /\ k % 2 = 1 /\ (k + 1) % 2 = 0
        /\ (k + 1) \div 2 = r /\ (k + 1 + 1) \div 2 = r
    BY <1>5, <2>1
  <2>3. NodeOf(h, zs, e) = h.vertices + r
    BY <1>3 DEF NodeOf, r
  <2>4. cut.half[e] = half
    <3>1. half = m + 2 * r - 1
      BY <1>1, <2>1
    <3> QED
      BY <1>2, <3>1 DEF r
  <2> HIDE DEF k
  <2>5. /\ half \in Int /\ half > m /\ half - m = k /\ half + 1 - m = k + 1
        /\ half \in 1 .. m + 2 * c /\ half + 1 \in 1 .. m + 2 * c
        /\ ~ (half <= m) /\ ~ (half + 1 <= m)
    BY <1>1, <1>5, <2>2
  <2> HIDE DEF half
  <2>6. cut.edges[half] = halves[k] /\ cut.edges[half + 1] = halves[k + 1]
    <3>1. ASSUME NEW p \in 1 .. m + 2 * c, ~ (p <= m), NEW q, q = p - m
          PROVE  cut.edges[p] = halves[q]
      BY <1>11, <3>1
    <3>2. half \in 1 .. m + 2 * c /\ ~ (half <= m) /\ k = half - m
      BY <1>1, <1>5, <2>5
    <3> DEFINE half2 == half + 1
               k2 == k + 1
    <3>3. half2 \in 1 .. m + 2 * c /\ ~ (half2 <= m) /\ k2 = half2 - m
      BY <1>1, <1>5, <2>5
    <3> HIDE DEF half2, k2
    <3>4. cut.edges[half] = halves[k]
      BY <3>1, <3>2, Zenon
    <3>5. cut.edges[half2] = halves[k2]
      BY <3>1, <3>3, Zenon
    <3> QED
      BY <3>4, <3>5 DEF half2, k2
  <2>7. cut.status[half] = added[k] /\ cut.status[half + 1] = added[k + 1]
    <3>1. ASSUME NEW p \in 1 .. m + 2 * c, ~ (p <= m), NEW q, q = p - m
          PROVE  cut.status[p] = added[q]
      BY <1>12, <3>1
    <3>2. half \in 1 .. m + 2 * c /\ ~ (half <= m) /\ k = half - m
      BY <1>1, <1>5, <2>5
    <3> DEFINE half2 == half + 1
               k2 == k + 1
    <3>3. half2 \in 1 .. m + 2 * c /\ ~ (half2 <= m) /\ k2 = half2 - m
      BY <1>1, <1>5, <2>5
    <3> HIDE DEF half2, k2
    <3>4. cut.status[half] = added[k]
      BY <3>1, <3>2, Zenon
    <3>5. cut.status[half2] = added[k2]
      BY <3>1, <3>3, Zenon
    <3> QED
      BY <3>4, <3>5 DEF half2, k2
  <2>8. /\ halves[k] = <<h.edges[e][1], h.vertices + r>>
        /\ halves[k + 1] = <<h.vertices + r, h.edges[e][2]>>
    <3>1. halves[k] = halfOf(k) /\ halves[k + 1] = halfOf(k + 1)
      BY <1>10, <2>2
    <3>2. halfOf(k) = <<h.edges[e][1], h.vertices + r>>
      BY <2>1, <2>2 DEF halfOf, origin
    <3>3. ~ ((k + 1) % 2 = 1)
      BY <2>2
    <3>4. halfOf(k + 1) = <<h.vertices + r, h.edges[e][2]>>
      BY <2>1, <2>2, <3>3 DEF halfOf, origin
    <3> QED
      BY <3>1, <3>2, <3>4
  <2>9. /\ added[k] = HalfStatus(StatusOf(h, zs, e), 1)
        /\ added[k + 1] = HalfStatus(StatusOf(h, zs, e), 2)
    <3>1. e \in 1 .. m /\ status[e] = StatusOf(h, zs, e)
      BY <1>3, <1>4
    <3>2. 2 - (k % 2) = 1 /\ 2 - ((k + 1) % 2) = 2
      BY <2>2
    <3>3. origin(k) = e /\ origin(k + 1) = e
      BY <2>1, <2>2 DEF origin
    <3> QED
      BY <1>10, <2>2, <3>1, <3>2, <3>3
  <2>10. /\ h.vertices + r \in Int /\ h.vertices + r > h.vertices
         /\ h.vertices + r <= h.vertices + c
         /\ cut.z[h.vertices + r] = 0
    <3>1. /\ h.vertices + r \in 1 .. h.vertices + c /\ ~ (h.vertices + r <= h.vertices)
          /\ h.vertices + r - h.vertices = r /\ h.vertices + r > h.vertices
      BY <1>1, <1>5, <2>1
    <3>0. ASSUME NEW p \in 1 .. h.vertices + c, ~ (p <= h.vertices), NEW q, q = p - h.vertices
          PROVE  cut.z[p] = zeroes[q]
      BY <1>13, <3>0
    <3>2. cut.z[h.vertices + r] = zeroes[r]
      <4> DEFINE vertex == h.vertices + r
      <4>1. vertex \in 1 .. h.vertices + c /\ ~ (vertex <= h.vertices) /\ r = vertex - h.vertices
        BY <1>1, <2>1, <3>1
      <4> HIDE DEF vertex
      <4>2. cut.z[vertex] = zeroes[r]
        BY <3>0, <4>1, Zenon
      <4> QED
        BY <4>2 DEF vertex
    <3>3. zeroes[r] = 0
      BY <1>10, <2>1
    <3>4. cut.z[h.vertices + r] = 0
      BY <3>1, <3>2, <3>3
    <3>5. h.vertices + r \in Int /\ h.vertices + r <= h.vertices + c
      BY <1>1, <1>5, <2>1
    <3> QED
      BY <3>1, <3>4, <3>5
  <2>11. half \in DOMAIN cut.edges /\ half + 1 \in DOMAIN cut.edges
    BY <1>11, <2>5
  <2> DEFINE nd == NodeOf(h, zs, e)
  <2>12. nd \in Int /\ nd > h.vertices /\ nd <= Len(cut.z) /\ cut.z[nd] = 0
    <3>1. nd = h.vertices + r
      BY <2>3
    <3> HIDE DEF nd
    <3> QED
      BY <1>13, <2>10, <3>1
  <2>13. half \in Int /\ half > Len(h.edges)
    BY <1>0, <2>5
  <2>14. cut.edges[half] = <<h.edges[e][1], nd>> /\ cut.edges[half + 1] = <<nd, h.edges[e][2]>>
    BY <2>3, <2>6, <2>8
  <2>15. /\ cut.status[half] = HalfStatus(StatusOf(h, zs, e), 1)
         /\ cut.status[half + 1] = HalfStatus(StatusOf(h, zs, e), 2)
    BY <2>7, <2>9
  <2> HIDE DEF nd
  <2>16. /\ cut.half[e] \in DOMAIN cut.edges /\ cut.half[e] + 1 \in DOMAIN cut.edges
         /\ cut.half[e] \in Int /\ cut.half[e] > Len(h.edges)
         /\ cut.edges[cut.half[e]] = <<h.edges[e][1], nd>>
         /\ cut.edges[cut.half[e] + 1] = <<nd, h.edges[e][2]>>
         /\ cut.status[cut.half[e]] = HalfStatus(StatusOf(h, zs, e), 1)
         /\ cut.status[cut.half[e] + 1] = HalfStatus(StatusOf(h, zs, e), 2)
    BY <2>4, <2>11, <2>13, <2>14, <2>15
  <2> QED
    BY <2>12, <2>16 DEF HalvesOf, nd
<1>16. \A e, d \in crossing : NodeOf(h, zs, e) = NodeOf(h, zs, d) => e = d
  <2> SUFFICES ASSUME NEW e \in crossing, NEW d \in crossing, NodeOf(h, zs, e) = NodeOf(h, zs, d)
               PROVE  e = d
    OBVIOUS
  <2>1. h.vertices + RankIn(crossing, e) = h.vertices + RankIn(crossing, d)
    BY <1>3 DEF NodeOf
  <2>2. RankIn(crossing, e) \in Int /\ RankIn(crossing, d) \in Int
    BY <1>6
  <2>3. RankIn(crossing, e) = RankIn(crossing, d)
    BY <1>1, <2>1, <2>2
  <2> QED
    BY <1>6, <2>3
<1>17. ASSUME NEW k \in 1 .. Len(cut.edges) - m
       PROVE  \E e \in crossing : m + k = cut.half[e] \/ m + k = cut.half[e] + 1
  <2> DEFINE r == (k + 1) \div 2
  <2>1. r \in 1 .. c /\ (k = 2 * r - 1 \/ k = 2 * r)
    BY <1>1, <1>5, <1>11
  <2> HIDE DEF r
  <2>2. Nth(crossing, r) \in crossing /\ RankIn(crossing, Nth(crossing, r)) = r
    BY <1>6, <2>1
  <2>3. cut.half[Nth(crossing, r)] = m + 2 * r - 1
    BY <1>2, <2>2
  <2>4. m + k = m + 2 * r - 1 \/ m + k = m + 2 * r - 1 + 1
    BY <1>1, <2>1
  <2> QED
    BY <2>2, <2>3, <2>4
<1>18. ASSUME NEW v \in h.vertices + 1 .. Len(cut.z)
       PROVE  \E e \in crossing : v = NodeOf(h, zs, e)
  <2>1. v - h.vertices \in 1 .. c /\ v = h.vertices + (v - h.vertices)
    BY <1>1, <1>5, <1>13
  <2>2. /\ Nth(crossing, v - h.vertices) \in crossing
        /\ RankIn(crossing, Nth(crossing, v - h.vertices)) = v - h.vertices
    BY <1>6, <2>1
  <2> QED
    BY <1>3, <2>1, <2>2 DEF NodeOf
<1>19. \A v \in 1 .. h.vertices : cut.z[v] = zs[v]
  <2>1. \A v \in 1 .. h.vertices : v \in 1 .. h.vertices + c /\ v <= h.vertices
    BY <1>1, <1>5
  <2> QED
    BY <1>13, <2>1
<1>20. DOMAIN h.edges \subseteq DOMAIN cut.edges
  BY <1>1, <1>5, <1>11
<1>21. OnlyHalves(h, zs, cut)
  BY <1>3, <1>17 DEF OnlyHalves, m
<1> QED
  BY <1>1, <1>3, <1>5, <1>11, <1>13, <1>14, <1>15, <1>16, <1>18, <1>19, <1>20, <1>21
  DEF cut, c, m

(***************************************************************************)
(* Dealing the edges of a facet, in terms of the signs at their ends.  An   *)
(* oriented edge o that is cut has two legs, p then q.                      *)
(***************************************************************************)
CutBetween(x, y) == (x < 0 /\ y > 0) \/ (x > 0 /\ y < 0)

DealtBy(r, o, p, q, x, y) ==
  IF x = 0 /\ y = 0 THEN TouchBoth(r, o)
  ELSE IF x <= 0 /\ y <= 0 THEN PutEmerged(r, o)
  ELSE IF x >= 0 /\ y >= 0 THEN PutImmersed(r, o)
  ELSE PutHalves(r, o, p, q, x < 0)

FirstLeg(cut, o) ==
  [edge |-> IF o.reverse THEN cut.half[o.edge] + 1 ELSE cut.half[o.edge], reverse |-> o.reverse]
SecondLeg(cut, o) ==
  [edge |-> IF o.reverse THEN cut.half[o.edge] ELSE cut.half[o.edge] + 1, reverse |-> o.reverse]

(* The way from u to v along o, through node when it is cut. *)
Travels(edgeList, o, p, q, u, v, node, x, y) ==
  IF CutBetween(x, y) THEN Runs(edgeList, p, u, node) /\ Runs(edgeList, q, node, v)
                      ELSE Runs(edgeList, o, u, v)

(* The edges for which a facet is dealt. *)
Meets(s) == Crosses(s) \/ BothEndsTouch(s) \/ OneEndTouches(s)

\* The bits of the status say where the ends are.
LEMMA StatusTable ==
  ASSUME NEW x \in {-1, 0, 1}, NEW y \in {-1, 0, 1}
  PROVE  LET s == Status(x, y)
         IN  /\ BothEndsTouch(s) <=> x = 0 /\ y = 0
             /\ IsEmerged(s) <=> x <= 0 /\ y <= 0 /\ ~ (x = 0 /\ y = 0)
             /\ IsImmersed(s) <=> x >= 0 /\ y >= 0 /\ ~ (x = 0 /\ y = 0)
             /\ Crosses(s) <=> CutBetween(x, y)
             /\ OneEndTouches(s) <=> (x = 0 /\ y # 0) \/ (x # 0 /\ y = 0)
             /\ Crosses(s) => /\ IsEmerged(HalfStatus(s, 1)) <=> x < 0
                              /\ IsEmerged(HalfStatus(s, 2)) <=> y < 0
<1> USE DEF Status, BothEndsTouch, IsEmerged, IsImmersed, Crosses, OneEndTouches, CutBetween,
            HalfStatus
<1>1. CASE x = -1 /\ y = -1
  BY <1>1
<1>2. CASE x = -1 /\ y = 0
  BY <1>2
<1>3. CASE x = -1 /\ y = 1
  BY <1>3
<1>4. CASE x = 0 /\ y = -1
  BY <1>4
<1>5. CASE x = 0 /\ y = 0
  BY <1>5
<1>6. CASE x = 0 /\ y = 1
  BY <1>6
<1>7. CASE x = 1 /\ y = -1
  BY <1>7
<1>8. CASE x = 1 /\ y = 0
  BY <1>8
<1>9. CASE x = 1 /\ y = 1
  BY <1>9
<1> QED
  BY <1>1, <1>2, <1>3, <1>4, <1>5, <1>6, <1>7, <1>8, <1>9

\* Each turn of split_partially_immersed_facet_and_classify does what the signs
\* at the ends of its edge say, and the legs of an edge that is cut lead from
\* one end to the node and from there to the other end.
LEMMA DealBySigns ==
  ASSUME NEW h \in {Build(g) : g \in Hulls}, ProperHulls,
         NEW zs \in [1 .. h.vertices -> Immersions],
         NEW f \in DOMAIN h.facets, NEW k \in 1 .. 3
  PROVE  LET cut == CutEdges(h, zs)
             o == h.oriented[f][k]
             u == h.facets[f][k]
             v == h.facets[f][NextPlace(k)]
             p == FirstLeg(cut, o)
             q == SecondLeg(cut, o)
         IN  /\ \A r : Deal(r, o, cut.status, cut.half) = DealtBy(r, o, p, q, zs[u], zs[v])
             /\ Travels(cut.edges, o, p, q, u, v, NodeOf(h, zs, o.edge), zs[u], zs[v])
             /\ o.edge \in Crossing(h, zs) <=> CutBetween(zs[u], zs[v])
             /\ BothEndsTouch(cut.status[o.edge]) <=> zs[u] = 0 /\ zs[v] = 0
             /\ IsEmerged(cut.status[o.edge]) <=>
                  zs[u] <= 0 /\ zs[v] <= 0 /\ ~ (zs[u] = 0 /\ zs[v] = 0)
             /\ Meets(cut.status[o.edge]) <=>
                  ~ (zs[u] < 0 /\ zs[v] < 0) /\ ~ (zs[u] > 0 /\ zs[v] > 0)
<1> DEFINE cut == CutEdges(h, zs)
           o == h.oriented[f][k]
           u == h.facets[f][k]
           v == h.facets[f][NextPlace(k)]
           p == FirstLeg(cut, o)
           q == SecondLeg(cut, o)
           e == o.edge
           s == StatusOf(h, zs, e)
           half == cut.half[e]
           node == NodeOf(h, zs, e)
           x == zs[u]
           y == zs[v]
<1>1. /\ u \in 1 .. h.vertices /\ v \in 1 .. h.vertices
      /\ Runs(h.edges, o, u, v)
  BY BuiltFacets
<1> HIDE DEF o, u, v
<1>2. x \in {-1, 0, 1} /\ y \in {-1, 0, 1}
  <2>1. x \in Immersions /\ y \in Immersions
    BY <1>1
  <2> QED
    BY <2>1, HullAssumption
<1>3. e \in DOMAIN h.edges /\ cut.edges[e] = h.edges[e] /\ cut.status[e] = s
      /\ e \in DOMAIN cut.edges
  <2>1. e \in DOMAIN h.edges
    BY <1>1, Zenon DEF Runs
  <2>2. DOMAIN h.edges \subseteq DOMAIN cut.edges
    BY CutEffect
  <2>3. cut.edges[e] = h.edges[e] /\ cut.status[e] = s
    <3> HIDE DEF e
    <3> QED
      BY <2>1, CutEffect
  <2> QED
    BY <2>1, <2>2, <2>3
<1>4. e \in Crossing(h, zs) <=> Crosses(s)
  BY <1>3 DEF Crossing
<1>5. ASSUME Crosses(s)
      PROVE  /\ half \in DOMAIN cut.edges /\ half + 1 \in DOMAIN cut.edges
             /\ half \in Int /\ half > Len(h.edges)
             /\ cut.edges[half] = <<h.edges[e][1], node>>
             /\ cut.edges[half + 1] = <<node, h.edges[e][2]>>
             /\ cut.status[half] = HalfStatus(s, 1)
             /\ cut.status[half + 1] = HalfStatus(s, 2)
  <2>1. HalvesOf(h, zs, cut, e)
    BY <1>4, <1>5, CutEffect
  <2> HIDE DEF cut, e
  <2> QED
    BY <2>1, Zenon DEF HalvesOf
<1>6. \/ o.reverse = FALSE /\ h.edges[e] = <<u, v>>
      \/ o.reverse = TRUE /\ h.edges[e] = <<v, u>>
  BY <1>1, Zenon DEF Runs
<1>0. /\ p = [edge |-> IF o.reverse THEN half + 1 ELSE half, reverse |-> o.reverse]
      /\ q = [edge |-> IF o.reverse THEN half ELSE half + 1, reverse |-> o.reverse]
  BY DEF FirstLeg, SecondLeg
<1> HIDE DEF cut, s, half, node, x, y, e, p, q
<1>7. ASSUME o.reverse = FALSE, h.edges[e] = <<u, v>>
      PROVE  /\ s = Status(x, y)
             /\ p = [edge |-> half, reverse |-> FALSE] /\ p.edge = half /\ p.reverse = FALSE
             /\ q = [edge |-> half + 1, reverse |-> FALSE]
             /\ q.edge = half + 1 /\ q.reverse = FALSE
  <2>1. s = Status(x, y)
    BY <1>7 DEF s, StatusOf, x, y
  <2>2. p = [edge |-> half, reverse |-> FALSE] /\ q = [edge |-> half + 1, reverse |-> FALSE]
    BY <1>0, <1>7
  <2> QED
    BY <2>1, <2>2
<1>8. ASSUME o.reverse = TRUE, h.edges[e] = <<v, u>>
      PROVE  /\ s = Status(y, x)
             /\ p = [edge |-> half + 1, reverse |-> TRUE]
             /\ p.edge = half + 1 /\ p.reverse = TRUE
             /\ q = [edge |-> half, reverse |-> TRUE] /\ q.edge = half /\ q.reverse = TRUE
  <2>1. s = Status(y, x)
    BY <1>8 DEF s, StatusOf, x, y
  <2>2. p = [edge |-> half + 1, reverse |-> TRUE] /\ q = [edge |-> half, reverse |-> TRUE]
    BY <1>0, <1>8
  <2> QED
    BY <2>1, <2>2
<1>9. /\ BothEndsTouch(s) <=> x = 0 /\ y = 0
      /\ IsEmerged(s) <=> x <= 0 /\ y <= 0 /\ ~ (x = 0 /\ y = 0)
      /\ IsImmersed(s) <=> x >= 0 /\ y >= 0 /\ ~ (x = 0 /\ y = 0)
      /\ Crosses(s) <=> CutBetween(x, y)
      /\ OneEndTouches(s) <=> (x = 0 /\ y # 0) \/ (x # 0 /\ y = 0)
  <2>1. s = Status(x, y) \/ s = Status(y, x)
    BY <1>6, <1>7, <1>8
  <2>2. CutBetween(x, y) <=> CutBetween(y, x)
    BY <1>2 DEF CutBetween
  <2>3. CASE s = Status(x, y)
    BY <1>2, <2>3, StatusTable
  <2>4. CASE s = Status(y, x)
    BY <1>2, <2>2, <2>4, StatusTable
  <2> QED
    BY <2>1, <2>3, <2>4
<1>10. Crosses(s) => IsEmerged(cut.status[p.edge]) <=> x < 0
  <2> SUFFICES ASSUME Crosses(s)
               PROVE  IsEmerged(cut.status[p.edge]) <=> x < 0
    OBVIOUS
  <2>1. CASE o.reverse = FALSE /\ h.edges[e] = <<u, v>>
    <3>1. IsEmerged(HalfStatus(s, 1)) <=> x < 0
      BY <1>2, <1>7, <2>1, StatusTable
    <3>2. p.edge = half /\ cut.status[half] = HalfStatus(s, 1)
      BY <1>5, <1>7, <2>1
    <3> QED
      BY <3>1, <3>2
  <2>2. CASE o.reverse = TRUE /\ h.edges[e] = <<v, u>>
    <3>1. IsEmerged(HalfStatus(s, 2)) <=> x < 0
      <4>1. s = Status(y, x)
        BY <1>8, <2>2
      <4> QED
        BY <1>2, <4>1, StatusTable
    <3>2. p.edge = half + 1 /\ cut.status[half + 1] = HalfStatus(s, 2)
      BY <1>5, <1>8, <2>2
    <3> QED
      BY <3>1, <3>2
  <2> QED
    BY <1>6, <2>1, <2>2
<1>11. ASSUME NEW r
       PROVE  Deal(r, o, cut.status, cut.half) = DealtBy(r, o, p, q, x, y)
  <2> DEFINE first == [edge |-> half, reverse |-> o.reverse]
             second == [edge |-> half + 1, reverse |-> o.reverse]
  <2>1. Deal(r, o, cut.status, cut.half) =
          CASE BothEndsTouch(s) -> TouchBoth(r, o)
            [] IsEmerged(s) -> PutEmerged(r, o)
            [] IsImmersed(s) -> PutImmersed(r, o)
            [] Crosses(s) /\ o.reverse ->
                 PutHalves(r, o, second, first, IsEmerged(cut.status[second.edge]))
            [] OTHER -> PutHalves(r, o, first, second, IsEmerged(cut.status[first.edge]))
    BY <1>3 DEF Deal, e, half
  <2>2. CASE x = 0 /\ y = 0
    <3>1. Deal(r, o, cut.status, cut.half) = TouchBoth(r, o)
      BY <1>2, <1>9, <2>1, <2>2 DEF CutBetween
    <3> QED
      BY <2>2, <3>1 DEF DealtBy
  <2>3. CASE x <= 0 /\ y <= 0 /\ ~ (x = 0 /\ y = 0)
    <3>1. Deal(r, o, cut.status, cut.half) = PutEmerged(r, o)
      BY <1>2, <1>9, <2>1, <2>3 DEF CutBetween
    <3> QED
      BY <2>3, <3>1 DEF DealtBy
  <2>4. CASE x >= 0 /\ y >= 0 /\ ~ (x = 0 /\ y = 0)
    <3>1. Deal(r, o, cut.status, cut.half) = PutImmersed(r, o)
      BY <1>2, <1>9, <2>1, <2>4 DEF CutBetween
    <3> QED
      BY <1>2, <2>4, <3>1 DEF DealtBy
  <2>5. CASE CutBetween(x, y)
    <3>1. ~ BothEndsTouch(s) /\ ~ IsEmerged(s) /\ ~ IsImmersed(s) /\ Crosses(s)
      BY <1>2, <1>9, <2>5 DEF CutBetween
    <3>2. DealtBy(r, o, p, q, x, y) = PutHalves(r, o, p, q, x < 0)
      BY <1>2, <2>5 DEF DealtBy, CutBetween
    <3>3. CASE o.reverse = FALSE /\ h.edges[e] = <<u, v>>
      <4>1. first = p /\ second = q
        BY <1>7, <3>3
      <4>2. Deal(r, o, cut.status, cut.half) = PutHalves(r, o, p, q, IsEmerged(cut.status[p.edge]))
        BY <2>1, <3>1, <3>3, <4>1
      <4>3. IsEmerged(cut.status[p.edge]) = (x < 0)
        BY <1>10, <3>1 DEF IsEmerged
      <4> QED
        BY <3>2, <4>2, <4>3
    <3>4. CASE o.reverse = TRUE /\ h.edges[e] = <<v, u>>
      <4>1. first = q /\ second = p
        BY <1>8, <3>4
      <4>2. Deal(r, o, cut.status, cut.half) = PutHalves(r, o, p, q, IsEmerged(cut.status[p.edge]))
        BY <2>1, <3>1, <3>4, <4>1
      <4>3. IsEmerged(cut.status[p.edge]) = (x < 0)
        BY <1>10, <3>1 DEF IsEmerged
      <4> QED
        BY <3>2, <4>2, <4>3
    <3> QED
      BY <1>6, <3>3, <3>4
  <2>6. \/ x = 0 /\ y = 0
        \/ x <= 0 /\ y <= 0 /\ ~ (x = 0 /\ y = 0)
        \/ x >= 0 /\ y >= 0 /\ ~ (x = 0 /\ y = 0)
        \/ CutBetween(x, y)
    BY <1>2 DEF CutBetween
  <2> QED
    BY <2>2, <2>3, <2>4, <2>5, <2>6
<1>12. Travels(cut.edges, o, p, q, u, v, node, x, y)
  <2>1. CASE CutBetween(x, y)
    <3>1. Crosses(s)
      BY <1>9, <2>1
    <3>2. CASE o.reverse = FALSE /\ h.edges[e] = <<u, v>>
      <4>1. p.edge = half /\ q.edge = half + 1 /\ p.reverse = FALSE /\ q.reverse = FALSE
        BY <1>7, <3>2
      <4>2. cut.edges[half] = <<u, node>> /\ cut.edges[half + 1] = <<node, v>>
        BY <1>5, <3>1, <3>2
      <4>3. Runs(cut.edges, p, u, node) /\ Runs(cut.edges, q, node, v)
        BY <1>5, <3>1, <4>1, <4>2, Zenon DEF Runs
      <4> QED
        BY <2>1, <4>3 DEF Travels
    <3>3. CASE o.reverse = TRUE /\ h.edges[e] = <<v, u>>
      <4>1. p.edge = half + 1 /\ q.edge = half /\ p.reverse = TRUE /\ q.reverse = TRUE
        BY <1>8, <3>3
      <4>2. cut.edges[half] = <<v, node>> /\ cut.edges[half + 1] = <<node, u>>
        BY <1>5, <3>1, <3>3
      <4>3. Runs(cut.edges, p, u, node) /\ Runs(cut.edges, q, node, v)
        BY <1>5, <3>1, <4>1, <4>2, Zenon DEF Runs
      <4> QED
        BY <2>1, <4>3 DEF Travels
    <3> QED
      BY <1>6, <3>2, <3>3
  <2>2. CASE ~ CutBetween(x, y)
    <3>1. Runs(cut.edges, o, u, v)
      BY <1>3, <1>6, Zenon DEF Runs, e
    <3> QED
      BY <2>2, <3>1 DEF Travels
  <2> QED
    BY <2>1, <2>2
<1>13. e \in Crossing(h, zs) <=> CutBetween(x, y)
  BY <1>4, <1>9
<1>14. /\ BothEndsTouch(cut.status[e]) <=> x = 0 /\ y = 0
       /\ IsEmerged(cut.status[e]) <=> x <= 0 /\ y <= 0 /\ ~ (x = 0 /\ y = 0)
  BY <1>3, <1>9
<1>15. Meets(cut.status[e]) <=> ~ (x < 0 /\ y < 0) /\ ~ (x > 0 /\ y > 0)
  BY <1>2, <1>3, <1>9 DEF Meets, CutBetween
<1> QED
  BY <1>11, <1>12, <1>13, <1>14, <1>15 DEF cut, o, p, q, x, y, node, e, u, v

(* Short paths. *)
Path0 == <<>>
Path1(p) == <<p>>
Path2(p, q) == <<p, q>>
Path3(p, q, r) == <<p, q, r>>
Path4(p, q, r, t) == <<p, q, r, t>>

(***************************************************************************)
(* The facets made of edges that come back to where they started.          *)
(***************************************************************************)
Polygon(f, sides) ==
  /\ Len(f) \in Nat /\ Len(f) >= 3 /\ DOMAIN f = 1 .. Len(f) /\ IsInjective(f)
  /\ {Sides(f)[k] : k \in DOMAIN Sides(f)} = sides
  /\ \A k \in DOMAIN f : \E s \in sides : s[1] = f[k]

\* An oriented edge goes from its first vertex to its second one.
LEMMA RunsEnds ==
  ASSUME NEW all, NEW o, NEW u, NEW v, Runs(all, o, u, v)
  PROVE  FirstVertex(all, o) = u /\ SecondVertex(all, o) = v
<1>1. CASE o.reverse = FALSE /\ all[o.edge] = <<u, v>>
  BY <1>1 DEF FirstVertex, SecondVertex
<1>2. CASE o.reverse = TRUE /\ all[o.edge] = <<v, u>>
  BY <1>2 DEF FirstVertex, SecondVertex
<1> QED
  BY <1>1, <1>2, Zenon DEF Runs

\* The triangle with three different vertices.
LEMMA PolygonOfThree ==
  ASSUME NEW u, NEW v, NEW w, u # v, v # w, u # w
  PROVE  Polygon(<<u, v, w>>, {<<u, v>>, <<v, w>>, <<w, u>>})
<1> DEFINE f == <<u, v, w>>
<1>1. Len(f) = 3 /\ DOMAIN f = 1 .. 3 /\ f[1] = u /\ f[2] = v /\ f[3] = w
  OBVIOUS
<1> HIDE DEF f
<1>2. IsInjective(f)
  <2> SUFFICES ASSUME NEW a \in 1 .. 3, NEW b \in 1 .. 3, f[a] = f[b]
               PROVE  a = b
    BY <1>1 DEF IsInjective
  <2>1. (a = 1 \/ a = 2 \/ a = 3) /\ (b = 1 \/ b = 2 \/ b = 3)
    OBVIOUS
  <2> QED
    BY <1>1, <2>1
<1>3. DOMAIN Sides(f) = 1 .. 3 /\ Sides(f)[1] = <<u, v>> /\ Sides(f)[2] = <<v, w>>
      /\ Sides(f)[3] = <<w, u>>
  <2>1. Sides(f) = [k \in 1 .. 3 |-> <<f[k], f[(k % 3) + 1]>>]
    BY <1>1 DEF Sides
  <2>2. (1 % 3) + 1 = 2 /\ (2 % 3) + 1 = 3 /\ (3 % 3) + 1 = 1
    OBVIOUS
  <2> QED
    BY <1>1, <2>1, <2>2
<1>4. 1 .. 3 = {1, 2, 3}
  OBVIOUS
<1>5. {Sides(f)[k] : k \in DOMAIN Sides(f)} = {<<u, v>>, <<v, w>>, <<w, u>>}
  BY <1>3, <1>4
<1>6. \A k \in DOMAIN f : \E s \in {<<u, v>>, <<v, w>>, <<w, u>>} : s[1] = f[k]
  BY <1>1, <1>4
<1> QED
  BY <1>1, <1>2, <1>5, <1>6 DEF Polygon, f

\* Mesh::create_facet_from_edges given three edges that make a circuit.
LEMMA Triangle ==
  ASSUME NEW all, NEW u, NEW v, NEW w, u # v, v # w, u # w,
         NEW p, NEW q, NEW r, Runs(all, p, u, v), Runs(all, q, v, w), Runs(all, r, w, u)
  PROVE  Polygon(FacetVertices(all, Path3(p, q, r)), {<<u, v>>, <<v, w>>, <<w, u>>})
<1> DEFINE path == Path3(p, q, r)
           second(k) == SecondVertex(all, path[k])
           new == {k \in DOMAIN path : \A i \in 1 .. k - 1 : second(i) # second(k)}
           f == FacetVertices(all, path)
<1>1. DOMAIN path = 1 .. 3 /\ path[1] = p /\ path[2] = q /\ path[3] = r
  BY DEF Path3
<1> HIDE DEF path
<1>2. second(1) = v /\ second(2) = w /\ second(3) = u
  BY <1>1, RunsEnds
<1>3. f = [k \in 1 .. Cardinality(new) |-> IF k \in new THEN second(k) ELSE 1]
  BY DEF FacetVertices
<1> HIDE DEF second, f
<1>4. new = 1 .. 3
  <2>1. \A k \in 1 .. 3 : \A i \in 1 .. k - 1 : second(i) # second(k)
    <3> SUFFICES ASSUME NEW k \in 1 .. 3, NEW i \in 1 .. k - 1
                 PROVE  second(i) # second(k)
      OBVIOUS
    <3>1. (k = 2 /\ i = 1) \/ (k = 3 /\ (i = 1 \/ i = 2))
      OBVIOUS
    <3> QED
      BY <1>2, <3>1
  <2> QED
    BY <1>1, <2>1
<1> HIDE DEF new
<1>5. Cardinality(new) = 3
  BY <1>4, CountPlaces
<1>6. f = <<v, w, u>>
  <2>1. f = [k \in 1 .. 3 |-> second(k)]
    BY <1>3, <1>4, <1>5
  <2> QED
    BY <1>2, <2>1
<1>7. Polygon(<<v, w, u>>, {<<v, w>>, <<w, u>>, <<u, v>>})
  BY PolygonOfThree
<1>8. {<<v, w>>, <<w, u>>, <<u, v>>} = {<<u, v>>, <<v, w>>, <<w, u>>}
  OBVIOUS
<1> QED
  BY <1>6, <1>7, <1>8 DEF f, path

\* The same with four edges.
LEMMA Quadrangle ==
  ASSUME NEW all, NEW u, NEW v, NEW w, NEW x, u # v, u # w, u # x, v # w, v # x, w # x,
         NEW p, NEW q, NEW r, NEW t,
         Runs(all, p, u, v), Runs(all, q, v, w), Runs(all, r, w, x), Runs(all, t, x, u)
  PROVE  Polygon(FacetVertices(all, Path4(p, q, r, t)), {<<u, v>>, <<v, w>>, <<w, x>>, <<x, u>>})
<1> DEFINE path == Path4(p, q, r, t)
           second(k) == SecondVertex(all, path[k])
           new == {k \in DOMAIN path : \A i \in 1 .. k - 1 : second(i) # second(k)}
           f == FacetVertices(all, path)
<1>1. DOMAIN path = 1 .. 4 /\ path[1] = p /\ path[2] = q /\ path[3] = r /\ path[4] = t
  BY DEF Path4
<1> HIDE DEF path
<1>2. second(1) = v /\ second(2) = w /\ second(3) = x /\ second(4) = u
  BY <1>1, RunsEnds
<1>3. f = [k \in 1 .. Cardinality(new) |-> IF k \in new THEN second(k) ELSE 1]
  BY DEF FacetVertices
<1> HIDE DEF second, f
<1>4. new = 1 .. 4
  <2>1. \A k \in 1 .. 4 : \A i \in 1 .. k - 1 : second(i) # second(k)
    <3> SUFFICES ASSUME NEW k \in 1 .. 4, NEW i \in 1 .. k - 1
                 PROVE  second(i) # second(k)
      OBVIOUS
    <3>1. (k = 2 /\ i = 1) \/ (k = 3 /\ (i = 1 \/ i = 2)) \/ (k = 4 /\ (i = 1 \/ i = 2 \/ i = 3))
      OBVIOUS
    <3> QED
      BY <1>2, <3>1
  <2> QED
    BY <1>1, <2>1
<1> HIDE DEF new
<1>5. Cardinality(new) = 4
  BY <1>4, CountPlaces
<1>6. f = <<v, w, x, u>>
  <2>1. f = [k \in 1 .. 4 |-> second(k)]
    BY <1>3, <1>4, <1>5
  <2> QED
    BY <1>2, <2>1
<1> HIDE DEF f
<1>7. Len(f) = 4 /\ DOMAIN f = 1 .. 4 /\ f[1] = v /\ f[2] = w /\ f[3] = x /\ f[4] = u
  BY <1>6
<1>8. IsInjective(f)
  <2> SUFFICES ASSUME NEW a \in 1 .. 4, NEW b \in 1 .. 4, f[a] = f[b]
               PROVE  a = b
    BY <1>7 DEF IsInjective
  <2>1. (a = 1 \/ a = 2 \/ a = 3 \/ a = 4) /\ (b = 1 \/ b = 2 \/ b = 3 \/ b = 4)
    OBVIOUS
  <2> QED
    BY <1>7, <2>1
<1>9. DOMAIN Sides(f) = 1 .. 4 /\ Sides(f)[1] = <<v, w>> /\ Sides(f)[2] = <<w, x>>
      /\ Sides(f)[3] = <<x, u>> /\ Sides(f)[4] = <<u, v>>
  <2>1. Sides(f) = [k \in 1 .. 4 |-> <<f[k], f[(k % 4) + 1]>>]
    BY <1>7 DEF Sides
  <2>2. (1 % 4) + 1 = 2 /\ (2 % 4) + 1 = 3 /\ (3 % 4) + 1 = 4 /\ (4 % 4) + 1 = 1
    OBVIOUS
  <2> QED
    BY <1>7, <2>1, <2>2
<1>10. 1 .. 4 = {1, 2, 3, 4}
  OBVIOUS
<1>11. {Sides(f)[k] : k \in DOMAIN Sides(f)} = {<<u, v>>, <<v, w>>, <<w, x>>, <<x, u>>}
  BY <1>9, <1>10
<1>12. \A k \in DOMAIN f : \E s \in {<<u, v>>, <<v, w>>, <<w, x>>, <<x, u>>} : s[1] = f[k]
  BY <1>7, <1>10
<1> QED
  BY <1>7, <1>8, <1>11, <1>12 DEF Polygon, f, path

\* A facet in the surface: its closing edge is a point, and Mesh::create_facet_from_edges
\* drops it.
LEMMA FlatTriangle ==
  ASSUME NEW all, NEW u, NEW v, NEW w, u # v, v # w, u # w,
         NEW o, NEW p, NEW q, NEW r, Runs(all, o, u, u),
         Runs(all, p, u, v), Runs(all, q, v, w), Runs(all, r, w, u)
  PROVE  Polygon(FacetVertices(all, Path4(o, p, q, r)), {<<u, v>>, <<v, w>>, <<w, u>>})
<1> DEFINE path == Path4(o, p, q, r)
           second(k) == SecondVertex(all, path[k])
           new == {k \in DOMAIN path : \A i \in 1 .. k - 1 : second(i) # second(k)}
           f == FacetVertices(all, path)
<1>1. DOMAIN path = 1 .. 4 /\ path[1] = o /\ path[2] = p /\ path[3] = q /\ path[4] = r
  BY DEF Path4
<1> HIDE DEF path
<1>2. second(1) = u /\ second(2) = v /\ second(3) = w /\ second(4) = u
  BY <1>1, RunsEnds
<1>3. f = [k \in 1 .. Cardinality(new) |-> IF k \in new THEN second(k) ELSE 1]
  BY DEF FacetVertices
<1> HIDE DEF second, f
<1>4. new = 1 .. 3
  <2>1. \A k \in 1 .. 3 : \A i \in 1 .. k - 1 : second(i) # second(k)
    <3> SUFFICES ASSUME NEW k \in 1 .. 3, NEW i \in 1 .. k - 1
                 PROVE  second(i) # second(k)
      OBVIOUS
    <3>1. (k = 2 /\ i = 1) \/ (k = 3 /\ (i = 1 \/ i = 2))
      OBVIOUS
    <3> QED
      BY <1>2, <3>1
  <2>2. 1 \in 1 .. 4 - 1 /\ second(1) = second(4)
    BY <1>2
  <2>3. \A k \in 1 .. 4 : k \in 1 .. 3 \/ k = 4
    OBVIOUS
  <2>4. \A k \in 1 .. 3 : k \in 1 .. 4
    OBVIOUS
  <2>5. 4 \notin new
    BY <2>2
  <2>6. \A k \in new : k \in 1 .. 3
    BY <1>1, <2>3, <2>5
  <2>7. \A k \in 1 .. 3 : k \in new
    BY <1>1, <2>1, <2>4
  <2> QED
    BY <2>6, <2>7
<1> HIDE DEF new
<1>5. Cardinality(new) = 3
  BY <1>4, CountPlaces
<1>6. f = <<u, v, w>>
  <2>1. f = [k \in 1 .. 3 |-> second(k)]
    BY <1>3, <1>4, <1>5
  <2> QED
    BY <1>2, <2>1
<1>7. Polygon(<<u, v, w>>, {<<u, v>>, <<v, w>>, <<w, u>>})
  BY PolygonOfThree
<1> QED
  BY <1>6, <1>7 DEF f, path

(* The list r is the list path with o inserted after a place. *)
HasInserted(r, S, path, o, place) ==
  /\ r \in Seq(S) /\ Len(r) = Len(path) + 1
  /\ \A k \in 1 .. Len(path) + 1 :
       r[k] = IF k <= place THEN path[k] ELSE IF k = place + 1 THEN o ELSE path[k - 1]

\* What the list is with an edge inserted.
LEMMA InsertedElements ==
  ASSUME NEW S, NEW path \in Seq(S), NEW o \in S, NEW place \in 0 .. Len(path)
  PROVE  HasInserted(InsertBefore(path, o, place), S, path, o, place)
<1> DEFINE n == Len(path)
           before == SubSeq(path, 1, place)
           after == SubSeq(path, place + 1, n)
           start == before \o <<o>>
           r == start \o after
<1>1. n \in Nat /\ place \in Int /\ 0 <= place /\ place <= n /\ \A k \in 1 .. n : path[k] \in S
  BY LenProperties, ElementOfSeq
<1> HIDE DEF n
<1>2. before \in Seq(S) /\ Len(before) = place /\ \A k \in 1 .. place : before[k] = path[k]
  <2>1. \A k \in 1 .. place : path[k] \in S
    BY <1>1
  <2>2. /\ before \in Seq(S) /\ Len(before) = IF 1 <= place THEN place - 1 + 1 ELSE 0
        /\ \A k \in 1 .. place - 1 + 1 : before[k] = path[1 + k - 1]
    BY <1>1, <2>1, SubSeqProperties
  <2> HIDE DEF before
  <2> QED
    BY <1>1, <2>2
<1>3. /\ after \in Seq(S) /\ Len(after) = n - place
      /\ \A k \in 1 .. n - place : after[k] = path[place + k]
  <2>1. \A k \in place + 1 .. n : path[k] \in S
    BY <1>1
  <2>2. /\ after \in Seq(S)
        /\ Len(after) = IF place + 1 <= n THEN n - (place + 1) + 1 ELSE 0
        /\ \A k \in 1 .. n - (place + 1) + 1 : after[k] = path[place + 1 + k - 1]
    BY <1>1, <2>1, SubSeqProperties
  <2> HIDE DEF after
  <2> QED
    BY <1>1, <2>2
<1>4. <<o>> \in Seq(S) /\ Len(<<o>>) = 1 /\ <<o>>[1] = o
  OBVIOUS
<1> DEFINE only == <<o>>
<1> HIDE DEF before, after, only
<1>5. /\ start \in Seq(S) /\ Len(start) = place + 1
      /\ \A k \in 1 .. place + 1 : start[k] = IF k <= place THEN path[k] ELSE o
  <2> DEFINE j == before \o only
  <2>1. /\ j \in Seq(S) /\ Len(j) = Len(before) + Len(only)
        /\ \A k \in 1 .. Len(before) + Len(only) :
             j[k] = IF k <= Len(before) THEN before[k] ELSE only[k - Len(before)]
    BY <1>2, <1>4, ConcatProperties DEF only
  <2>2. start = j
    BY DEF only
  <2>3. Len(only) = 1 /\ only[1] = o
    BY <1>4 DEF only
  <2> HIDE DEF j, start
  <2>4. ASSUME NEW k \in 1 .. place + 1
        PROVE  j[k] = IF k <= place THEN path[k] ELSE o
    <3>1. CASE k <= place
      BY <1>1, <1>2, <2>1, <2>3, <3>1
    <3>2. CASE ~ (k <= place)
      <4>1. k = place + 1 /\ k - place = 1
        BY <1>1, <3>2
      <4> QED
        BY <1>1, <1>2, <2>1, <2>3, <3>2, <4>1
    <3> QED
      BY <3>1, <3>2
  <2> QED
    BY <1>1, <1>2, <2>1, <2>2, <2>3, <2>4
<1> HIDE DEF start
<1>6. /\ r \in Seq(S) /\ Len(r) = n + 1
      /\ \A k \in 1 .. n + 1 : r[k] = IF k <= place + 1 THEN start[k] ELSE after[k - (place + 1)]
  <2>1. /\ r \in Seq(S) /\ Len(r) = Len(start) + Len(after)
        /\ \A k \in 1 .. Len(start) + Len(after) :
             r[k] = IF k <= Len(start) THEN start[k] ELSE after[k - Len(start)]
    BY <1>3, <1>5, ConcatProperties
  <2>2. Len(start) = place + 1 /\ Len(start) + Len(after) = n + 1
    BY <1>1, <1>3, <1>5
  <2> HIDE DEF r
  <2> QED
    BY <2>1, <2>2
<1> HIDE DEF r
<1>7. ASSUME NEW k \in 1 .. n + 1
      PROVE  r[k] = IF k <= place THEN path[k] ELSE IF k = place + 1 THEN o ELSE path[k - 1]
  <2>1. CASE k <= place
    BY <1>1, <1>5, <1>6, <2>1
  <2>2. CASE k = place + 1
    BY <1>1, <1>5, <1>6, <2>2
  <2>3. CASE k > place + 1
    <3> DEFINE i == k - (place + 1)
    <3>1. i \in 1 .. n - place /\ place + i = k - 1
      BY <1>1, <2>3
    <3> HIDE DEF i
    <3>2. after[i] = path[k - 1]
      BY <1>3, <3>1
    <3>3. r[k] = after[i]
      BY <1>1, <1>6, <2>3 DEF i
    <3> QED
      BY <1>1, <2>3, <3>2, <3>3
  <2> QED
    BY <1>1, <2>1, <2>2, <2>3
<1>8. InsertBefore(path, o, place) = r
  BY DEF InsertBefore, r, start, before, after, n
<1> QED
  BY <1>6, <1>7, <1>8 DEF n, HasInserted

\* An edge inserted among two others.
LEMMA InsertedInTwo ==
  ASSUME NEW p, NEW q, NEW o
  PROVE  /\ InsertBefore(Path2(p, q), o, 0) = Path3(o, p, q)
         /\ InsertBefore(Path2(p, q), o, 1) = Path3(p, o, q)
<1> DEFINE S == {p, q, o}
<1>1. ASSUME NEW place \in 0 .. 2
      PROVE  LET s == InsertBefore(<<p, q>>, o, place)
             IN  /\ s \in Seq(S) /\ Len(s) = 3
                 /\ s[1] = IF place = 0 THEN o ELSE p
                 /\ s[2] = IF place = 0 THEN p ELSE IF place = 1 THEN o ELSE q
                 /\ s[3] = IF place = 2 THEN o ELSE q
  <2> DEFINE path == <<p, q>>
             s == InsertBefore(path, o, place)
  <2>1. path \in Seq(S) /\ Len(path) = 2 /\ path[1] = p /\ path[2] = q /\ o \in S
    OBVIOUS
  <2> HIDE DEF path, S
  <2>2. /\ s \in Seq(S) /\ Len(s) = 2 + 1
        /\ \A k \in 1 .. 2 + 1 :
             s[k] = IF k <= place THEN path[k] ELSE IF k = place + 1 THEN o ELSE path[k - 1]
    <3>1. place \in 0 .. Len(path)
      BY <2>1
    <3>2. HasInserted(s, S, path, o, place)
      BY <2>1, <3>1, InsertedElements
    <3> HIDE DEF s
    <3> QED
      BY <2>1, <3>2 DEF HasInserted
  <2> HIDE DEF s
  <2>3. place = 0 \/ place = 1 \/ place = 2
    OBVIOUS
  <2>4. Len(s) = 3 /\ s[1] = (IF place = 0 THEN o ELSE p)
    BY <2>1, <2>2, <2>3
  <2>5. s[2] = IF place = 0 THEN p ELSE IF place = 1 THEN o ELSE q
    BY <2>1, <2>2, <2>3
  <2>6. s[3] = IF place = 2 THEN o ELSE q
    BY <2>1, <2>2, <2>3
  <2> QED
    BY <2>2, <2>4, <2>5, <2>6 DEF s, path
<1>2. ASSUME NEW s \in Seq(S), Len(s) = 3
      PROVE  s = <<s[1], s[2], s[3]>>
  BY <1>2
<1> HIDE DEF S
<1>3. /\ InsertBefore(<<p, q>>, o, 0) = <<o, p, q>> /\ InsertBefore(<<p, q>>, o, 1) = <<p, o, q>>
  <2> DEFINE s(k) == InsertBefore(<<p, q>>, o, k)
  <2>1. /\ s(0) \in Seq(S) /\ Len(s(0)) = 3 /\ s(0)[1] = o /\ s(0)[2] = p /\ s(0)[3] = q
        /\ s(1) \in Seq(S) /\ Len(s(1)) = 3 /\ s(1)[1] = p /\ s(1)[2] = o /\ s(1)[3] = q
    BY <1>1
  <2> HIDE DEF s
  <2>2. s(0) = <<o, p, q>> /\ s(1) = <<p, o, q>>
    BY <1>2, <2>1
  <2> QED
    BY <2>2 DEF s
<1> QED
  BY <1>3 DEF Path2, Path3

\* An edge inserted among three others.
LEMMA InsertedInThree ==
  ASSUME NEW p, NEW q, NEW r, NEW o
  PROVE  /\ InsertBefore(Path3(p, q, r), o, 0) = Path4(o, p, q, r)
         /\ InsertBefore(Path3(p, q, r), o, 1) = Path4(p, o, q, r)
         /\ InsertBefore(Path3(p, q, r), o, 2) = Path4(p, q, o, r)
<1> DEFINE S == {p, q, r, o}
<1>1. ASSUME NEW place \in 0 .. 3
      PROVE  LET s == InsertBefore(<<p, q, r>>, o, place)
             IN  /\ s \in Seq(S) /\ Len(s) = 4
                 /\ s[1] = IF place = 0 THEN o ELSE p
                 /\ s[2] = IF place = 0 THEN p ELSE IF place = 1 THEN o ELSE q
                 /\ s[3] = IF place <= 1 THEN q ELSE IF place = 2 THEN o ELSE r
                 /\ s[4] = IF place = 3 THEN o ELSE r
  <2> DEFINE path == <<p, q, r>>
             s == InsertBefore(path, o, place)
  <2>1. /\ path \in Seq(S) /\ Len(path) = 3 /\ path[1] = p /\ path[2] = q /\ path[3] = r
        /\ o \in S
    OBVIOUS
  <2> HIDE DEF path, S
  <2>2. /\ s \in Seq(S) /\ Len(s) = 3 + 1
        /\ \A k \in 1 .. 3 + 1 :
             s[k] = IF k <= place THEN path[k] ELSE IF k = place + 1 THEN o ELSE path[k - 1]
    <3>1. place \in 0 .. Len(path)
      BY <2>1
    <3>2. HasInserted(s, S, path, o, place)
      BY <2>1, <3>1, InsertedElements
    <3> HIDE DEF s
    <3> QED
      BY <2>1, <3>2 DEF HasInserted
  <2> HIDE DEF s
  <2>3. place = 0 \/ place = 1 \/ place = 2 \/ place = 3
    OBVIOUS
  <2>4. Len(s) = 4 /\ s[1] = (IF place = 0 THEN o ELSE p)
    BY <2>1, <2>2, <2>3
  <2>5. s[2] = IF place = 0 THEN p ELSE IF place = 1 THEN o ELSE q
    BY <2>1, <2>2, <2>3
  <2>6. s[3] = IF place <= 1 THEN q ELSE IF place = 2 THEN o ELSE r
    BY <2>1, <2>2, <2>3
  <2>7. s[4] = IF place = 3 THEN o ELSE r
    BY <2>1, <2>2, <2>3
  <2> QED
    BY <2>2, <2>4, <2>5, <2>6, <2>7 DEF s, path
<1>2. ASSUME NEW s \in Seq(S), Len(s) = 4
      PROVE  s = <<s[1], s[2], s[3], s[4]>>
  BY <1>2
<1> HIDE DEF S
<1>3. /\ InsertBefore(<<p, q, r>>, o, 0) = <<o, p, q, r>>
      /\ InsertBefore(<<p, q, r>>, o, 1) = <<p, o, q, r>>
      /\ InsertBefore(<<p, q, r>>, o, 2) = <<p, q, o, r>>
  <2> DEFINE s(k) == InsertBefore(<<p, q, r>>, o, k)
  <2>1. /\ s(0) \in Seq(S) /\ Len(s(0)) = 4
        /\ s(0)[1] = o /\ s(0)[2] = p /\ s(0)[3] = q /\ s(0)[4] = r
    BY <1>1
  <2>2. /\ s(1) \in Seq(S) /\ Len(s(1)) = 4
        /\ s(1)[1] = p /\ s(1)[2] = o /\ s(1)[3] = q /\ s(1)[4] = r
    BY <1>1
  <2>3. /\ s(2) \in Seq(S) /\ Len(s(2)) = 4
        /\ s(2)[1] = p /\ s(2)[2] = q /\ s(2)[3] = o /\ s(2)[4] = r
    BY <1>1
  <2> HIDE DEF s
  <2>4. s(0) = <<o, p, q, r>> /\ s(1) = <<p, o, q, r>> /\ s(2) = <<p, q, o, r>>
    BY <1>2, <2>1, <2>2, <2>3
  <2> QED
    BY <2>4 DEF s
<1> QED
  BY <1>3 DEF Path3, Path4

\* A path of one edge.
LEMMA OneEdge ==
  ASSUME NEW p
  PROVE  Append(Path0, p) = Path1(p) /\ Len(Path0) = 0 /\ Len(Path1(p)) = 1
BY DEF Path0, Path1

\* Two edges.
LEMMA TwoEdges ==
  ASSUME NEW p, NEW q
  PROVE  /\ Append(Path1(p), q) = Path2(p, q) /\ Len(Path2(p, q)) = 2
         /\ Path2(p, q)[0 + 1] = p /\ Path2(p, q)[1 + 1] = q
<1> DEFINE S == {p, q}
           s == Append(<<p>>, q)
<1>1. <<p>> \in Seq(S) /\ q \in S /\ Len(<<p>>) = 1 /\ <<p>>[1] = p
  OBVIOUS
<1>2. s \in Seq(S) /\ Len(s) = 2 /\ s[1] = p /\ s[2] = q
  BY <1>1, AppendProperties
<1>3. <<p, q>> \in Seq(S) /\ Len(<<p, q>>) = 2
  OBVIOUS
<1>4. <<p, q>>[0 + 1] = p /\ <<p, q>>[1 + 1] = q
  OBVIOUS
<1> HIDE DEF s
<1>5. s = <<p, q>>
  BY <1>2, <1>3, SeqEqual
<1> QED
  BY <1>3, <1>4, <1>5 DEF s, Path1, Path2

\* Three edges.
LEMMA ThreeEdges ==
  ASSUME NEW p, NEW q, NEW r
  PROVE  /\ Append(Path2(p, q), r) = Path3(p, q, r) /\ Len(Path3(p, q, r)) = 3
         /\ Path3(p, q, r)[0 + 1] = p /\ Path3(p, q, r)[1 + 1] = q /\ Path3(p, q, r)[2 + 1] = r
<1> DEFINE S == {p, q, r}
           s == Append(<<p, q>>, r)
<1>1. /\ <<p, q>> \in Seq(S) /\ r \in S /\ Len(<<p, q>>) = 2 /\ <<p, q>>[1] = p
      /\ <<p, q>>[2] = q
  OBVIOUS
<1>2. s \in Seq(S) /\ Len(s) = 3 /\ s[1] = p /\ s[2] = q /\ s[3] = r
  BY <1>1, AppendProperties
<1>3. <<p, q, r>> \in Seq(S) /\ Len(<<p, q, r>>) = 3
  OBVIOUS
<1>4. <<p, q, r>>[0 + 1] = p /\ <<p, q, r>>[1 + 1] = q /\ <<p, q, r>>[2 + 1] = r
  OBVIOUS
<1> HIDE DEF s
<1>5. s = <<p, q, r>>
  BY <1>2, <1>3, SeqEqual
<1> QED
  BY <1>3, <1>4, <1>5 DEF s, Path2, Path3

(* Where the dealing of a facet has come to. *)
Dealing(r, e, i, fe, fi, side) ==
  /\ DOMAIN r = {"emerged", "immersed", "firstEmerged", "firstImmersed", "side"}
  /\ r.emerged = e /\ r.immersed = i /\ r.firstEmerged = fe /\ r.firstImmersed = fi
  /\ r.side = side

\* No edge has been dealt yet.
LEMMA NoneDealt == Dealing(NoEdges, Path0, Path0, 0, 0, "none")
BY DEF Dealing, NoEdges, Path0

\* The turns on a dealing whose parts are known.
LEMMA Turns ==
  ASSUME NEW r, NEW e, NEW i, NEW fe, NEW fi, NEW side, Dealing(r, e, i, fe, fi, side),
         NEW o, NEW p, NEW q
  PROVE  /\ side # "immersed" =>
              Dealing(PutEmerged(r, o), Append(e, o), i, fe, fi, "emerged")
         /\ side = "immersed" =>
              Dealing(PutEmerged(r, o), Append(e, o), i, Len(e), fi, "emerged")
         /\ side # "emerged" =>
              Dealing(PutImmersed(r, o), e, Append(i, o), fe, fi, "immersed")
         /\ side = "emerged" =>
              Dealing(PutImmersed(r, o), e, Append(i, o), fe, Len(i), "immersed")
         /\ Dealing(PutHalves(r, o, p, q, TRUE), Append(e, p), Append(i, q), fe, Len(i), "immersed")
         /\ Dealing(PutHalves(r, o, p, q, FALSE), Append(e, q), Append(i, p), Len(e), fi, "emerged")
         /\ side = "none" =>
              Dealing(TouchBoth(r, o), Append(e, o), Append(i, o), fe, fi, "none")
<1>1. side # "immersed" => Dealing(PutEmerged(r, o), Append(e, o), i, fe, fi, "emerged")
  BY DEF Dealing, PutEmerged
<1>2. side = "immersed" => Dealing(PutEmerged(r, o), Append(e, o), i, Len(e), fi, "emerged")
  BY DEF Dealing, PutEmerged
<1>3. side # "emerged" => Dealing(PutImmersed(r, o), e, Append(i, o), fe, fi, "immersed")
  BY DEF Dealing, PutImmersed
<1>4. side = "emerged" => Dealing(PutImmersed(r, o), e, Append(i, o), fe, Len(i), "immersed")
  BY DEF Dealing, PutImmersed
<1>5. Dealing(PutHalves(r, o, p, q, TRUE), Append(e, p), Append(i, q), fe, Len(i), "immersed")
  BY DEF Dealing, PutHalves
<1>6. Dealing(PutHalves(r, o, p, q, FALSE), Append(e, q), Append(i, p), Len(e), fi, "emerged")
  BY DEF Dealing, PutHalves
<1>7. side = "none" => Dealing(TouchBoth(r, o), Append(e, o), Append(i, o), fe, fi, "none")
  BY DEF Dealing, TouchBoth
<1> QED
  BY <1>1, <1>2, <1>3, <1>4, <1>5, <1>6, <1>7

\* The same by the signs at the ends of the edge.
LEMMA DealtTurn ==
  ASSUME NEW r, NEW e, NEW i, NEW fe, NEW fi, NEW side, Dealing(r, e, i, fe, fi, side),
         NEW o, NEW p, NEW q, NEW x \in {-1, 0, 1}, NEW y \in {-1, 0, 1},
         NEW t, t = DealtBy(r, o, p, q, x, y)
  PROVE  /\ x <= 0 /\ y <= 0 /\ (x < 0 \/ y < 0) =>
              /\ side # "immersed" => Dealing(t, Append(e, o), i, fe, fi, "emerged")
              /\ side = "immersed" => Dealing(t, Append(e, o), i, Len(e), fi, "emerged")
         /\ x >= 0 /\ y >= 0 /\ (x > 0 \/ y > 0) =>
              /\ side # "emerged" => Dealing(t, e, Append(i, o), fe, fi, "immersed")
              /\ side = "emerged" => Dealing(t, e, Append(i, o), fe, Len(i), "immersed")
         /\ x < 0 /\ y > 0 => Dealing(t, Append(e, p), Append(i, q), fe, Len(i), "immersed")
         /\ x > 0 /\ y < 0 => Dealing(t, Append(e, q), Append(i, p), Len(e), fi, "emerged")
<1>1. ASSUME x <= 0 /\ y <= 0 /\ (x < 0 \/ y < 0)
      PROVE  t = PutEmerged(r, o)
  BY <1>1 DEF DealtBy
<1>2. ASSUME x >= 0 /\ y >= 0 /\ (x > 0 \/ y > 0)
      PROVE  t = PutImmersed(r, o)
  BY <1>2 DEF DealtBy
<1>3. ASSUME x < 0 /\ y > 0
      PROVE  t = PutHalves(r, o, p, q, TRUE)
  <2>1. t = PutHalves(r, o, p, q, x < 0)
    BY <1>3 DEF DealtBy
  <2>2. (x < 0) = TRUE
    BY <1>3
  <2> QED
    BY <2>1, <2>2, Zenon
<1>4. ASSUME x > 0 /\ y < 0
      PROVE  t = PutHalves(r, o, p, q, FALSE)
  <2>1. t = PutHalves(r, o, p, q, x < 0)
    BY <1>4 DEF DealtBy
  <2>2. (x < 0) = FALSE
    BY <1>4
  <2> QED
    BY <2>1, <2>2, Zenon
<1>5. x <= 0 /\ y <= 0 /\ (x < 0 \/ y < 0) =>
        /\ side # "immersed" => Dealing(t, Append(e, o), i, fe, fi, "emerged")
        /\ side = "immersed" => Dealing(t, Append(e, o), i, Len(e), fi, "emerged")
  BY <1>1, Turns
<1>6. x >= 0 /\ y >= 0 /\ (x > 0 \/ y > 0) =>
        /\ side # "emerged" => Dealing(t, e, Append(i, o), fe, fi, "immersed")
        /\ side = "emerged" => Dealing(t, e, Append(i, o), fe, Len(i), "immersed")
  BY <1>2, Turns
<1>7. x < 0 /\ y > 0 => Dealing(t, Append(e, p), Append(i, q), fe, Len(i), "immersed")
  BY <1>3, Turns
<1>8. x > 0 /\ y < 0 => Dealing(t, Append(e, q), Append(i, p), Len(e), fi, "emerged")
  BY <1>4, Turns
<1> QED
  BY <1>5, <1>6, <1>7, <1>8

(***************************************************************************)
(* What of the way from u to v, cut at n, is emerged and what is immersed. *)
(* Ends in the surface belong to both.                                     *)
(***************************************************************************)
EmergedWay(u, v, n, x, y) ==
  IF x <= 0 /\ y <= 0 THEN {<<u, v>>}
  ELSE IF x < 0 THEN {<<u, n>>}
  ELSE IF y < 0 THEN {<<n, v>>} ELSE {}
ImmersedWay(u, v, n, x, y) ==
  IF x >= 0 /\ y >= 0 THEN {<<u, v>>}
  ELSE IF x > 0 THEN {<<u, n>>}
  ELSE IF y > 0 THEN {<<n, v>>} ELSE {}

\* A way has one piece in each part at most.
LEMMA WayMembers ==
  ASSUME NEW u, NEW v, NEW n, NEW x \in {-1, 0, 1}, NEW y \in {-1, 0, 1}, NEW s
  PROVE  /\ s \in EmergedWay(u, v, n, x, y) <=>
              \/ x <= 0 /\ y <= 0 /\ s = <<u, v>>
              \/ x < 0 /\ y > 0 /\ s = <<u, n>>
              \/ x > 0 /\ y < 0 /\ s = <<n, v>>
         /\ s \in ImmersedWay(u, v, n, x, y) <=>
              \/ x >= 0 /\ y >= 0 /\ s = <<u, v>>
              \/ x > 0 /\ y < 0 /\ s = <<u, n>>
              \/ x < 0 /\ y > 0 /\ s = <<n, v>>
<1>1. CASE x <= 0 /\ y <= 0
  BY <1>1 DEF EmergedWay, ImmersedWay
<1>2. CASE x >= 0 /\ y >= 0
  BY <1>2 DEF EmergedWay, ImmersedWay
<1>3. CASE x < 0 /\ y > 0
  BY <1>3 DEF EmergedWay, ImmersedWay
<1>4. CASE x > 0 /\ y < 0
  BY <1>4 DEF EmergedWay, ImmersedWay
<1> QED
  BY <1>1, <1>2, <1>3, <1>4

(* Where the way meets the surface. *)
NodesOn(n, x, y) == IF CutBetween(x, y) THEN {n} ELSE {}
EndsInSurface(u, x) == IF x = 0 THEN {u} ELSE {}

(* The list all begins with the list old. *)
Within(old, all) == \A e \in DOMAIN old : e \in DOMAIN all /\ all[e] = old[e]

\* An edge of a list is still there when the list is lengthened.
LEMMA RunsStill ==
  ASSUME NEW old, NEW all, Within(old, all),
         NEW o, NEW u, NEW v, Runs(old, o, u, v)
  PROVE  Runs(all, o, u, v)
BY DEF Runs, Within

(***************************************************************************)
(* The dealing r cuts a facet in two along the edge from x to y: the        *)
(* emerged piece has the sides es and that edge, the immersed piece the     *)
(* sides is and that edge backwards.                                        *)
(***************************************************************************)
Cleft(old, all, r, oe, oi, es, is, nodes, ends) ==
  LET x == FirstVertex(old, r.immersed[r.firstImmersed + 1])
      y == FirstVertex(old, r.emerged[r.firstEmerged + 1])
  IN  /\ Len(r.emerged) > 1 /\ Len(r.immersed) > 1
      /\ x # y /\ {x, y} \subseteq nodes \union ends /\ (x \in nodes \/ y \in nodes)
      /\ Polygon(FacetVertices(all, InsertBefore(r.emerged, oe, r.firstEmerged)),
                 es \union {<<x, y>>})
      /\ Polygon(FacetVertices(all, InsertBefore(r.immersed, oi, r.firstImmersed)),
                 is \union {<<y, x>>})

\* To show that a dealing whose parts are known cuts a facet in two.
LEMMA CleftBy ==
  ASSUME NEW old, NEW all, NEW r, NEW e, NEW i, NEW fe, NEW fi, NEW side,
         Dealing(r, e, i, fe, fi, side),
         NEW oe, NEW oi, NEW es, NEW is, NEW nodes, NEW ends, NEW x, NEW y,
         FirstVertex(old, i[fi + 1]) = x, FirstVertex(old, e[fe + 1]) = y,
         Len(e) > 1, Len(i) > 1,
         x # y, {x, y} \subseteq nodes \union ends, x \in nodes \/ y \in nodes,
         NEW pe, InsertBefore(e, oe, fe) = pe, NEW pi, InsertBefore(i, oi, fi) = pi,
         Polygon(FacetVertices(all, pe), es \union {<<x, y>>}),
         Polygon(FacetVertices(all, pi), is \union {<<y, x>>})
  PROVE  Cleft(old, all, r, oe, oi, es, is, nodes, ends)
<1>1. /\ r.emerged = e /\ r.immersed = i /\ r.firstEmerged = fe /\ r.firstImmersed = fi
  BY DEF Dealing
<1> QED
  BY <1>1, Zenon DEF Cleft

(***************************************************************************)
(* A triangle a b c with vertices on both sides of the surface, the nodes   *)
(* l m n of its sides, their edges and legs, and the dealings turn by turn. *)
(***************************************************************************)
MixedTriangle(old, a, b, c, sa, sb, sc, l, m, n, o1, p1, q1, o2, p2, q2, o3, p3, q3, r1, r2, r) ==
  /\ a # b /\ b # c /\ a # c
  /\ sa \in {-1, 0, 1} /\ sb \in {-1, 0, 1} /\ sc \in {-1, 0, 1}
  /\ sa < 0 \/ sb < 0 \/ sc < 0
  /\ sa > 0 \/ sb > 0 \/ sc > 0
  /\ CutBetween(sa, sb) => l \notin {a, b, c}
  /\ CutBetween(sb, sc) => m \notin {a, b, c}
  /\ CutBetween(sc, sa) => n \notin {a, b, c}
  /\ CutBetween(sa, sb) /\ CutBetween(sb, sc) => l # m
  /\ CutBetween(sb, sc) /\ CutBetween(sc, sa) => m # n
  /\ CutBetween(sa, sb) /\ CutBetween(sc, sa) => l # n
  /\ Travels(old, o1, p1, q1, a, b, l, sa, sb)
  /\ Travels(old, o2, p2, q2, b, c, m, sb, sc)
  /\ Travels(old, o3, p3, q3, c, a, n, sc, sa)
  /\ r1 = DealtBy(NoEdges, o1, p1, q1, sa, sb)
  /\ r2 = DealtBy(r1, o2, p2, q2, sb, sc)
  /\ r = DealtBy(r2, o3, p3, q3, sc, sa)

\* split_partially_immersed_facet_and_classify, for a triangle with vertices on
\* both sides of the surface, whatever their order: the two lists of edges,
\* with the closing edge at the places remembered, are circuits.
LEMMA FacetCleft ==
  ASSUME NEW old, NEW all, Within(old, all),
         NEW a, NEW b, NEW c, NEW sa, NEW sb, NEW sc, NEW l, NEW m, NEW n,
         NEW o1, NEW p1, NEW q1, NEW o2, NEW p2, NEW q2, NEW o3, NEW p3, NEW q3,
         NEW r1, NEW r2, NEW r,
         MixedTriangle(old, a, b, c, sa, sb, sc, l, m, n, o1, p1, q1, o2, p2, q2, o3, p3, q3, r1, r2, r),
         NEW oe, NEW oi,
         Runs(all, oe, FirstVertex(old, r.immersed[r.firstImmersed + 1]),
                       FirstVertex(old, r.emerged[r.firstEmerged + 1])),
         Runs(all, oi, FirstVertex(old, r.emerged[r.firstEmerged + 1]),
                       FirstVertex(old, r.immersed[r.firstImmersed + 1]))
  PROVE  Cleft(old, all, r, oe, oi,
               EmergedWay(a, b, l, sa, sb) \union EmergedWay(b, c, m, sb, sc)
                 \union EmergedWay(c, a, n, sc, sa),
               ImmersedWay(a, b, l, sa, sb) \union ImmersedWay(b, c, m, sb, sc)
                 \union ImmersedWay(c, a, n, sc, sa),
               NodesOn(l, sa, sb) \union NodesOn(m, sb, sc) \union NodesOn(n, sc, sa),
               EndsInSurface(a, sa) \union EndsInSurface(b, sb) \union EndsInSurface(c, sc))
<1> DEFINE es == EmergedWay(a, b, l, sa, sb) \union EmergedWay(b, c, m, sb, sc)
                   \union EmergedWay(c, a, n, sc, sa)
           is == ImmersedWay(a, b, l, sa, sb) \union ImmersedWay(b, c, m, sb, sc)
                   \union ImmersedWay(c, a, n, sc, sa)
           nodes == NodesOn(l, sa, sb) \union NodesOn(m, sb, sc) \union NodesOn(n, sc, sa)
           ends == EndsInSurface(a, sa) \union EndsInSurface(b, sb) \union EndsInSurface(c, sc)
<1> SUFFICES Cleft(old, all, r, oe, oi, es, is, nodes, ends)
  OBVIOUS
<1>0. /\ a # b /\ b # c /\ a # c
      /\ sa \in {-1, 0, 1} /\ sb \in {-1, 0, 1} /\ sc \in {-1, 0, 1}
      /\ sa < 0 \/ sb < 0 \/ sc < 0
      /\ sa > 0 \/ sb > 0 \/ sc > 0
      /\ CutBetween(sa, sb) => l \notin {a, b, c}
      /\ CutBetween(sb, sc) => m \notin {a, b, c}
      /\ CutBetween(sc, sa) => n \notin {a, b, c}
      /\ CutBetween(sa, sb) /\ CutBetween(sb, sc) => l # m
      /\ CutBetween(sb, sc) /\ CutBetween(sc, sa) => m # n
      /\ CutBetween(sa, sb) /\ CutBetween(sc, sa) => l # n
      /\ Travels(old, o1, p1, q1, a, b, l, sa, sb)
      /\ Travels(old, o2, p2, q2, b, c, m, sb, sc)
      /\ Travels(old, o3, p3, q3, c, a, n, sc, sa)
      /\ r1 = DealtBy(NoEdges, o1, p1, q1, sa, sb)
      /\ r2 = DealtBy(r1, o2, p2, q2, sb, sc)
      /\ r = DealtBy(r2, o3, p3, q3, sc, sa)
  BY DEF MixedTriangle
<1> USE <1>0
<1>1. CASE sa = -1 /\ sb = -1 /\ sc = 1
  <2>0. /\ Runs(old, o1, a, b) /\ Runs(old, p2, b, m) /\ Runs(old, q2, m, c)
        /\ Runs(old, p3, c, n) /\ Runs(old, q3, n, a)
        /\ m \notin {a, b, c} /\ n \notin {a, b, c} /\ m # n
    BY <1>1 DEF Travels, CutBetween
  <2>1. /\ Runs(all, o1, a, b) /\ Runs(all, p2, b, m) /\ Runs(all, q2, m, c)
        /\ Runs(all, p3, c, n) /\ Runs(all, q3, n, a)
    BY <2>0, RunsStill
  <2>2. Dealing(r1, Path1(o1), Path0, 0, 0, "emerged")
    <3>1. Append(Path0, o1) = Path1(o1)
      BY OneEdge
    <3>2. Dealing(r1, Append(Path0, o1), Path0,
                  0, 0, "emerged")
      BY <1>1, NoneDealt, DealtTurn
    <3> QED
      BY <3>1, <3>2
  <2>3. Dealing(r2, Path2(o1, p2), Path1(q2), 0, 0, "immersed")
    <3>1. /\ Append(Path1(o1), p2) = Path2(o1, p2)
          /\ Append(Path0, q2) = Path1(q2)
          /\ Len(Path0) = 0
      BY TwoEdges, OneEdge
    <3>2. Dealing(r2, Append(Path1(o1), p2), Append(Path0, q2),
                  0, Len(Path0), "immersed")
      BY <1>1, <2>2, DealtTurn
    <3> QED
      BY <3>1, <3>2
  <2>4. Dealing(r, Path3(o1, p2, q3), Path2(q2, p3), 2, 0, "emerged")
    <3>1. /\ Append(Path2(o1, p2), q3) = Path3(o1, p2, q3)
          /\ Append(Path1(q2), p3) = Path2(q2, p3)
          /\ Len(Path2(o1, p2)) = 2
      <4>1. Append(Path2(o1, p2), q3) = Path3(o1, p2, q3)
        BY ThreeEdges
      <4>2. Append(Path1(q2), p3) = Path2(q2, p3) /\ Len(Path2(o1, p2)) = 2
        BY TwoEdges
      <4> QED
        BY <4>1, <4>2
    <3>2. Dealing(r, Append(Path2(o1, p2), q3), Append(Path1(q2), p3),
                  Len(Path2(o1, p2)), 0, "emerged")
      BY <1>1, <2>3, DealtTurn
    <3> QED
      BY <3>1, <3>2
  <2>5. FirstVertex(old, Path2(q2, p3)[0 + 1]) = m /\ FirstVertex(old, Path3(o1, p2, q3)[2 + 1]) = n
    <3>1. Path2(q2, p3)[0 + 1] = q2
      BY TwoEdges
    <3>2. Path3(o1, p2, q3)[2 + 1] = q3
      BY ThreeEdges
    <3> QED
      BY <2>0, <3>1, <3>2, RunsEnds
  <2>6. Runs(all, oe, m, n) /\ Runs(all, oi, n, m)
    BY <2>4, <2>5 DEF Dealing
  <2>7. /\ InsertBefore(Path3(o1, p2, q3), oe, 2) = Path4(o1, p2, oe, q3)
        /\ InsertBefore(Path2(q2, p3), oi, 0) = Path3(oi, q2, p3)
    <3>1. InsertBefore(Path3(o1, p2, q3), oe, 2) = Path4(o1, p2, oe, q3)
      BY InsertedInThree
    <3>2. InsertBefore(Path2(q2, p3), oi, 0) = Path3(oi, q2, p3)
      BY InsertedInTwo
    <3> QED
      BY <3>1, <3>2
  <2>8. Polygon(FacetVertices(all, Path4(o1, p2, oe, q3)),
                {<<a, b>>, <<b, m>>, <<m, n>>, <<n, a>>})
    BY <2>0, <2>1, <2>6, Quadrangle
  <2>9. Polygon(FacetVertices(all, Path3(oi, q2, p3)),
                 {<<n, m>>, <<m, c>>, <<c, n>>})
    BY <2>0, <2>1, <2>6, Triangle
  <2>10. es = {<<a, b>>, <<b, m>>, <<n, a>>} /\ is = {<<m, c>>, <<c, n>>}
    BY <1>1 DEF EmergedWay, ImmersedWay
  <2>11. nodes = {m, n} /\ ends = {}
    BY <1>1 DEF NodesOn, EndsInSurface, CutBetween
  <2> HIDE DEF es, is, nodes, ends
  <2>12. /\ {<<a, b>>, <<b, m>>, <<m, n>>, <<n, a>>} = es \union {<<m, n>>}
         /\ {<<n, m>>, <<m, c>>, <<c, n>>} = is \union {<<n, m>>}
    BY <2>10
  <2>13. m # n /\ {m, n} \subseteq nodes \union ends /\ (m \in nodes \/ n \in nodes)
    BY <2>0, <2>11
  <2>14. Len(Path3(o1, p2, q3)) > 1 /\ Len(Path2(q2, p3)) > 1
    <3>1. Len(Path2(q2, p3)) = 2
      BY TwoEdges
    <3>2. Len(Path3(o1, p2, q3)) = 3
      BY ThreeEdges
    <3> QED
      BY <3>1, <3>2
  <2> QED
    BY <2>4, <2>5, <2>7, <2>8, <2>9, <2>12, <2>13, <2>14, CleftBy
<1>2. CASE sa = -1 /\ sb = 0 /\ sc = 1
  <2>0. /\ Runs(old, o1, a, b) /\ Runs(old, o2, b, c) /\ Runs(old, p3, c, n)
        /\ Runs(old, q3, n, a)
        /\ n \notin {a, b, c}
    BY <1>2 DEF Travels, CutBetween
  <2>1. /\ Runs(all, o1, a, b) /\ Runs(all, o2, b, c) /\ Runs(all, p3, c, n)
        /\ Runs(all, q3, n, a)
    BY <2>0, RunsStill
  <2>2. Dealing(r1, Path1(o1), Path0, 0, 0, "emerged")
    <3>1. Append(Path0, o1) = Path1(o1)
      BY OneEdge
    <3>2. Dealing(r1, Append(Path0, o1), Path0,
                  0, 0, "emerged")
      BY <1>2, NoneDealt, DealtTurn
    <3> QED
      BY <3>1, <3>2
  <2>3. Dealing(r2, Path1(o1), Path1(o2), 0, 0, "immersed")
    <3>1. /\ Append(Path0, o2) = Path1(o2)
          /\ Len(Path0) = 0
      BY OneEdge
    <3>2. Dealing(r2, Path1(o1), Append(Path0, o2),
                  0, Len(Path0), "immersed")
      BY <1>2, <2>2, DealtTurn
    <3> QED
      BY <3>1, <3>2
  <2>4. Dealing(r, Path2(o1, q3), Path2(o2, p3), 1, 0, "emerged")
    <3>1. /\ Append(Path1(o1), q3) = Path2(o1, q3)
          /\ Append(Path1(o2), p3) = Path2(o2, p3)
          /\ Len(Path1(o1)) = 1
      BY TwoEdges, OneEdge
    <3>2. Dealing(r, Append(Path1(o1), q3), Append(Path1(o2), p3),
                  Len(Path1(o1)), 0, "emerged")
      BY <1>2, <2>3, DealtTurn
    <3> QED
      BY <3>1, <3>2
  <2>5. FirstVertex(old, Path2(o2, p3)[0 + 1]) = b /\ FirstVertex(old, Path2(o1, q3)[1 + 1]) = n
    <3>1. Path2(o2, p3)[0 + 1] = o2
      BY TwoEdges
    <3>2. Path2(o1, q3)[1 + 1] = q3
      BY TwoEdges
    <3> QED
      BY <2>0, <3>1, <3>2, RunsEnds
  <2>6. Runs(all, oe, b, n) /\ Runs(all, oi, n, b)
    BY <2>4, <2>5 DEF Dealing
  <2>7. /\ InsertBefore(Path2(o1, q3), oe, 1) = Path3(o1, oe, q3)
        /\ InsertBefore(Path2(o2, p3), oi, 0) = Path3(oi, o2, p3)
    <3>1. InsertBefore(Path2(o1, q3), oe, 1) = Path3(o1, oe, q3)
      BY InsertedInTwo
    <3>2. InsertBefore(Path2(o2, p3), oi, 0) = Path3(oi, o2, p3)
      BY InsertedInTwo
    <3> QED
      BY <3>1, <3>2
  <2>8. Polygon(FacetVertices(all, Path3(o1, oe, q3)),
                {<<a, b>>, <<b, n>>, <<n, a>>})
    BY <2>0, <2>1, <2>6, Triangle
  <2>9. Polygon(FacetVertices(all, Path3(oi, o2, p3)),
                 {<<n, b>>, <<b, c>>, <<c, n>>})
    BY <2>0, <2>1, <2>6, Triangle
  <2>10. es = {<<a, b>>, <<n, a>>} /\ is = {<<b, c>>, <<c, n>>}
    BY <1>2 DEF EmergedWay, ImmersedWay
  <2>11. nodes = {n} /\ ends = {b}
    BY <1>2 DEF NodesOn, EndsInSurface, CutBetween
  <2> HIDE DEF es, is, nodes, ends
  <2>12. /\ {<<a, b>>, <<b, n>>, <<n, a>>} = es \union {<<b, n>>}
         /\ {<<n, b>>, <<b, c>>, <<c, n>>} = is \union {<<n, b>>}
    BY <2>10
  <2>13. b # n /\ {b, n} \subseteq nodes \union ends /\ (b \in nodes \/ n \in nodes)
    BY <2>0, <2>11
  <2>14. Len(Path2(o1, q3)) > 1 /\ Len(Path2(o2, p3)) > 1
    <3>1. Len(Path2(o2, p3)) = 2
      BY TwoEdges
    <3>2. Len(Path2(o1, q3)) = 2
      BY TwoEdges
    <3> QED
      BY <3>1, <3>2
  <2> QED
    BY <2>4, <2>5, <2>7, <2>8, <2>9, <2>12, <2>13, <2>14, CleftBy
<1>3. CASE sa = -1 /\ sb = 1 /\ sc = -1
  <2>0. /\ Runs(old, p1, a, l) /\ Runs(old, q1, l, b) /\ Runs(old, p2, b, m)
        /\ Runs(old, q2, m, c) /\ Runs(old, o3, c, a)
        /\ l \notin {a, b, c} /\ m \notin {a, b, c} /\ l # m
    BY <1>3 DEF Travels, CutBetween
  <2>1. /\ Runs(all, p1, a, l) /\ Runs(all, q1, l, b) /\ Runs(all, p2, b, m)
        /\ Runs(all, q2, m, c) /\ Runs(all, o3, c, a)
    BY <2>0, RunsStill
  <2>2. Dealing(r1, Path1(p1), Path1(q1), 0, 0, "immersed")
    <3>1. /\ Append(Path0, p1) = Path1(p1)
          /\ Append(Path0, q1) = Path1(q1)
          /\ Len(Path0) = 0
      BY OneEdge
    <3>2. Dealing(r1, Append(Path0, p1), Append(Path0, q1),
                  0, Len(Path0), "immersed")
      BY <1>3, NoneDealt, DealtTurn
    <3> QED
      BY <3>1, <3>2
  <2>3. Dealing(r2, Path2(p1, q2), Path2(q1, p2), 1, 0, "emerged")
    <3>1. /\ Append(Path1(p1), q2) = Path2(p1, q2)
          /\ Append(Path1(q1), p2) = Path2(q1, p2)
          /\ Len(Path1(p1)) = 1
      BY TwoEdges, OneEdge
    <3>2. Dealing(r2, Append(Path1(p1), q2), Append(Path1(q1), p2),
                  Len(Path1(p1)), 0, "emerged")
      BY <1>3, <2>2, DealtTurn
    <3> QED
      BY <3>1, <3>2
  <2>4. Dealing(r, Path3(p1, q2, o3), Path2(q1, p2), 1, 0, "emerged")
    <3>1. Append(Path2(p1, q2), o3) = Path3(p1, q2, o3)
      BY ThreeEdges
    <3>2. Dealing(r, Append(Path2(p1, q2), o3), Path2(q1, p2),
                  1, 0, "emerged")
      BY <1>3, <2>3, DealtTurn
    <3> QED
      BY <3>1, <3>2
  <2>5. FirstVertex(old, Path2(q1, p2)[0 + 1]) = l /\ FirstVertex(old, Path3(p1, q2, o3)[1 + 1]) = m
    <3>1. Path2(q1, p2)[0 + 1] = q1
      BY TwoEdges
    <3>2. Path3(p1, q2, o3)[1 + 1] = q2
      BY ThreeEdges
    <3> QED
      BY <2>0, <3>1, <3>2, RunsEnds
  <2>6. Runs(all, oe, l, m) /\ Runs(all, oi, m, l)
    BY <2>4, <2>5 DEF Dealing
  <2>7. /\ InsertBefore(Path3(p1, q2, o3), oe, 1) = Path4(p1, oe, q2, o3)
        /\ InsertBefore(Path2(q1, p2), oi, 0) = Path3(oi, q1, p2)
    <3>1. InsertBefore(Path3(p1, q2, o3), oe, 1) = Path4(p1, oe, q2, o3)
      BY InsertedInThree
    <3>2. InsertBefore(Path2(q1, p2), oi, 0) = Path3(oi, q1, p2)
      BY InsertedInTwo
    <3> QED
      BY <3>1, <3>2
  <2>8. Polygon(FacetVertices(all, Path4(p1, oe, q2, o3)),
                {<<a, l>>, <<l, m>>, <<m, c>>, <<c, a>>})
    BY <2>0, <2>1, <2>6, Quadrangle
  <2>9. Polygon(FacetVertices(all, Path3(oi, q1, p2)),
                 {<<m, l>>, <<l, b>>, <<b, m>>})
    BY <2>0, <2>1, <2>6, Triangle
  <2>10. es = {<<a, l>>, <<m, c>>, <<c, a>>} /\ is = {<<l, b>>, <<b, m>>}
    BY <1>3 DEF EmergedWay, ImmersedWay
  <2>11. nodes = {l, m} /\ ends = {}
    BY <1>3 DEF NodesOn, EndsInSurface, CutBetween
  <2> HIDE DEF es, is, nodes, ends
  <2>12. /\ {<<a, l>>, <<l, m>>, <<m, c>>, <<c, a>>} = es \union {<<l, m>>}
         /\ {<<m, l>>, <<l, b>>, <<b, m>>} = is \union {<<m, l>>}
    BY <2>10
  <2>13. l # m /\ {l, m} \subseteq nodes \union ends /\ (l \in nodes \/ m \in nodes)
    BY <2>0, <2>11
  <2>14. Len(Path3(p1, q2, o3)) > 1 /\ Len(Path2(q1, p2)) > 1
    <3>1. Len(Path2(q1, p2)) = 2
      BY TwoEdges
    <3>2. Len(Path3(p1, q2, o3)) = 3
      BY ThreeEdges
    <3> QED
      BY <3>1, <3>2
  <2> QED
    BY <2>4, <2>5, <2>7, <2>8, <2>9, <2>12, <2>13, <2>14, CleftBy
<1>4. CASE sa = -1 /\ sb = 1 /\ sc = 0
  <2>0. /\ Runs(old, p1, a, l) /\ Runs(old, q1, l, b) /\ Runs(old, o2, b, c)
        /\ Runs(old, o3, c, a)
        /\ l \notin {a, b, c}
    BY <1>4 DEF Travels, CutBetween
  <2>1. /\ Runs(all, p1, a, l) /\ Runs(all, q1, l, b) /\ Runs(all, o2, b, c)
        /\ Runs(all, o3, c, a)
    BY <2>0, RunsStill
  <2>2. Dealing(r1, Path1(p1), Path1(q1), 0, 0, "immersed")
    <3>1. /\ Append(Path0, p1) = Path1(p1)
          /\ Append(Path0, q1) = Path1(q1)
          /\ Len(Path0) = 0
      BY OneEdge
    <3>2. Dealing(r1, Append(Path0, p1), Append(Path0, q1),
                  0, Len(Path0), "immersed")
      BY <1>4, NoneDealt, DealtTurn
    <3> QED
      BY <3>1, <3>2
  <2>3. Dealing(r2, Path1(p1), Path2(q1, o2), 0, 0, "immersed")
    <3>1. Append(Path1(q1), o2) = Path2(q1, o2)
      BY TwoEdges
    <3>2. Dealing(r2, Path1(p1), Append(Path1(q1), o2),
                  0, 0, "immersed")
      BY <1>4, <2>2, DealtTurn
    <3> QED
      BY <3>1, <3>2
  <2>4. Dealing(r, Path2(p1, o3), Path2(q1, o2), 1, 0, "emerged")
    <3>1. /\ Append(Path1(p1), o3) = Path2(p1, o3)
          /\ Len(Path1(p1)) = 1
      BY TwoEdges, OneEdge
    <3>2. Dealing(r, Append(Path1(p1), o3), Path2(q1, o2),
                  Len(Path1(p1)), 0, "emerged")
      BY <1>4, <2>3, DealtTurn
    <3> QED
      BY <3>1, <3>2
  <2>5. FirstVertex(old, Path2(q1, o2)[0 + 1]) = l /\ FirstVertex(old, Path2(p1, o3)[1 + 1]) = c
    <3>1. Path2(q1, o2)[0 + 1] = q1
      BY TwoEdges
    <3>2. Path2(p1, o3)[1 + 1] = o3
      BY TwoEdges
    <3> QED
      BY <2>0, <3>1, <3>2, RunsEnds
  <2>6. Runs(all, oe, l, c) /\ Runs(all, oi, c, l)
    BY <2>4, <2>5 DEF Dealing
  <2>7. /\ InsertBefore(Path2(p1, o3), oe, 1) = Path3(p1, oe, o3)
        /\ InsertBefore(Path2(q1, o2), oi, 0) = Path3(oi, q1, o2)
    <3>1. InsertBefore(Path2(p1, o3), oe, 1) = Path3(p1, oe, o3)
      BY InsertedInTwo
    <3>2. InsertBefore(Path2(q1, o2), oi, 0) = Path3(oi, q1, o2)
      BY InsertedInTwo
    <3> QED
      BY <3>1, <3>2
  <2>8. Polygon(FacetVertices(all, Path3(p1, oe, o3)),
                {<<a, l>>, <<l, c>>, <<c, a>>})
    BY <2>0, <2>1, <2>6, Triangle
  <2>9. Polygon(FacetVertices(all, Path3(oi, q1, o2)),
                 {<<c, l>>, <<l, b>>, <<b, c>>})
    BY <2>0, <2>1, <2>6, Triangle
  <2>10. es = {<<a, l>>, <<c, a>>} /\ is = {<<l, b>>, <<b, c>>}
    BY <1>4 DEF EmergedWay, ImmersedWay
  <2>11. nodes = {l} /\ ends = {c}
    BY <1>4 DEF NodesOn, EndsInSurface, CutBetween
  <2> HIDE DEF es, is, nodes, ends
  <2>12. /\ {<<a, l>>, <<l, c>>, <<c, a>>} = es \union {<<l, c>>}
         /\ {<<c, l>>, <<l, b>>, <<b, c>>} = is \union {<<c, l>>}
    BY <2>10
  <2>13. l # c /\ {l, c} \subseteq nodes \union ends /\ (l \in nodes \/ c \in nodes)
    BY <2>0, <2>11
  <2>14. Len(Path2(p1, o3)) > 1 /\ Len(Path2(q1, o2)) > 1
    <3>1. Len(Path2(q1, o2)) = 2
      BY TwoEdges
    <3>2. Len(Path2(p1, o3)) = 2
      BY TwoEdges
    <3> QED
      BY <3>1, <3>2
  <2> QED
    BY <2>4, <2>5, <2>7, <2>8, <2>9, <2>12, <2>13, <2>14, CleftBy
<1>5. CASE sa = -1 /\ sb = 1 /\ sc = 1
  <2>0. /\ Runs(old, p1, a, l) /\ Runs(old, q1, l, b) /\ Runs(old, o2, b, c)
        /\ Runs(old, p3, c, n) /\ Runs(old, q3, n, a)
        /\ l \notin {a, b, c} /\ n \notin {a, b, c} /\ l # n
    BY <1>5 DEF Travels, CutBetween
  <2>1. /\ Runs(all, p1, a, l) /\ Runs(all, q1, l, b) /\ Runs(all, o2, b, c)
        /\ Runs(all, p3, c, n) /\ Runs(all, q3, n, a)
    BY <2>0, RunsStill
  <2>2. Dealing(r1, Path1(p1), Path1(q1), 0, 0, "immersed")
    <3>1. /\ Append(Path0, p1) = Path1(p1)
          /\ Append(Path0, q1) = Path1(q1)
          /\ Len(Path0) = 0
      BY OneEdge
    <3>2. Dealing(r1, Append(Path0, p1), Append(Path0, q1),
                  0, Len(Path0), "immersed")
      BY <1>5, NoneDealt, DealtTurn
    <3> QED
      BY <3>1, <3>2
  <2>3. Dealing(r2, Path1(p1), Path2(q1, o2), 0, 0, "immersed")
    <3>1. Append(Path1(q1), o2) = Path2(q1, o2)
      BY TwoEdges
    <3>2. Dealing(r2, Path1(p1), Append(Path1(q1), o2),
                  0, 0, "immersed")
      BY <1>5, <2>2, DealtTurn
    <3> QED
      BY <3>1, <3>2
  <2>4. Dealing(r, Path2(p1, q3), Path3(q1, o2, p3), 1, 0, "emerged")
    <3>1. /\ Append(Path1(p1), q3) = Path2(p1, q3)
          /\ Append(Path2(q1, o2), p3) = Path3(q1, o2, p3)
          /\ Len(Path1(p1)) = 1
      <4>1. Append(Path1(p1), q3) = Path2(p1, q3)
        BY TwoEdges
      <4>2. Append(Path2(q1, o2), p3) = Path3(q1, o2, p3)
        BY ThreeEdges
      <4>3. Len(Path1(p1)) = 1
        BY OneEdge
      <4> QED
        BY <4>1, <4>2, <4>3
    <3>2. Dealing(r, Append(Path1(p1), q3), Append(Path2(q1, o2), p3),
                  Len(Path1(p1)), 0, "emerged")
      BY <1>5, <2>3, DealtTurn
    <3> QED
      BY <3>1, <3>2
  <2>5. FirstVertex(old, Path3(q1, o2, p3)[0 + 1]) = l /\ FirstVertex(old, Path2(p1, q3)[1 + 1]) = n
    <3>1. Path3(q1, o2, p3)[0 + 1] = q1
      BY ThreeEdges
    <3>2. Path2(p1, q3)[1 + 1] = q3
      BY TwoEdges
    <3> QED
      BY <2>0, <3>1, <3>2, RunsEnds
  <2>6. Runs(all, oe, l, n) /\ Runs(all, oi, n, l)
    BY <2>4, <2>5 DEF Dealing
  <2>7. /\ InsertBefore(Path2(p1, q3), oe, 1) = Path3(p1, oe, q3)
        /\ InsertBefore(Path3(q1, o2, p3), oi, 0) = Path4(oi, q1, o2, p3)
    <3>1. InsertBefore(Path2(p1, q3), oe, 1) = Path3(p1, oe, q3)
      BY InsertedInTwo
    <3>2. InsertBefore(Path3(q1, o2, p3), oi, 0) = Path4(oi, q1, o2, p3)
      BY InsertedInThree
    <3> QED
      BY <3>1, <3>2
  <2>8. Polygon(FacetVertices(all, Path3(p1, oe, q3)),
                {<<a, l>>, <<l, n>>, <<n, a>>})
    BY <2>0, <2>1, <2>6, Triangle
  <2>9. Polygon(FacetVertices(all, Path4(oi, q1, o2, p3)),
                 {<<n, l>>, <<l, b>>, <<b, c>>, <<c, n>>})
    BY <2>0, <2>1, <2>6, Quadrangle
  <2>10. es = {<<a, l>>, <<n, a>>} /\ is = {<<l, b>>, <<b, c>>, <<c, n>>}
    BY <1>5 DEF EmergedWay, ImmersedWay
  <2>11. nodes = {l, n} /\ ends = {}
    BY <1>5 DEF NodesOn, EndsInSurface, CutBetween
  <2> HIDE DEF es, is, nodes, ends
  <2>12. /\ {<<a, l>>, <<l, n>>, <<n, a>>} = es \union {<<l, n>>}
         /\ {<<n, l>>, <<l, b>>, <<b, c>>, <<c, n>>} = is \union {<<n, l>>}
    BY <2>10
  <2>13. l # n /\ {l, n} \subseteq nodes \union ends /\ (l \in nodes \/ n \in nodes)
    BY <2>0, <2>11
  <2>14. Len(Path2(p1, q3)) > 1 /\ Len(Path3(q1, o2, p3)) > 1
    <3>1. Len(Path3(q1, o2, p3)) = 3
      BY ThreeEdges
    <3>2. Len(Path2(p1, q3)) = 2
      BY TwoEdges
    <3> QED
      BY <3>1, <3>2
  <2> QED
    BY <2>4, <2>5, <2>7, <2>8, <2>9, <2>12, <2>13, <2>14, CleftBy
<1>6. CASE sa = 0 /\ sb = -1 /\ sc = 1
  <2>0. /\ Runs(old, o1, a, b) /\ Runs(old, p2, b, m) /\ Runs(old, q2, m, c)
        /\ Runs(old, o3, c, a)
        /\ m \notin {a, b, c}
    BY <1>6 DEF Travels, CutBetween
  <2>1. /\ Runs(all, o1, a, b) /\ Runs(all, p2, b, m) /\ Runs(all, q2, m, c)
        /\ Runs(all, o3, c, a)
    BY <2>0, RunsStill
  <2>2. Dealing(r1, Path1(o1), Path0, 0, 0, "emerged")
    <3>1. Append(Path0, o1) = Path1(o1)
      BY OneEdge
    <3>2. Dealing(r1, Append(Path0, o1), Path0,
                  0, 0, "emerged")
      BY <1>6, NoneDealt, DealtTurn
    <3> QED
      BY <3>1, <3>2
  <2>3. Dealing(r2, Path2(o1, p2), Path1(q2), 0, 0, "immersed")
    <3>1. /\ Append(Path1(o1), p2) = Path2(o1, p2)
          /\ Append(Path0, q2) = Path1(q2)
          /\ Len(Path0) = 0
      BY TwoEdges, OneEdge
    <3>2. Dealing(r2, Append(Path1(o1), p2), Append(Path0, q2),
                  0, Len(Path0), "immersed")
      BY <1>6, <2>2, DealtTurn
    <3> QED
      BY <3>1, <3>2
  <2>4. Dealing(r, Path2(o1, p2), Path2(q2, o3), 0, 0, "immersed")
    <3>1. Append(Path1(q2), o3) = Path2(q2, o3)
      BY TwoEdges
    <3>2. Dealing(r, Path2(o1, p2), Append(Path1(q2), o3),
                  0, 0, "immersed")
      BY <1>6, <2>3, DealtTurn
    <3> QED
      BY <3>1, <3>2
  <2>5. FirstVertex(old, Path2(q2, o3)[0 + 1]) = m /\ FirstVertex(old, Path2(o1, p2)[0 + 1]) = a
    <3>1. Path2(q2, o3)[0 + 1] = q2
      BY TwoEdges
    <3>2. Path2(o1, p2)[0 + 1] = o1
      BY TwoEdges
    <3> QED
      BY <2>0, <3>1, <3>2, RunsEnds
  <2>6. Runs(all, oe, m, a) /\ Runs(all, oi, a, m)
    BY <2>4, <2>5 DEF Dealing
  <2>7. /\ InsertBefore(Path2(o1, p2), oe, 0) = Path3(oe, o1, p2)
        /\ InsertBefore(Path2(q2, o3), oi, 0) = Path3(oi, q2, o3)
    <3>1. InsertBefore(Path2(o1, p2), oe, 0) = Path3(oe, o1, p2)
      BY InsertedInTwo
    <3>2. InsertBefore(Path2(q2, o3), oi, 0) = Path3(oi, q2, o3)
      BY InsertedInTwo
    <3> QED
      BY <3>1, <3>2
  <2>8. Polygon(FacetVertices(all, Path3(oe, o1, p2)),
                {<<m, a>>, <<a, b>>, <<b, m>>})
    BY <2>0, <2>1, <2>6, Triangle
  <2>9. Polygon(FacetVertices(all, Path3(oi, q2, o3)),
                 {<<a, m>>, <<m, c>>, <<c, a>>})
    BY <2>0, <2>1, <2>6, Triangle
  <2>10. es = {<<a, b>>, <<b, m>>} /\ is = {<<m, c>>, <<c, a>>}
    BY <1>6 DEF EmergedWay, ImmersedWay
  <2>11. nodes = {m} /\ ends = {a}
    BY <1>6 DEF NodesOn, EndsInSurface, CutBetween
  <2> HIDE DEF es, is, nodes, ends
  <2>12. /\ {<<m, a>>, <<a, b>>, <<b, m>>} = es \union {<<m, a>>}
         /\ {<<a, m>>, <<m, c>>, <<c, a>>} = is \union {<<a, m>>}
    BY <2>10
  <2>13. m # a /\ {m, a} \subseteq nodes \union ends /\ (m \in nodes \/ a \in nodes)
    BY <2>0, <2>11
  <2>14. Len(Path2(o1, p2)) > 1 /\ Len(Path2(q2, o3)) > 1
    <3>1. Len(Path2(q2, o3)) = 2
      BY TwoEdges
    <3>2. Len(Path2(o1, p2)) = 2
      BY TwoEdges
    <3> QED
      BY <3>1, <3>2
  <2> QED
    BY <2>4, <2>5, <2>7, <2>8, <2>9, <2>12, <2>13, <2>14, CleftBy
<1>7. CASE sa = 0 /\ sb = 1 /\ sc = -1
  <2>0. /\ Runs(old, o1, a, b) /\ Runs(old, p2, b, m) /\ Runs(old, q2, m, c)
        /\ Runs(old, o3, c, a)
        /\ m \notin {a, b, c}
    BY <1>7 DEF Travels, CutBetween
  <2>1. /\ Runs(all, o1, a, b) /\ Runs(all, p2, b, m) /\ Runs(all, q2, m, c)
        /\ Runs(all, o3, c, a)
    BY <2>0, RunsStill
  <2>2. Dealing(r1, Path0, Path1(o1), 0, 0, "immersed")
    <3>1. Append(Path0, o1) = Path1(o1)
      BY OneEdge
    <3>2. Dealing(r1, Path0, Append(Path0, o1),
                  0, 0, "immersed")
      BY <1>7, NoneDealt, DealtTurn
    <3> QED
      BY <3>1, <3>2
  <2>3. Dealing(r2, Path1(q2), Path2(o1, p2), 0, 0, "emerged")
    <3>1. /\ Append(Path0, q2) = Path1(q2)
          /\ Append(Path1(o1), p2) = Path2(o1, p2)
          /\ Len(Path0) = 0
      BY OneEdge, TwoEdges
    <3>2. Dealing(r2, Append(Path0, q2), Append(Path1(o1), p2),
                  Len(Path0), 0, "emerged")
      BY <1>7, <2>2, DealtTurn
    <3> QED
      BY <3>1, <3>2
  <2>4. Dealing(r, Path2(q2, o3), Path2(o1, p2), 0, 0, "emerged")
    <3>1. Append(Path1(q2), o3) = Path2(q2, o3)
      BY TwoEdges
    <3>2. Dealing(r, Append(Path1(q2), o3), Path2(o1, p2),
                  0, 0, "emerged")
      BY <1>7, <2>3, DealtTurn
    <3> QED
      BY <3>1, <3>2
  <2>5. FirstVertex(old, Path2(o1, p2)[0 + 1]) = a /\ FirstVertex(old, Path2(q2, o3)[0 + 1]) = m
    <3>1. Path2(o1, p2)[0 + 1] = o1
      BY TwoEdges
    <3>2. Path2(q2, o3)[0 + 1] = q2
      BY TwoEdges
    <3> QED
      BY <2>0, <3>1, <3>2, RunsEnds
  <2>6. Runs(all, oe, a, m) /\ Runs(all, oi, m, a)
    BY <2>4, <2>5 DEF Dealing
  <2>7. /\ InsertBefore(Path2(q2, o3), oe, 0) = Path3(oe, q2, o3)
        /\ InsertBefore(Path2(o1, p2), oi, 0) = Path3(oi, o1, p2)
    <3>1. InsertBefore(Path2(q2, o3), oe, 0) = Path3(oe, q2, o3)
      BY InsertedInTwo
    <3>2. InsertBefore(Path2(o1, p2), oi, 0) = Path3(oi, o1, p2)
      BY InsertedInTwo
    <3> QED
      BY <3>1, <3>2
  <2>8. Polygon(FacetVertices(all, Path3(oe, q2, o3)),
                {<<a, m>>, <<m, c>>, <<c, a>>})
    BY <2>0, <2>1, <2>6, Triangle
  <2>9. Polygon(FacetVertices(all, Path3(oi, o1, p2)),
                 {<<m, a>>, <<a, b>>, <<b, m>>})
    BY <2>0, <2>1, <2>6, Triangle
  <2>10. es = {<<m, c>>, <<c, a>>} /\ is = {<<a, b>>, <<b, m>>}
    BY <1>7 DEF EmergedWay, ImmersedWay
  <2>11. nodes = {m} /\ ends = {a}
    BY <1>7 DEF NodesOn, EndsInSurface, CutBetween
  <2> HIDE DEF es, is, nodes, ends
  <2>12. /\ {<<a, m>>, <<m, c>>, <<c, a>>} = es \union {<<a, m>>}
         /\ {<<m, a>>, <<a, b>>, <<b, m>>} = is \union {<<m, a>>}
    BY <2>10
  <2>13. a # m /\ {a, m} \subseteq nodes \union ends /\ (a \in nodes \/ m \in nodes)
    BY <2>0, <2>11
  <2>14. Len(Path2(q2, o3)) > 1 /\ Len(Path2(o1, p2)) > 1
    <3>1. Len(Path2(o1, p2)) = 2
      BY TwoEdges
    <3>2. Len(Path2(q2, o3)) = 2
      BY TwoEdges
    <3> QED
      BY <3>1, <3>2
  <2> QED
    BY <2>4, <2>5, <2>7, <2>8, <2>9, <2>12, <2>13, <2>14, CleftBy
<1>8. CASE sa = 1 /\ sb = -1 /\ sc = -1
  <2>0. /\ Runs(old, p1, a, l) /\ Runs(old, q1, l, b) /\ Runs(old, o2, b, c)
        /\ Runs(old, p3, c, n) /\ Runs(old, q3, n, a)
        /\ l \notin {a, b, c} /\ n \notin {a, b, c} /\ l # n
    BY <1>8 DEF Travels, CutBetween
  <2>1. /\ Runs(all, p1, a, l) /\ Runs(all, q1, l, b) /\ Runs(all, o2, b, c)
        /\ Runs(all, p3, c, n) /\ Runs(all, q3, n, a)
    BY <2>0, RunsStill
  <2>2. Dealing(r1, Path1(q1), Path1(p1), 0, 0, "emerged")
    <3>1. /\ Append(Path0, q1) = Path1(q1)
          /\ Append(Path0, p1) = Path1(p1)
          /\ Len(Path0) = 0
      BY OneEdge
    <3>2. Dealing(r1, Append(Path0, q1), Append(Path0, p1),
                  Len(Path0), 0, "emerged")
      BY <1>8, NoneDealt, DealtTurn
    <3> QED
      BY <3>1, <3>2
  <2>3. Dealing(r2, Path2(q1, o2), Path1(p1), 0, 0, "emerged")
    <3>1. Append(Path1(q1), o2) = Path2(q1, o2)
      BY TwoEdges
    <3>2. Dealing(r2, Append(Path1(q1), o2), Path1(p1),
                  0, 0, "emerged")
      BY <1>8, <2>2, DealtTurn
    <3> QED
      BY <3>1, <3>2
  <2>4. Dealing(r, Path3(q1, o2, p3), Path2(p1, q3), 0, 1, "immersed")
    <3>1. /\ Append(Path2(q1, o2), p3) = Path3(q1, o2, p3)
          /\ Append(Path1(p1), q3) = Path2(p1, q3)
          /\ Len(Path1(p1)) = 1
      <4>1. Append(Path2(q1, o2), p3) = Path3(q1, o2, p3)
        BY ThreeEdges
      <4>2. Append(Path1(p1), q3) = Path2(p1, q3)
        BY TwoEdges
      <4>3. Len(Path1(p1)) = 1
        BY OneEdge
      <4> QED
        BY <4>1, <4>2, <4>3
    <3>2. Dealing(r, Append(Path2(q1, o2), p3), Append(Path1(p1), q3),
                  0, Len(Path1(p1)), "immersed")
      BY <1>8, <2>3, DealtTurn
    <3> QED
      BY <3>1, <3>2
  <2>5. FirstVertex(old, Path2(p1, q3)[1 + 1]) = n /\ FirstVertex(old, Path3(q1, o2, p3)[0 + 1]) = l
    <3>1. Path2(p1, q3)[1 + 1] = q3
      BY TwoEdges
    <3>2. Path3(q1, o2, p3)[0 + 1] = q1
      BY ThreeEdges
    <3> QED
      BY <2>0, <3>1, <3>2, RunsEnds
  <2>6. Runs(all, oe, n, l) /\ Runs(all, oi, l, n)
    BY <2>4, <2>5 DEF Dealing
  <2>7. /\ InsertBefore(Path3(q1, o2, p3), oe, 0) = Path4(oe, q1, o2, p3)
        /\ InsertBefore(Path2(p1, q3), oi, 1) = Path3(p1, oi, q3)
    <3>1. InsertBefore(Path3(q1, o2, p3), oe, 0) = Path4(oe, q1, o2, p3)
      BY InsertedInThree
    <3>2. InsertBefore(Path2(p1, q3), oi, 1) = Path3(p1, oi, q3)
      BY InsertedInTwo
    <3> QED
      BY <3>1, <3>2
  <2>8. Polygon(FacetVertices(all, Path4(oe, q1, o2, p3)),
                {<<n, l>>, <<l, b>>, <<b, c>>, <<c, n>>})
    BY <2>0, <2>1, <2>6, Quadrangle
  <2>9. Polygon(FacetVertices(all, Path3(p1, oi, q3)),
                 {<<a, l>>, <<l, n>>, <<n, a>>})
    BY <2>0, <2>1, <2>6, Triangle
  <2>10. es = {<<l, b>>, <<b, c>>, <<c, n>>} /\ is = {<<a, l>>, <<n, a>>}
    BY <1>8 DEF EmergedWay, ImmersedWay
  <2>11. nodes = {l, n} /\ ends = {}
    BY <1>8 DEF NodesOn, EndsInSurface, CutBetween
  <2> HIDE DEF es, is, nodes, ends
  <2>12. /\ {<<n, l>>, <<l, b>>, <<b, c>>, <<c, n>>} = es \union {<<n, l>>}
         /\ {<<a, l>>, <<l, n>>, <<n, a>>} = is \union {<<l, n>>}
    BY <2>10
  <2>13. n # l /\ {n, l} \subseteq nodes \union ends /\ (n \in nodes \/ l \in nodes)
    BY <2>0, <2>11
  <2>14. Len(Path3(q1, o2, p3)) > 1 /\ Len(Path2(p1, q3)) > 1
    <3>1. Len(Path2(p1, q3)) = 2
      BY TwoEdges
    <3>2. Len(Path3(q1, o2, p3)) = 3
      BY ThreeEdges
    <3> QED
      BY <3>1, <3>2
  <2> QED
    BY <2>4, <2>5, <2>7, <2>8, <2>9, <2>12, <2>13, <2>14, CleftBy
<1>9. CASE sa = 1 /\ sb = -1 /\ sc = 0
  <2>0. /\ Runs(old, p1, a, l) /\ Runs(old, q1, l, b) /\ Runs(old, o2, b, c)
        /\ Runs(old, o3, c, a)
        /\ l \notin {a, b, c}
    BY <1>9 DEF Travels, CutBetween
  <2>1. /\ Runs(all, p1, a, l) /\ Runs(all, q1, l, b) /\ Runs(all, o2, b, c)
        /\ Runs(all, o3, c, a)
    BY <2>0, RunsStill
  <2>2. Dealing(r1, Path1(q1), Path1(p1), 0, 0, "emerged")
    <3>1. /\ Append(Path0, q1) = Path1(q1)
          /\ Append(Path0, p1) = Path1(p1)
          /\ Len(Path0) = 0
      BY OneEdge
    <3>2. Dealing(r1, Append(Path0, q1), Append(Path0, p1),
                  Len(Path0), 0, "emerged")
      BY <1>9, NoneDealt, DealtTurn
    <3> QED
      BY <3>1, <3>2
  <2>3. Dealing(r2, Path2(q1, o2), Path1(p1), 0, 0, "emerged")
    <3>1. Append(Path1(q1), o2) = Path2(q1, o2)
      BY TwoEdges
    <3>2. Dealing(r2, Append(Path1(q1), o2), Path1(p1),
                  0, 0, "emerged")
      BY <1>9, <2>2, DealtTurn
    <3> QED
      BY <3>1, <3>2
  <2>4. Dealing(r, Path2(q1, o2), Path2(p1, o3), 0, 1, "immersed")
    <3>1. /\ Append(Path1(p1), o3) = Path2(p1, o3)
          /\ Len(Path1(p1)) = 1
      BY TwoEdges, OneEdge
    <3>2. Dealing(r, Path2(q1, o2), Append(Path1(p1), o3),
                  0, Len(Path1(p1)), "immersed")
      BY <1>9, <2>3, DealtTurn
    <3> QED
      BY <3>1, <3>2
  <2>5. FirstVertex(old, Path2(p1, o3)[1 + 1]) = c /\ FirstVertex(old, Path2(q1, o2)[0 + 1]) = l
    <3>1. Path2(p1, o3)[1 + 1] = o3
      BY TwoEdges
    <3>2. Path2(q1, o2)[0 + 1] = q1
      BY TwoEdges
    <3> QED
      BY <2>0, <3>1, <3>2, RunsEnds
  <2>6. Runs(all, oe, c, l) /\ Runs(all, oi, l, c)
    BY <2>4, <2>5 DEF Dealing
  <2>7. /\ InsertBefore(Path2(q1, o2), oe, 0) = Path3(oe, q1, o2)
        /\ InsertBefore(Path2(p1, o3), oi, 1) = Path3(p1, oi, o3)
    <3>1. InsertBefore(Path2(q1, o2), oe, 0) = Path3(oe, q1, o2)
      BY InsertedInTwo
    <3>2. InsertBefore(Path2(p1, o3), oi, 1) = Path3(p1, oi, o3)
      BY InsertedInTwo
    <3> QED
      BY <3>1, <3>2
  <2>8. Polygon(FacetVertices(all, Path3(oe, q1, o2)),
                {<<c, l>>, <<l, b>>, <<b, c>>})
    BY <2>0, <2>1, <2>6, Triangle
  <2>9. Polygon(FacetVertices(all, Path3(p1, oi, o3)),
                 {<<a, l>>, <<l, c>>, <<c, a>>})
    BY <2>0, <2>1, <2>6, Triangle
  <2>10. es = {<<l, b>>, <<b, c>>} /\ is = {<<a, l>>, <<c, a>>}
    BY <1>9 DEF EmergedWay, ImmersedWay
  <2>11. nodes = {l} /\ ends = {c}
    BY <1>9 DEF NodesOn, EndsInSurface, CutBetween
  <2> HIDE DEF es, is, nodes, ends
  <2>12. /\ {<<c, l>>, <<l, b>>, <<b, c>>} = es \union {<<c, l>>}
         /\ {<<a, l>>, <<l, c>>, <<c, a>>} = is \union {<<l, c>>}
    BY <2>10
  <2>13. c # l /\ {c, l} \subseteq nodes \union ends /\ (c \in nodes \/ l \in nodes)
    BY <2>0, <2>11
  <2>14. Len(Path2(q1, o2)) > 1 /\ Len(Path2(p1, o3)) > 1
    <3>1. Len(Path2(p1, o3)) = 2
      BY TwoEdges
    <3>2. Len(Path2(q1, o2)) = 2
      BY TwoEdges
    <3> QED
      BY <3>1, <3>2
  <2> QED
    BY <2>4, <2>5, <2>7, <2>8, <2>9, <2>12, <2>13, <2>14, CleftBy
<1>10. CASE sa = 1 /\ sb = -1 /\ sc = 1
  <2>0. /\ Runs(old, p1, a, l) /\ Runs(old, q1, l, b) /\ Runs(old, p2, b, m)
        /\ Runs(old, q2, m, c) /\ Runs(old, o3, c, a)
        /\ l \notin {a, b, c} /\ m \notin {a, b, c} /\ l # m
    BY <1>10 DEF Travels, CutBetween
  <2>1. /\ Runs(all, p1, a, l) /\ Runs(all, q1, l, b) /\ Runs(all, p2, b, m)
        /\ Runs(all, q2, m, c) /\ Runs(all, o3, c, a)
    BY <2>0, RunsStill
  <2>2. Dealing(r1, Path1(q1), Path1(p1), 0, 0, "emerged")
    <3>1. /\ Append(Path0, q1) = Path1(q1)
          /\ Append(Path0, p1) = Path1(p1)
          /\ Len(Path0) = 0
      BY OneEdge
    <3>2. Dealing(r1, Append(Path0, q1), Append(Path0, p1),
                  Len(Path0), 0, "emerged")
      BY <1>10, NoneDealt, DealtTurn
    <3> QED
      BY <3>1, <3>2
  <2>3. Dealing(r2, Path2(q1, p2), Path2(p1, q2), 0, 1, "immersed")
    <3>1. /\ Append(Path1(q1), p2) = Path2(q1, p2)
          /\ Append(Path1(p1), q2) = Path2(p1, q2)
          /\ Len(Path1(p1)) = 1
      BY TwoEdges, OneEdge
    <3>2. Dealing(r2, Append(Path1(q1), p2), Append(Path1(p1), q2),
                  0, Len(Path1(p1)), "immersed")
      BY <1>10, <2>2, DealtTurn
    <3> QED
      BY <3>1, <3>2
  <2>4. Dealing(r, Path2(q1, p2), Path3(p1, q2, o3), 0, 1, "immersed")
    <3>1. Append(Path2(p1, q2), o3) = Path3(p1, q2, o3)
      BY ThreeEdges
    <3>2. Dealing(r, Path2(q1, p2), Append(Path2(p1, q2), o3),
                  0, 1, "immersed")
      BY <1>10, <2>3, DealtTurn
    <3> QED
      BY <3>1, <3>2
  <2>5. FirstVertex(old, Path3(p1, q2, o3)[1 + 1]) = m /\ FirstVertex(old, Path2(q1, p2)[0 + 1]) = l
    <3>1. Path3(p1, q2, o3)[1 + 1] = q2
      BY ThreeEdges
    <3>2. Path2(q1, p2)[0 + 1] = q1
      BY TwoEdges
    <3> QED
      BY <2>0, <3>1, <3>2, RunsEnds
  <2>6. Runs(all, oe, m, l) /\ Runs(all, oi, l, m)
    BY <2>4, <2>5 DEF Dealing
  <2>7. /\ InsertBefore(Path2(q1, p2), oe, 0) = Path3(oe, q1, p2)
        /\ InsertBefore(Path3(p1, q2, o3), oi, 1) = Path4(p1, oi, q2, o3)
    <3>1. InsertBefore(Path2(q1, p2), oe, 0) = Path3(oe, q1, p2)
      BY InsertedInTwo
    <3>2. InsertBefore(Path3(p1, q2, o3), oi, 1) = Path4(p1, oi, q2, o3)
      BY InsertedInThree
    <3> QED
      BY <3>1, <3>2
  <2>8. Polygon(FacetVertices(all, Path3(oe, q1, p2)),
                {<<m, l>>, <<l, b>>, <<b, m>>})
    BY <2>0, <2>1, <2>6, Triangle
  <2>9. Polygon(FacetVertices(all, Path4(p1, oi, q2, o3)),
                 {<<a, l>>, <<l, m>>, <<m, c>>, <<c, a>>})
    BY <2>0, <2>1, <2>6, Quadrangle
  <2>10. es = {<<l, b>>, <<b, m>>} /\ is = {<<a, l>>, <<m, c>>, <<c, a>>}
    BY <1>10 DEF EmergedWay, ImmersedWay
  <2>11. nodes = {l, m} /\ ends = {}
    BY <1>10 DEF NodesOn, EndsInSurface, CutBetween
  <2> HIDE DEF es, is, nodes, ends
  <2>12. /\ {<<m, l>>, <<l, b>>, <<b, m>>} = es \union {<<m, l>>}
         /\ {<<a, l>>, <<l, m>>, <<m, c>>, <<c, a>>} = is \union {<<l, m>>}
    BY <2>10
  <2>13. m # l /\ {m, l} \subseteq nodes \union ends /\ (m \in nodes \/ l \in nodes)
    BY <2>0, <2>11
  <2>14. Len(Path2(q1, p2)) > 1 /\ Len(Path3(p1, q2, o3)) > 1
    <3>1. Len(Path3(p1, q2, o3)) = 3
      BY ThreeEdges
    <3>2. Len(Path2(q1, p2)) = 2
      BY TwoEdges
    <3> QED
      BY <3>1, <3>2
  <2> QED
    BY <2>4, <2>5, <2>7, <2>8, <2>9, <2>12, <2>13, <2>14, CleftBy
<1>11. CASE sa = 1 /\ sb = 0 /\ sc = -1
  <2>0. /\ Runs(old, o1, a, b) /\ Runs(old, o2, b, c) /\ Runs(old, p3, c, n)
        /\ Runs(old, q3, n, a)
        /\ n \notin {a, b, c}
    BY <1>11 DEF Travels, CutBetween
  <2>1. /\ Runs(all, o1, a, b) /\ Runs(all, o2, b, c) /\ Runs(all, p3, c, n)
        /\ Runs(all, q3, n, a)
    BY <2>0, RunsStill
  <2>2. Dealing(r1, Path0, Path1(o1), 0, 0, "immersed")
    <3>1. Append(Path0, o1) = Path1(o1)
      BY OneEdge
    <3>2. Dealing(r1, Path0, Append(Path0, o1),
                  0, 0, "immersed")
      BY <1>11, NoneDealt, DealtTurn
    <3> QED
      BY <3>1, <3>2
  <2>3. Dealing(r2, Path1(o2), Path1(o1), 0, 0, "emerged")
    <3>1. /\ Append(Path0, o2) = Path1(o2)
          /\ Len(Path0) = 0
      BY OneEdge
    <3>2. Dealing(r2, Append(Path0, o2), Path1(o1),
                  Len(Path0), 0, "emerged")
      BY <1>11, <2>2, DealtTurn
    <3> QED
      BY <3>1, <3>2
  <2>4. Dealing(r, Path2(o2, p3), Path2(o1, q3), 0, 1, "immersed")
    <3>1. /\ Append(Path1(o2), p3) = Path2(o2, p3)
          /\ Append(Path1(o1), q3) = Path2(o1, q3)
          /\ Len(Path1(o1)) = 1
      BY TwoEdges, OneEdge
    <3>2. Dealing(r, Append(Path1(o2), p3), Append(Path1(o1), q3),
                  0, Len(Path1(o1)), "immersed")
      BY <1>11, <2>3, DealtTurn
    <3> QED
      BY <3>1, <3>2
  <2>5. FirstVertex(old, Path2(o1, q3)[1 + 1]) = n /\ FirstVertex(old, Path2(o2, p3)[0 + 1]) = b
    <3>1. Path2(o1, q3)[1 + 1] = q3
      BY TwoEdges
    <3>2. Path2(o2, p3)[0 + 1] = o2
      BY TwoEdges
    <3> QED
      BY <2>0, <3>1, <3>2, RunsEnds
  <2>6. Runs(all, oe, n, b) /\ Runs(all, oi, b, n)
    BY <2>4, <2>5 DEF Dealing
  <2>7. /\ InsertBefore(Path2(o2, p3), oe, 0) = Path3(oe, o2, p3)
        /\ InsertBefore(Path2(o1, q3), oi, 1) = Path3(o1, oi, q3)
    <3>1. InsertBefore(Path2(o2, p3), oe, 0) = Path3(oe, o2, p3)
      BY InsertedInTwo
    <3>2. InsertBefore(Path2(o1, q3), oi, 1) = Path3(o1, oi, q3)
      BY InsertedInTwo
    <3> QED
      BY <3>1, <3>2
  <2>8. Polygon(FacetVertices(all, Path3(oe, o2, p3)),
                {<<n, b>>, <<b, c>>, <<c, n>>})
    BY <2>0, <2>1, <2>6, Triangle
  <2>9. Polygon(FacetVertices(all, Path3(o1, oi, q3)),
                 {<<a, b>>, <<b, n>>, <<n, a>>})
    BY <2>0, <2>1, <2>6, Triangle
  <2>10. es = {<<b, c>>, <<c, n>>} /\ is = {<<a, b>>, <<n, a>>}
    BY <1>11 DEF EmergedWay, ImmersedWay
  <2>11. nodes = {n} /\ ends = {b}
    BY <1>11 DEF NodesOn, EndsInSurface, CutBetween
  <2> HIDE DEF es, is, nodes, ends
  <2>12. /\ {<<n, b>>, <<b, c>>, <<c, n>>} = es \union {<<n, b>>}
         /\ {<<a, b>>, <<b, n>>, <<n, a>>} = is \union {<<b, n>>}
    BY <2>10
  <2>13. n # b /\ {n, b} \subseteq nodes \union ends /\ (n \in nodes \/ b \in nodes)
    BY <2>0, <2>11
  <2>14. Len(Path2(o2, p3)) > 1 /\ Len(Path2(o1, q3)) > 1
    <3>1. Len(Path2(o1, q3)) = 2
      BY TwoEdges
    <3>2. Len(Path2(o2, p3)) = 2
      BY TwoEdges
    <3> QED
      BY <3>1, <3>2
  <2> QED
    BY <2>4, <2>5, <2>7, <2>8, <2>9, <2>12, <2>13, <2>14, CleftBy
<1>12. CASE sa = 1 /\ sb = 1 /\ sc = -1
  <2>0. /\ Runs(old, o1, a, b) /\ Runs(old, p2, b, m) /\ Runs(old, q2, m, c)
        /\ Runs(old, p3, c, n) /\ Runs(old, q3, n, a)
        /\ m \notin {a, b, c} /\ n \notin {a, b, c} /\ m # n
    BY <1>12 DEF Travels, CutBetween
  <2>1. /\ Runs(all, o1, a, b) /\ Runs(all, p2, b, m) /\ Runs(all, q2, m, c)
        /\ Runs(all, p3, c, n) /\ Runs(all, q3, n, a)
    BY <2>0, RunsStill
  <2>2. Dealing(r1, Path0, Path1(o1), 0, 0, "immersed")
    <3>1. Append(Path0, o1) = Path1(o1)
      BY OneEdge
    <3>2. Dealing(r1, Path0, Append(Path0, o1),
                  0, 0, "immersed")
      BY <1>12, NoneDealt, DealtTurn
    <3> QED
      BY <3>1, <3>2
  <2>3. Dealing(r2, Path1(q2), Path2(o1, p2), 0, 0, "emerged")
    <3>1. /\ Append(Path0, q2) = Path1(q2)
          /\ Append(Path1(o1), p2) = Path2(o1, p2)
          /\ Len(Path0) = 0
      BY OneEdge, TwoEdges
    <3>2. Dealing(r2, Append(Path0, q2), Append(Path1(o1), p2),
                  Len(Path0), 0, "emerged")
      BY <1>12, <2>2, DealtTurn
    <3> QED
      BY <3>1, <3>2
  <2>4. Dealing(r, Path2(q2, p3), Path3(o1, p2, q3), 0, 2, "immersed")
    <3>1. /\ Append(Path1(q2), p3) = Path2(q2, p3)
          /\ Append(Path2(o1, p2), q3) = Path3(o1, p2, q3)
          /\ Len(Path2(o1, p2)) = 2
      BY TwoEdges, ThreeEdges
    <3>2. Dealing(r, Append(Path1(q2), p3), Append(Path2(o1, p2), q3),
                  0, Len(Path2(o1, p2)), "immersed")
      BY <1>12, <2>3, DealtTurn
    <3> QED
      BY <3>1, <3>2
  <2>5. FirstVertex(old, Path3(o1, p2, q3)[2 + 1]) = n /\ FirstVertex(old, Path2(q2, p3)[0 + 1]) = m
    <3>1. Path3(o1, p2, q3)[2 + 1] = q3
      BY ThreeEdges
    <3>2. Path2(q2, p3)[0 + 1] = q2
      BY TwoEdges
    <3> QED
      BY <2>0, <3>1, <3>2, RunsEnds
  <2>6. Runs(all, oe, n, m) /\ Runs(all, oi, m, n)
    BY <2>4, <2>5 DEF Dealing
  <2>7. /\ InsertBefore(Path2(q2, p3), oe, 0) = Path3(oe, q2, p3)
        /\ InsertBefore(Path3(o1, p2, q3), oi, 2) = Path4(o1, p2, oi, q3)
    <3>1. InsertBefore(Path2(q2, p3), oe, 0) = Path3(oe, q2, p3)
      BY InsertedInTwo
    <3>2. InsertBefore(Path3(o1, p2, q3), oi, 2) = Path4(o1, p2, oi, q3)
      BY InsertedInThree
    <3> QED
      BY <3>1, <3>2
  <2>8. Polygon(FacetVertices(all, Path3(oe, q2, p3)),
                {<<n, m>>, <<m, c>>, <<c, n>>})
    BY <2>0, <2>1, <2>6, Triangle
  <2>9. Polygon(FacetVertices(all, Path4(o1, p2, oi, q3)),
                 {<<a, b>>, <<b, m>>, <<m, n>>, <<n, a>>})
    BY <2>0, <2>1, <2>6, Quadrangle
  <2>10. es = {<<m, c>>, <<c, n>>} /\ is = {<<a, b>>, <<b, m>>, <<n, a>>}
    BY <1>12 DEF EmergedWay, ImmersedWay
  <2>11. nodes = {m, n} /\ ends = {}
    BY <1>12 DEF NodesOn, EndsInSurface, CutBetween
  <2> HIDE DEF es, is, nodes, ends
  <2>12. /\ {<<n, m>>, <<m, c>>, <<c, n>>} = es \union {<<n, m>>}
         /\ {<<a, b>>, <<b, m>>, <<m, n>>, <<n, a>>} = is \union {<<m, n>>}
    BY <2>10
  <2>13. n # m /\ {n, m} \subseteq nodes \union ends /\ (n \in nodes \/ m \in nodes)
    BY <2>0, <2>11
  <2>14. Len(Path2(q2, p3)) > 1 /\ Len(Path3(o1, p2, q3)) > 1
    <3>1. Len(Path3(o1, p2, q3)) = 3
      BY ThreeEdges
    <3>2. Len(Path2(q2, p3)) = 2
      BY TwoEdges
    <3> QED
      BY <3>1, <3>2
  <2> QED
    BY <2>4, <2>5, <2>7, <2>8, <2>9, <2>12, <2>13, <2>14, CleftBy
<1>13. \/ sa = -1 /\ sb = -1 /\ sc = 1
       \/ sa = -1 /\ sb = 0 /\ sc = 1
       \/ sa = -1 /\ sb = 1 /\ sc = -1
       \/ sa = -1 /\ sb = 1 /\ sc = 0
       \/ sa = -1 /\ sb = 1 /\ sc = 1
       \/ sa = 0 /\ sb = -1 /\ sc = 1
       \/ sa = 0 /\ sb = 1 /\ sc = -1
       \/ sa = 1 /\ sb = -1 /\ sc = -1
       \/ sa = 1 /\ sb = -1 /\ sc = 0
       \/ sa = 1 /\ sb = -1 /\ sc = 1
       \/ sa = 1 /\ sb = 0 /\ sc = -1
       \/ sa = 1 /\ sb = 1 /\ sc = -1
  OBVIOUS
<1> QED
  BY <1>1, <1>2, <1>3, <1>4, <1>5, <1>6, <1>7, <1>8, <1>9, <1>10, <1>11, <1>12, <1>13

-----------------------------------------------------------------------------
(* The facets of the two parts.                                             *)

SignOf(h, zs, f, k) == zs[h.facets[f][k]]

(* One turn of the loop on the edges of a facet, and the three of them. *)
TurnOf(h, zs, f, k, r) ==
  LET cut == CutEdges(h, zs)
      o == h.oriented[f][k]
  IN  DealtBy(r, o, FirstLeg(cut, o), SecondLeg(cut, o),
              SignOf(h, zs, f, k), SignOf(h, zs, f, NextPlace(k)))
AllDealt(h, zs, f) ==
  TurnOf(h, zs, f, 3, TurnOf(h, zs, f, 2, TurnOf(h, zs, f, 1, NoEdges)))

\* Dealing the edges of a facet takes three turns.
LEMMA DealtInThree ==
  ASSUME NEW h \in {Build(g) : g \in Hulls}, ProperHulls,
         NEW zs \in [1 .. h.vertices -> Immersions],
         NEW f \in DOMAIN h.facets
  PROVE  Dealt(h.oriented[f], CutEdges(h, zs).status, CutEdges(h, zs).half) = AllDealt(h, zs, f)
<1> DEFINE cut == CutEdges(h, zs)
           path == h.oriented[f]
           turn(r, k) == Deal(r, path[k], cut.status, cut.half)
<1>1. Len(path) = 3
  BY BuiltFacets
<1>2. \A k \in 1 .. 3 : \A r : turn(r, k) = TurnOf(h, zs, f, k, r)
  <2> SUFFICES ASSUME NEW k \in 1 .. 3, NEW r
               PROVE  turn(r, k) = TurnOf(h, zs, f, k, r)
    OBVIOUS
  <2>1. \A q : Deal(q, path[k], cut.status, cut.half)
                = DealtBy(q, path[k], FirstLeg(cut, path[k]), SecondLeg(cut, path[k]),
                          zs[h.facets[f][k]], zs[h.facets[f][NextPlace(k)]])
    BY DealBySigns, Zenon
  <2>2. turn(r, k) = DealtBy(r, path[k], FirstLeg(cut, path[k]), SecondLeg(cut, path[k]),
                             zs[h.facets[f][k]], zs[h.facets[f][NextPlace(k)]])
    BY <2>1, Zenon
  <2> QED
    BY <2>2, Zenon DEF TurnOf, SignOf
<1> DEFINE d1 == turn(NoEdges, 1)
           d2 == turn(d1, 2)
           d3 == turn(d2, 3)
           isDeal(g) == g = [k \in 0 .. Len(path) |-> IF k = 0 THEN NoEdges ELSE turn(g[k - 1], k)]
           deal == CHOOSE g : isDeal(g)
<1>3. Dealt(path, cut.status, cut.half) = deal[Len(path)]
  BY DEF Dealt
<1> HIDE DEF turn, path
<1>4. \E g : isDeal(g)
  <2> DEFINE g == [k \in 0 .. 3 |-> IF k = 0 THEN NoEdges ELSE IF k = 1 THEN d1
                                    ELSE IF k = 2 THEN d2 ELSE d3]
  <2>1. g[0] = NoEdges /\ g[1] = d1 /\ g[2] = d2
    OBVIOUS
  <2> DEFINE e == [k \in 0 .. 3 |-> IF k = 0 THEN NoEdges ELSE turn(g[k - 1], k)]
  <2>2. ASSUME NEW k \in 0 .. 3
        PROVE  g[k] = e[k]
    <3>1. k = 0 \/ k = 1 \/ k = 2 \/ k = 3
      OBVIOUS
    <3>2. g[3] = d3
      OBVIOUS
    <3> HIDE DEF g, d1, d2, d3
    <3>3. e[0] = NoEdges /\ e[1] = turn(g[0], 1) /\ e[2] = turn(g[1], 2) /\ e[3] = turn(g[2], 3)
      OBVIOUS
    <3>4. e[1] = d1 /\ e[2] = d2 /\ e[3] = d3
      BY <2>1, <3>3 DEF d1, d2, d3
    <3> QED
      BY <2>1, <3>1, <3>2, <3>3, <3>4
  <2>3. g = [k \in 0 .. 3 |-> g[k]]
    OBVIOUS
  <2>4. e = [k \in 0 .. 3 |-> e[k]]
    <3> HIDE DEF g
    <3> QED
      OBVIOUS
  <2> HIDE DEF g
  <2>5. g = e
    <3> HIDE DEF e
    <3> QED
      BY <2>2, <2>3, <2>4
  <2> QED
    BY <1>1, <2>5
<1>5. isDeal(deal)
  BY <1>4
<1> HIDE DEF deal
<1>6. deal[0] = NoEdges /\ deal[1] = d1 /\ deal[2] = d2 /\ deal[3] = d3
  <2>1. deal = [k \in 0 .. 3 |-> IF k = 0 THEN NoEdges ELSE turn(deal[k - 1], k)]
    BY <1>1, <1>5
  <2> HIDE DEF isDeal
  <2>2. deal[0] = NoEdges
    BY <2>1
  <2>3. deal[1] = turn(deal[0], 1) /\ deal[2] = turn(deal[1], 2) /\ deal[3] = turn(deal[2], 3)
    BY <2>1
  <2> QED
    BY <2>2, <2>3
<1>7. d3 = AllDealt(h, zs, f)
  <2>1. d1 = TurnOf(h, zs, f, 1, NoEdges)
    BY <1>2
  <2> HIDE DEF d1
  <2>2. d2 = TurnOf(h, zs, f, 2, d1)
    BY <1>2
  <2> HIDE DEF d2
  <2>3. d3 = TurnOf(h, zs, f, 3, d2)
    BY <1>2
  <2> HIDE DEF d3
  <2> QED
    BY <2>1, <2>2, <2>3 DEF AllDealt
<1> HIDE DEF d3
<1> QED
  BY <1>1, <1>3, <1>6, <1>7 DEF path

(* How many edges each part has been dealt. *)
Lengths(r, S, ne, ni) ==
  /\ DOMAIN r = {"emerged", "immersed", "firstEmerged", "firstImmersed", "side"}
  /\ r.emerged \in Seq(S) /\ Len(r.emerged) = ne
  /\ r.immersed \in Seq(S) /\ Len(r.immersed) = ni

Twice(x, y) == IF x = 0 /\ y = 0 THEN 1 ELSE 0

\* An edge that is not cut goes to one part, or to both if it is in the surface.
LEMMA TurnLengths ==
  ASSUME NEW S, NEW r, NEW ne \in Nat, NEW ni \in Nat, Lengths(r, S, ne, ni),
         NEW o \in S, NEW p, NEW q, NEW x \in {-1, 0, 1}, NEW y \in {-1, 0, 1},
         NEW t, t = DealtBy(r, o, p, q, x, y)
  PROVE  /\ x <= 0 /\ y <= 0 => Lengths(t, S, ne + 1, ni + Twice(x, y))
         /\ x >= 0 /\ y >= 0 => Lengths(t, S, ne + Twice(x, y), ni + 1)
<1> DEFINE e == r.emerged
           i == r.immersed
<1>1. /\ e \in Seq(S) /\ Len(e) = ne /\ i \in Seq(S) /\ Len(i) = ni
      /\ DOMAIN r = {"emerged", "immersed", "firstEmerged", "firstImmersed", "side"}
  BY DEF Lengths
<1>2. /\ Append(e, o) \in Seq(S) /\ Len(Append(e, o)) = ne + 1
      /\ Append(i, o) \in Seq(S) /\ Len(Append(i, o)) = ni + 1
  <2> HIDE DEF e, i
  <2> QED
    BY <1>1, AppendProperties
<1>3. CASE x = 0 /\ y = 0
  <2>1. t = TouchBoth(r, o)
    BY <1>3 DEF DealtBy
  <2>2. /\ t.emerged = Append(e, o) /\ t.immersed = Append(i, o)
        /\ DOMAIN t = {"emerged", "immersed", "firstEmerged", "firstImmersed", "side"}
    BY <1>1, <2>1 DEF TouchBoth
  <2>3. Lengths(t, S, ne + 1, ni + 1)
    BY <1>2, <2>2 DEF Lengths
  <2> QED
    BY <1>3, <2>3 DEF Twice
<1>4. CASE x <= 0 /\ y <= 0 /\ ~ (x = 0 /\ y = 0)
  <2>1. t = PutEmerged(r, o)
    BY <1>4 DEF DealtBy
  <2>2. /\ t.emerged = Append(e, o) /\ t.immersed = i
        /\ DOMAIN t = {"emerged", "immersed", "firstEmerged", "firstImmersed", "side"}
    BY <1>1, <2>1 DEF PutEmerged
  <2>3. Lengths(t, S, ne + 1, ni)
    BY <1>1, <1>2, <2>2 DEF Lengths
  <2>4. ni + Twice(x, y) = ni
    BY <1>4 DEF Twice
  <2> QED
    BY <1>4, <2>3, <2>4
<1>5. CASE x >= 0 /\ y >= 0 /\ ~ (x = 0 /\ y = 0)
  <2>1. t = PutImmersed(r, o)
    BY <1>5 DEF DealtBy
  <2>2. /\ t.emerged = e /\ t.immersed = Append(i, o)
        /\ DOMAIN t = {"emerged", "immersed", "firstEmerged", "firstImmersed", "side"}
    BY <1>1, <2>1 DEF PutImmersed
  <2>3. Lengths(t, S, ne, ni + 1)
    BY <1>1, <1>2, <2>2 DEF Lengths
  <2>4. ne + Twice(x, y) = ne
    BY <1>5 DEF Twice
  <2> QED
    BY <1>5, <2>3, <2>4
<1> QED
  BY <1>3, <1>4, <1>5

\* A triangle on one side of the surface, or in it: it is dealt to one part, or
\* whole to both.
LEMMA ThreeTurns ==
  ASSUME NEW sa \in {-1, 0, 1}, NEW sb \in {-1, 0, 1}, NEW sc \in {-1, 0, 1},
         NEW o1, NEW p1, NEW q1, NEW o2, NEW p2, NEW q2, NEW o3, NEW p3, NEW q3,
         NEW r1, r1 = DealtBy(NoEdges, o1, p1, q1, sa, sb),
         NEW r2, r2 = DealtBy(r1, o2, p2, q2, sb, sc),
         NEW r, r = DealtBy(r2, o3, p3, q3, sc, sa)
  PROVE  /\ sa <= 0 /\ sb <= 0 /\ sc <= 0 /\ ~ (sa = 0 /\ sb = 0 /\ sc = 0) =>
              Len(r.emerged) = 3 /\ Len(r.immersed) \in {0, 1}
         /\ sa >= 0 /\ sb >= 0 /\ sc >= 0 /\ ~ (sa = 0 /\ sb = 0 /\ sc = 0) =>
              Len(r.immersed) = 3 /\ Len(r.emerged) \in {0, 1}
         /\ sa = 0 /\ sb = 0 /\ sc = 0 =>
              Dealing(r, Path3(o1, o2, o3), Path3(o1, o2, o3), 0, 0, "none")
<1> DEFINE S == {o1, o2, o3}
           n1 == 0 + Twice(sa, sb)
           n2 == n1 + Twice(sb, sc)
           n3 == n2 + Twice(sc, sa)
           c1 == 0 + 1
           c2 == c1 + 1
           c3 == c2 + 1
<1>1. Lengths(NoEdges, S, 0, 0)
  BY EmptySeq DEF Lengths, NoEdges
<1>2. o1 \in S /\ o2 \in S /\ o3 \in S
  OBVIOUS
<1>3. 0 \in Nat /\ n1 \in Nat /\ n2 \in Nat /\ c1 \in Nat /\ c2 \in Nat /\ c3 = 3
  BY DEF Twice
<1>4. ~ (sa = 0 /\ sb = 0 /\ sc = 0) => n3 \in {0, 1}
  BY DEF Twice
<1> HIDE DEF S
<1>5. ASSUME sa <= 0, sb <= 0, sc <= 0
      PROVE  Lengths(r, S, c3, n3)
  <2>1. Lengths(r1, S, c1, n1)
    BY <1>1, <1>2, <1>3, <1>5, TurnLengths, Zenon
  <2> HIDE DEF n1, c1
  <2>2. Lengths(r2, S, c2, n2)
    BY <1>2, <1>3, <1>5, <2>1, TurnLengths, Zenon
  <2> HIDE DEF n2, c2
  <2> QED
    BY <1>2, <1>3, <1>5, <2>2, TurnLengths, Zenon
<1>6. ASSUME sa >= 0, sb >= 0, sc >= 0
      PROVE  Lengths(r, S, n3, c3)
  <2>1. Lengths(r1, S, n1, c1)
    BY <1>1, <1>2, <1>3, <1>6, TurnLengths, Zenon
  <2> HIDE DEF n1, c1
  <2>2. Lengths(r2, S, n2, c2)
    BY <1>2, <1>3, <1>6, <2>1, TurnLengths, Zenon
  <2> HIDE DEF n2, c2
  <2> QED
    BY <1>2, <1>3, <1>6, <2>2, TurnLengths, Zenon
<1>7. ASSUME sa = 0, sb = 0, sc = 0
      PROVE  Dealing(r, Path3(o1, o2, o3), Path3(o1, o2, o3), 0, 0, "none")
  <2>1. Dealing(r1, Path1(o1), Path1(o1), 0, 0, "none")
    <3>1. r1 = TouchBoth(NoEdges, o1) /\ Append(Path0, o1) = Path1(o1)
      BY <1>7, OneEdge DEF DealtBy
    <3> QED
      BY <3>1, NoneDealt, Turns
  <2>2. Dealing(r2, Path2(o1, o2), Path2(o1, o2), 0, 0, "none")
    <3>1. r2 = TouchBoth(r1, o2) /\ Append(Path1(o1), o2) = Path2(o1, o2)
      BY <1>7, TwoEdges DEF DealtBy
    <3> QED
      BY <2>1, <3>1, Turns
  <2>3. r = TouchBoth(r2, o3) /\ Append(Path2(o1, o2), o3) = Path3(o1, o2, o3)
    BY <1>7, ThreeEdges DEF DealtBy
  <2> QED
    BY <2>2, <2>3, Turns
<1> HIDE DEF n3, c3
<1>8. /\ Lengths(r, S, c3, n3) => Len(r.emerged) = 3 /\ Len(r.immersed) = n3
      /\ Lengths(r, S, n3, c3) => Len(r.immersed) = 3 /\ Len(r.emerged) = n3
  BY <1>3, Zenon DEF Lengths
<1> QED
  BY <1>4, <1>5, <1>7, <1>6, <1>8

(* Facets with a vertex above the surface, or under it. *)
AnyEmerged(h, zs, f) == \E k \in 1 .. 3 : SignOf(h, zs, f, k) < 0
AnyImmersed(h, zs, f) == \E k \in 1 .. 3 : SignOf(h, zs, f, k) > 0

\* The signs of a facet.
LEMMA SignsType ==
  ASSUME NEW h \in {Build(g) : g \in Hulls}, ProperHulls,
         NEW zs \in [1 .. h.vertices -> Immersions], NEW f \in DOMAIN h.facets
  PROVE  /\ \A k \in 1 .. 3 : SignOf(h, zs, f, k) \in {-1, 0, 1}
         /\ LET sa == SignOf(h, zs, f, 1)
                sb == SignOf(h, zs, f, 2)
                sc == SignOf(h, zs, f, 3)
            IN  /\ AnyEmerged(h, zs, f) <=> sa < 0 \/ sb < 0 \/ sc < 0
                /\ AnyImmersed(h, zs, f) <=> sa > 0 \/ sb > 0 \/ sc > 0
<1>1. ASSUME NEW k \in 1 .. 3
      PROVE  SignOf(h, zs, f, k) \in {-1, 0, 1}
  <2>1. h.facets[f][k] \in 1 .. h.vertices
    BY BuiltFacets
  <2>2. zs[h.facets[f][k]] \in Immersions
    BY <2>1
  <2> QED
    BY <2>2, HullAssumption DEF SignOf
<1>2. 1 .. 3 = {1, 2, 3}
  OBVIOUS
<1> QED
  BY <1>1, <1>2 DEF AnyEmerged, AnyImmersed

\* classify_or_split: the facets dealt are all but those strictly on one side.
LEMMA ReachedBySigns ==
  ASSUME NEW h \in {Build(g) : g \in Hulls}, ProperHulls,
         NEW zs \in [1 .. h.vertices -> Immersions], NEW f \in DOMAIN h.facets
  PROVE  Reached(h, CutEdges(h, zs).status, f) <=>
           /\ \E k \in 1 .. 3 : SignOf(h, zs, f, k) >= 0
           /\ \E k \in 1 .. 3 : SignOf(h, zs, f, k) <= 0
<1> DEFINE status == CutEdges(h, zs).status
           s(k) == status[h.oriented[f][k].edge]
           x(k) == SignOf(h, zs, f, k)
<1>1. Reached(h, status, f) <=> \E k \in 1 .. 3 : Meets(s(k))
  <2>1. DOMAIN h.oriented[f] = 1 .. 3
    BY BuiltFacets
  <2> QED
    BY <2>1 DEF Reached, Meets
<1>2. ASSUME NEW k \in 1 .. 3
      PROVE  Meets(s(k)) <=> /\ ~ (x(k) < 0 /\ x(NextPlace(k)) < 0)
                             /\ ~ (x(k) > 0 /\ x(NextPlace(k)) > 0)
  BY DealBySigns DEF SignOf
<1>3. \A k \in 1 .. 3 : x(k) \in {-1, 0, 1}
  BY SignsType
<1>4. NextPlace(1) = 2 /\ NextPlace(2) = 3 /\ NextPlace(3) = 1 /\ 1 .. 3 = {1, 2, 3}
  BY DEF NextPlace
<1> HIDE DEF x, s, status
<1>5. (\E k \in 1 .. 3 : Meets(s(k))) <=>
        \/ ~ (x(1) < 0 /\ x(2) < 0) /\ ~ (x(1) > 0 /\ x(2) > 0)
        \/ ~ (x(2) < 0 /\ x(3) < 0) /\ ~ (x(2) > 0 /\ x(3) > 0)
        \/ ~ (x(3) < 0 /\ x(1) < 0) /\ ~ (x(3) > 0 /\ x(1) > 0)
  <2>1. (\E k \in 1 .. 3 : Meets(s(k))) <=> Meets(s(1)) \/ Meets(s(2)) \/ Meets(s(3))
    BY <1>4, Zenon
  <2> QED
    BY <1>2, <1>4, <2>1
<1>6. (\E k \in 1 .. 3 : x(k) >= 0) <=> x(1) >= 0 \/ x(2) >= 0 \/ x(3) >= 0
  BY <1>4
<1>7. (\E k \in 1 .. 3 : x(k) <= 0) <=> x(1) <= 0 \/ x(2) <= 0 \/ x(3) <= 0
  BY <1>4
<1>8. x(1) \in {-1, 0, 1} /\ x(2) \in {-1, 0, 1} /\ x(3) \in {-1, 0, 1}
  BY <1>3
<1>9. Reached(h, status, f) <=> (\E k \in 1 .. 3 : x(k) >= 0) /\ (\E k \in 1 .. 3 : x(k) <= 0)
  BY <1>1, <1>5, <1>6, <1>7, <1>8
<1> QED
  BY <1>9 DEF x, status

(***************************************************************************)
(* The sides a facet gives to each part, the nodes put on them, its        *)
(* vertices in the surface, and the edge along which it is cut.            *)
(***************************************************************************)
NodeAt(h, zs, f, k) == NodeOf(h, zs, h.oriented[f][k].edge)
EmergedSide(h, zs, f, k) ==
  EmergedWay(h.facets[f][k], h.facets[f][NextPlace(k)], NodeAt(h, zs, f, k),
             SignOf(h, zs, f, k), SignOf(h, zs, f, NextPlace(k)))
ImmersedSide(h, zs, f, k) ==
  ImmersedWay(h.facets[f][k], h.facets[f][NextPlace(k)], NodeAt(h, zs, f, k),
              SignOf(h, zs, f, k), SignOf(h, zs, f, NextPlace(k)))
NodesAt(h, zs, f, k) ==
  NodesOn(NodeAt(h, zs, f, k), SignOf(h, zs, f, k), SignOf(h, zs, f, NextPlace(k)))
EndsAt(h, zs, f, k) == EndsInSurface(h.facets[f][k], SignOf(h, zs, f, k))

EmergedSides(h, zs, f) ==
  EmergedSide(h, zs, f, 1) \union EmergedSide(h, zs, f, 2) \union EmergedSide(h, zs, f, 3)
ImmersedSides(h, zs, f) ==
  ImmersedSide(h, zs, f, 1) \union ImmersedSide(h, zs, f, 2) \union ImmersedSide(h, zs, f, 3)
CutNodes(h, zs, f) ==
  NodesAt(h, zs, f, 1) \union NodesAt(h, zs, f, 2) \union NodesAt(h, zs, f, 3)
SurfaceEnds(h, zs, f) ==
  EndsAt(h, zs, f, 1) \union EndsAt(h, zs, f, 2) \union EndsAt(h, zs, f, 3)

ClosingStart(h, zs, f) ==
  LET r == AllDealt(h, zs, f)
  IN  FirstVertex(CutEdges(h, zs).edges, r.immersed[r.firstImmersed + 1])
ClosingEnd(h, zs, f) ==
  LET r == AllDealt(h, zs, f)
  IN  FirstVertex(CutEdges(h, zs).edges, r.emerged[r.firstEmerged + 1])

\* What is known of the nodes of a facet.
LEMMA NodesApart ==
  ASSUME NEW h \in {Build(g) : g \in Hulls}, ProperHulls,
         NEW zs \in [1 .. h.vertices -> Immersions], NEW f \in DOMAIN h.facets
  PROVE  /\ \A k \in 1 .. 3 : CutBetween(SignOf(h, zs, f, k), SignOf(h, zs, f, NextPlace(k))) =>
              /\ h.oriented[f][k].edge \in Crossing(h, zs)
              /\ \A j \in 1 .. 3 : NodeAt(h, zs, f, k) # h.facets[f][j]
         /\ \A k \in 1 .. 3 :
              /\ CutBetween(SignOf(h, zs, f, k), SignOf(h, zs, f, NextPlace(k)))
              /\ CutBetween(SignOf(h, zs, f, NextPlace(k)),
                            SignOf(h, zs, f, NextPlace(NextPlace(k))))
              => NodeAt(h, zs, f, k) # NodeAt(h, zs, f, NextPlace(k))
<1>1. ASSUME NEW k \in 1 .. 3, CutBetween(SignOf(h, zs, f, k), SignOf(h, zs, f, NextPlace(k)))
      PROVE  h.oriented[f][k].edge \in Crossing(h, zs)
  <2>1. h.oriented[f][k].edge \in Crossing(h, zs)
          <=> CutBetween(zs[h.facets[f][k]], zs[h.facets[f][NextPlace(k)]])
    BY DealBySigns
  <2> QED
    BY <1>1, <2>1 DEF SignOf
<1>2. ASSUME NEW k \in 1 .. 3, CutBetween(SignOf(h, zs, f, k), SignOf(h, zs, f, NextPlace(k))),
             NEW j \in 1 .. 3
      PROVE  NodeAt(h, zs, f, k) # h.facets[f][j]
  <2> DEFINE e == h.oriented[f][k].edge
             node == NodeAt(h, zs, f, k)
             cut == CutEdges(h, zs)
  <2>1. e \in Crossing(h, zs)
    BY <1>1, <1>2
  <2>2. HalvesOf(h, zs, cut, e)
    BY <2>1, CutEffect
  <2>3. node \in Int /\ node > h.vertices
    <3>1. node = NodeOf(h, zs, e)
      BY DEF NodeAt
    <3> HIDE DEF node, e, cut
    <3> QED
      BY <2>2, <3>1, Zenon DEF HalvesOf
  <2>4. h.vertices \in Nat /\ h.facets[f][j] \in 1 .. h.vertices
    BY BuiltFacets
  <2> HIDE DEF node
  <2>5. node # h.facets[f][j]
    BY <2>3, <2>4
  <2> QED
    BY <2>5 DEF node
<1>3. ASSUME NEW k \in 1 .. 3, CutBetween(SignOf(h, zs, f, k), SignOf(h, zs, f, NextPlace(k))),
             CutBetween(SignOf(h, zs, f, NextPlace(k)),
                        SignOf(h, zs, f, NextPlace(NextPlace(k)))),
             NodeAt(h, zs, f, k) = NodeAt(h, zs, f, NextPlace(k))
      PROVE  FALSE
  <2> DEFINE j == NextPlace(k)
             o == h.oriented[f][k]
             q == h.oriented[f][j]
             a == h.facets[f][k]
             b == h.facets[f][j]
             c == h.facets[f][NextPlace(j)]
  <2>1. j \in 1 .. 3 /\ NextPlace(j) \in 1 .. 3 /\ NextPlace(NextPlace(j)) = k
    BY DEF NextPlace
  <2>2. o.edge \in Crossing(h, zs) /\ q.edge \in Crossing(h, zs)
    BY <1>1, <1>3, <2>1
  <2>3. o.edge = q.edge
    BY <1>3, <2>2, CutEffect DEF NodeAt
  <2>4. Runs(h.edges, o, a, b) /\ a # b /\ c # a
    <3> HIDE DEF j
    <3> QED
      BY <2>1, BuiltFacets DEF j
  <2>5. Runs(h.edges, q, b, c) /\ b # c
    <3> HIDE DEF j
    <3> QED
      BY <2>1, BuiltFacets
  <2> HIDE DEF j, o, q, a, b, c
  <2> QED
    BY <2>3, <2>4, <2>5 DEF Runs
<1> QED
  BY <1>1, <1>2, <1>3

\* split_partially_immersed_facet_and_classify, for a facet of a hull.
LEMMA MixedFacet ==
  ASSUME NEW h \in {Build(g) : g \in Hulls}, ProperHulls,
         NEW zs \in [1 .. h.vertices -> Immersions], NEW f \in DOMAIN h.facets,
         AnyEmerged(h, zs, f), AnyImmersed(h, zs, f),
         NEW all, Within(CutEdges(h, zs).edges, all), NEW oe, NEW oi,
         Runs(all, oe, ClosingStart(h, zs, f), ClosingEnd(h, zs, f)),
         Runs(all, oi, ClosingEnd(h, zs, f), ClosingStart(h, zs, f))
  PROVE  Cleft(CutEdges(h, zs).edges, all, AllDealt(h, zs, f), oe, oi,
               EmergedSides(h, zs, f), ImmersedSides(h, zs, f),
               CutNodes(h, zs, f), SurfaceEnds(h, zs, f))
<1> DEFINE old == CutEdges(h, zs).edges
           cut == CutEdges(h, zs)
           v(k) == h.facets[f][k]
           x(k) == SignOf(h, zs, f, k)
           o(k) == h.oriented[f][k]
           p(k) == FirstLeg(cut, o(k))
           q(k) == SecondLeg(cut, o(k))
           n(k) == NodeAt(h, zs, f, k)
           r1 == DealtBy(NoEdges, o(1), p(1), q(1), x(1), x(2))
           r2 == DealtBy(r1, o(2), p(2), q(2), x(2), x(3))
           r3 == DealtBy(r2, o(3), p(3), q(3), x(3), x(1))
<1>1. NextPlace(1) = 2 /\ NextPlace(2) = 3 /\ NextPlace(3) = 1
  BY DEF NextPlace
<1>2. v(1) # v(2) /\ v(2) # v(3) /\ v(1) # v(3)
  <2>1. \A k \in 1 .. 3 : v(k) # v(NextPlace(k))
    BY BuiltFacets
  <2> HIDE DEF v
  <2>2. v(1) # v(NextPlace(1)) /\ v(2) # v(NextPlace(2)) /\ v(3) # v(NextPlace(3))
    BY <2>1
  <2> QED
    BY <1>1, <2>2
<1>3. /\ x(1) \in {-1, 0, 1} /\ x(2) \in {-1, 0, 1} /\ x(3) \in {-1, 0, 1}
      /\ x(1) < 0 \/ x(2) < 0 \/ x(3) < 0
      /\ x(1) > 0 \/ x(2) > 0 \/ x(3) > 0
  BY SignsType
<1>4. /\ Travels(old, o(1), p(1), q(1), v(1), v(2), n(1), x(1), x(2))
      /\ Travels(old, o(2), p(2), q(2), v(2), v(3), n(2), x(2), x(3))
      /\ Travels(old, o(3), p(3), q(3), v(3), v(1), n(3), x(3), x(1))
  <2>1. ASSUME NEW k \in 1 .. 3
        PROVE  Travels(old, o(k), p(k), q(k), v(k), v(NextPlace(k)), n(k), x(k), x(NextPlace(k)))
    BY DealBySigns DEF SignOf, NodeAt
  <2> HIDE DEF old, o, p, q, v, n, x
  <2> QED
    BY <1>1, <2>1
<1>5. ASSUME NEW k \in 1 .. 3, CutBetween(x(k), x(NextPlace(k)))
      PROVE  n(k) \notin {v(1), v(2), v(3)}
  BY <1>5, NodesApart
<1>6. ASSUME NEW k \in 1 .. 3, CutBetween(x(k), x(NextPlace(k))),
             CutBetween(x(NextPlace(k)), x(NextPlace(NextPlace(k))))
      PROVE  n(k) # n(NextPlace(k))
  BY <1>6, NodesApart
<1>7. r3 = AllDealt(h, zs, f)
  BY <1>1 DEF AllDealt, TurnOf
<1>8. /\ Runs(all, oe, FirstVertex(old, r3.immersed[r3.firstImmersed + 1]),
                       FirstVertex(old, r3.emerged[r3.firstEmerged + 1]))
      /\ Runs(all, oi, FirstVertex(old, r3.emerged[r3.firstEmerged + 1]),
                       FirstVertex(old, r3.immersed[r3.firstImmersed + 1]))
  <2> HIDE DEF r3
  <2> QED
    BY <1>7 DEF ClosingStart, ClosingEnd
<1>9. /\ EmergedSides(h, zs, f) =
           EmergedWay(v(1), v(2), n(1), x(1), x(2)) \union EmergedWay(v(2), v(3), n(2), x(2), x(3))
             \union EmergedWay(v(3), v(1), n(3), x(3), x(1))
      /\ ImmersedSides(h, zs, f) =
           ImmersedWay(v(1), v(2), n(1), x(1), x(2)) \union ImmersedWay(v(2), v(3), n(2), x(2), x(3))
             \union ImmersedWay(v(3), v(1), n(3), x(3), x(1))
      /\ CutNodes(h, zs, f) = NodesOn(n(1), x(1), x(2)) \union NodesOn(n(2), x(2), x(3))
                                \union NodesOn(n(3), x(3), x(1))
      /\ SurfaceEnds(h, zs, f) = EndsInSurface(v(1), x(1)) \union EndsInSurface(v(2), x(2))
                                   \union EndsInSurface(v(3), x(3))
  BY <1>1, Zenon DEF EmergedSides, ImmersedSides, CutNodes, SurfaceEnds, EmergedSide, ImmersedSide,
                     NodesAt, EndsAt
<1>10. /\ CutBetween(x(1), x(2)) => n(1) \notin {v(1), v(2), v(3)}
       /\ CutBetween(x(2), x(3)) => n(2) \notin {v(1), v(2), v(3)}
       /\ CutBetween(x(3), x(1)) => n(3) \notin {v(1), v(2), v(3)}
       /\ CutBetween(x(1), x(2)) /\ CutBetween(x(2), x(3)) => n(1) # n(2)
       /\ CutBetween(x(2), x(3)) /\ CutBetween(x(3), x(1)) => n(2) # n(3)
       /\ CutBetween(x(1), x(2)) /\ CutBetween(x(3), x(1)) => n(1) # n(3)
  <2> HIDE DEF x, n, v
  <2>1. 1 \in 1 .. 3 /\ 2 \in 1 .. 3 /\ 3 \in 1 .. 3
    OBVIOUS
  <2>2. /\ CutBetween(x(1), x(2)) => n(1) \notin {v(1), v(2), v(3)}
        /\ CutBetween(x(1), x(2)) /\ CutBetween(x(2), x(3)) => n(1) # n(2)
    BY <1>1, <1>5, <1>6, <2>1, Zenon
  <2>3. /\ CutBetween(x(2), x(3)) => n(2) \notin {v(1), v(2), v(3)}
        /\ CutBetween(x(2), x(3)) /\ CutBetween(x(3), x(1)) => n(2) # n(3)
    BY <1>1, <1>5, <1>6, <2>1, Zenon
  <2>4. /\ CutBetween(x(3), x(1)) => n(3) \notin {v(1), v(2), v(3)}
        /\ CutBetween(x(3), x(1)) /\ CutBetween(x(1), x(2)) => n(3) # n(1)
    BY <1>1, <1>5, <1>6, <2>1, Zenon
  <2> QED
    BY <2>2, <2>3, <2>4, Zenon
<1> HIDE DEF old, v, x, o, p, q, n
<1>11. Cleft(old, all, r3, oe, oi, EmergedSides(h, zs, f), ImmersedSides(h, zs, f),
             CutNodes(h, zs, f), SurfaceEnds(h, zs, f))
  <2>1. Within(old, all)
    BY DEF old
  <2>2. /\ r1 = DealtBy(NoEdges, o(1), p(1), q(1), x(1), x(2))
        /\ r2 = DealtBy(r1, o(2), p(2), q(2), x(2), x(3))
        /\ r3 = DealtBy(r2, o(3), p(3), q(3), x(3), x(1))
    OBVIOUS
  <2> HIDE DEF r1, r2, r3
  <2>3. MixedTriangle(old, v(1), v(2), v(3), x(1), x(2), x(3), n(1), n(2), n(3), o(1), p(1), q(1),
                      o(2), p(2), q(2), o(3), p(3), q(3), r1, r2, r3)
    BY <1>2, <1>3, <1>4, <1>10, <2>2, Zenon DEF MixedTriangle
  <2>4. Cleft(old, all, r3, oe, oi,
              EmergedWay(v(1), v(2), n(1), x(1), x(2)) \union EmergedWay(v(2), v(3), n(2), x(2), x(3))
                \union EmergedWay(v(3), v(1), n(3), x(3), x(1)),
              ImmersedWay(v(1), v(2), n(1), x(1), x(2)) \union ImmersedWay(v(2), v(3), n(2), x(2), x(3))
                \union ImmersedWay(v(3), v(1), n(3), x(3), x(1)),
              NodesOn(n(1), x(1), x(2)) \union NodesOn(n(2), x(2), x(3))
                \union NodesOn(n(3), x(3), x(1)),
              EndsInSurface(v(1), x(1)) \union EndsInSurface(v(2), x(2))
                \union EndsInSurface(v(3), x(3)))
    BY <1>8, <2>1, <2>3, FacetCleft, Zenon
  <2> QED
    BY <1>9, <2>4
<1> HIDE DEF r3
<1> QED
  BY <1>7, <1>11 DEF old

\* The same for a facet in the surface: both pieces are the facet again.
LEMMA LevelFacet ==
  ASSUME NEW h \in {Build(g) : g \in Hulls}, ProperHulls,
         NEW zs \in [1 .. h.vertices -> Immersions], NEW f \in DOMAIN h.facets,
         ~ AnyEmerged(h, zs, f), ~ AnyImmersed(h, zs, f),
         NEW all, Within(CutEdges(h, zs).edges, all), NEW o,
         Runs(all, o, ClosingStart(h, zs, f), ClosingEnd(h, zs, f))
  PROVE  LET r == AllDealt(h, zs, f)
         IN  /\ Len(r.emerged) > 1 /\ Len(r.immersed) > 1
             /\ ClosingStart(h, zs, f) = ClosingEnd(h, zs, f)
             /\ Polygon(FacetVertices(all, InsertBefore(r.emerged, o, r.firstEmerged)),
                        EmergedSides(h, zs, f))
             /\ Polygon(FacetVertices(all, InsertBefore(r.immersed, o, r.firstImmersed)),
                        ImmersedSides(h, zs, f))
<1> DEFINE old == CutEdges(h, zs).edges
           cut == CutEdges(h, zs)
           v(k) == h.facets[f][k]
           x(k) == SignOf(h, zs, f, k)
           e(k) == h.oriented[f][k]
           r == AllDealt(h, zs, f)
           path == Path3(e(1), e(2), e(3))
           sides == {<<v(1), v(2)>>, <<v(2), v(3)>>, <<v(3), v(1)>>}
<1>1. NextPlace(1) = 2 /\ NextPlace(2) = 3 /\ NextPlace(3) = 1
  BY DEF NextPlace
<1>2. v(1) # v(2) /\ v(2) # v(3) /\ v(1) # v(3)
  <2>1. \A k \in 1 .. 3 : v(k) # v(NextPlace(k))
    BY BuiltFacets
  <2> HIDE DEF v
  <2>2. v(1) # v(NextPlace(1)) /\ v(2) # v(NextPlace(2)) /\ v(3) # v(NextPlace(3))
    BY <2>1
  <2> QED
    BY <1>1, <2>2
<1>3. x(1) = 0 /\ x(2) = 0 /\ x(3) = 0
  BY SignsType
<1>4. Runs(old, e(1), v(1), v(2)) /\ Runs(old, e(2), v(2), v(3)) /\ Runs(old, e(3), v(3), v(1))
  <2>1. ASSUME NEW k \in 1 .. 3
        PROVE  Travels(old, e(k), FirstLeg(cut, e(k)), SecondLeg(cut, e(k)), v(k), v(NextPlace(k)),
                       NodeAt(h, zs, f, k), x(k), x(NextPlace(k)))
    BY DealBySigns DEF SignOf, NodeAt
  <2> HIDE DEF old, e, v, x, cut
  <2>2. ~ CutBetween(x(1), x(2)) /\ ~ CutBetween(x(2), x(3)) /\ ~ CutBetween(x(3), x(1))
    BY <1>3 DEF CutBetween
  <2> QED
    BY <1>1, <2>1, <2>2 DEF Travels
<1>5. Dealing(r, path, path, 0, 0, "none")
  <2> DEFINE r1 == DealtBy(NoEdges, e(1), FirstLeg(cut, e(1)), SecondLeg(cut, e(1)), x(1), x(2))
             r2 == DealtBy(r1, e(2), FirstLeg(cut, e(2)), SecondLeg(cut, e(2)), x(2), x(3))
             r3 == DealtBy(r2, e(3), FirstLeg(cut, e(3)), SecondLeg(cut, e(3)), x(3), x(1))
  <2>1. r = r3
    BY <1>1 DEF AllDealt, TurnOf
  <2> HIDE DEF r, e, x, cut
  <2>2. Dealing(r3, path, path, 0, 0, "none")
    BY <1>3, ThreeTurns
  <2> QED
    BY <2>1, <2>2
<1>6. /\ r.emerged = path /\ r.immersed = path /\ r.firstEmerged = 0 /\ r.firstImmersed = 0
  BY <1>5 DEF Dealing
<1> HIDE DEF r
<1>7. Len(path) = 3 /\ path[0 + 1] = e(1) /\ InsertBefore(path, o, 0) = Path4(o, e(1), e(2), e(3))
  <2> HIDE DEF e
  <2> QED
    BY ThreeEdges, InsertedInThree
<1>8. FirstVertex(old, e(1)) = v(1)
  BY <1>4, RunsEnds
<1>9. ClosingStart(h, zs, f) = v(1) /\ ClosingEnd(h, zs, f) = v(1)
  BY <1>6, <1>7, <1>8 DEF ClosingStart, ClosingEnd, r
<1> HIDE DEF path
<1>10. Polygon(FacetVertices(all, Path4(o, e(1), e(2), e(3))), sides)
  <2>1. Within(old, all)
    OBVIOUS
  <2> HIDE DEF old, e, v
  <2>2. Runs(all, e(1), v(1), v(2)) /\ Runs(all, e(2), v(2), v(3)) /\ Runs(all, e(3), v(3), v(1))
    BY <1>4, <2>1, RunsStill
  <2>3. Runs(all, o, v(1), v(1))
    BY <1>9
  <2> QED
    BY <1>2, <2>2, <2>3, FlatTriangle
<1>11. EmergedSides(h, zs, f) = sides /\ ImmersedSides(h, zs, f) = sides
  <2>1. /\ EmergedSide(h, zs, f, 1) = {<<v(1), v(2)>>} /\ ImmersedSide(h, zs, f, 1) = {<<v(1), v(2)>>}
        /\ EmergedSide(h, zs, f, 2) = {<<v(2), v(3)>>} /\ ImmersedSide(h, zs, f, 2) = {<<v(2), v(3)>>}
        /\ EmergedSide(h, zs, f, 3) = {<<v(3), v(1)>>} /\ ImmersedSide(h, zs, f, 3) = {<<v(3), v(1)>>}
    BY <1>1, <1>3 DEF EmergedSide, ImmersedSide, EmergedWay, ImmersedWay
  <2> HIDE DEF v
  <2> QED
    BY <2>1 DEF EmergedSides, ImmersedSides
<1> QED
  BY <1>6, <1>7, <1>9, <1>10, <1>11 DEF r

(* The facets that are split, and those that have a piece in each part. *)
Split(h, zs) == {f \in DOMAIN h.facets : AnyEmerged(h, zs, f) <=> AnyImmersed(h, zs, f)}
WithEmerged(h, zs) == {f \in DOMAIN h.facets : AnyEmerged(h, zs, f) \/ ~ AnyImmersed(h, zs, f)}
WithImmersed(h, zs) == {f \in DOMAIN h.facets : AnyImmersed(h, zs, f) \/ ~ AnyEmerged(h, zs, f)}

\* A facet that is split has edges in both lists, as have no others.
LEMMA SplitLengths ==
  ASSUME NEW h \in {Build(g) : g \in Hulls}, ProperHulls,
         NEW zs \in [1 .. h.vertices -> Immersions], NEW f \in DOMAIN h.facets
  PROVE  LET r == AllDealt(h, zs, f)
         IN  /\ f \in Split(h, zs) => Len(r.emerged) > 1 /\ Len(r.immersed) > 1
             /\ f \notin Split(h, zs) /\ AnyEmerged(h, zs, f) =>
                  Len(r.emerged) > 1 /\ Len(r.immersed) <= 1
             /\ f \notin Split(h, zs) /\ AnyImmersed(h, zs, f) =>
                  Len(r.immersed) > 1 /\ Len(r.emerged) <= 1
<1> DEFINE cut == CutEdges(h, zs)
           old == cut.edges
           n == Len(old)
           x == ClosingStart(h, zs, f)
           y == ClosingEnd(h, zs, f)
           all == [e \in 1 .. n + 1 |-> IF e = n + 1 THEN <<x, y>> ELSE old[e]]
           oe == [edge |-> n + 1, reverse |-> FALSE]
           oi == [edge |-> n + 1, reverse |-> TRUE]
           r == AllDealt(h, zs, f)
<1>1. n \in Nat /\ DOMAIN old = 1 .. n
  <2>1. IsList(old)
    BY CutEffect
  <2> HIDE DEF cut
  <2> QED
    BY <2>1 DEF IsList
<1> HIDE DEF x, y, n, cut
<1>2. Within(old, all)
  BY <1>1 DEF Within
<1>3. Runs(all, oe, x, y) /\ Runs(all, oi, y, x)
  <2>1. n + 1 \in DOMAIN all /\ all[n + 1] = <<x, y>>
    BY <1>1
  <2>2. oe.edge = n + 1 /\ oe.reverse = FALSE /\ oi.edge = n + 1 /\ oi.reverse = TRUE
    OBVIOUS
  <2> HIDE DEF all, oe, oi
  <2> QED
    BY <2>1, <2>2, Zenon DEF Runs
<1> HIDE DEF all, oe, oi, r
<1>4. ASSUME AnyEmerged(h, zs, f), AnyImmersed(h, zs, f)
      PROVE  Len(r.emerged) > 1 /\ Len(r.immersed) > 1
  <2>1. Cleft(old, all, r, oe, oi, EmergedSides(h, zs, f), ImmersedSides(h, zs, f),
              CutNodes(h, zs, f), SurfaceEnds(h, zs, f))
    BY <1>2, <1>3, <1>4, MixedFacet, Zenon DEF x, y, cut, r
  <2> QED
    BY <2>1, Zenon DEF Cleft
<1>5. ASSUME ~ AnyEmerged(h, zs, f), ~ AnyImmersed(h, zs, f)
      PROVE  Len(r.emerged) > 1 /\ Len(r.immersed) > 1
  BY <1>2, <1>3, <1>5, LevelFacet, Zenon DEF x, y, cut, r
<1>6. /\ AnyEmerged(h, zs, f) /\ ~ AnyImmersed(h, zs, f) =>
           Len(r.emerged) > 1 /\ Len(r.immersed) <= 1
      /\ AnyImmersed(h, zs, f) /\ ~ AnyEmerged(h, zs, f) =>
           Len(r.immersed) > 1 /\ Len(r.emerged) <= 1
  <2> DEFINE sa == SignOf(h, zs, f, 1)
             sb == SignOf(h, zs, f, 2)
             sc == SignOf(h, zs, f, 3)
             o(k) == h.oriented[f][k]
             c == CutEdges(h, zs)
             r1 == DealtBy(NoEdges, o(1), FirstLeg(c, o(1)), SecondLeg(c, o(1)), sa, sb)
             r2 == DealtBy(r1, o(2), FirstLeg(c, o(2)), SecondLeg(c, o(2)), sb, sc)
             r3 == DealtBy(r2, o(3), FirstLeg(c, o(3)), SecondLeg(c, o(3)), sc, sa)
  <2>1. sa \in {-1, 0, 1} /\ sb \in {-1, 0, 1} /\ sc \in {-1, 0, 1}
    BY SignsType
  <2>2. /\ AnyEmerged(h, zs, f) <=> sa < 0 \/ sb < 0 \/ sc < 0
        /\ AnyImmersed(h, zs, f) <=> sa > 0 \/ sb > 0 \/ sc > 0
    BY SignsType
  <2>3. r = r3
    <3>1. NextPlace(1) = 2 /\ NextPlace(2) = 3 /\ NextPlace(3) = 1
      BY DEF NextPlace
    <3> QED
      BY <3>1 DEF AllDealt, TurnOf, r
  <2> HIDE DEF sa, sb, sc, o, c
  <2>4. /\ sa <= 0 /\ sb <= 0 /\ sc <= 0 /\ ~ (sa = 0 /\ sb = 0 /\ sc = 0) =>
             Len(r3.emerged) = 3 /\ Len(r3.immersed) \in {0, 1}
        /\ sa >= 0 /\ sb >= 0 /\ sc >= 0 /\ ~ (sa = 0 /\ sb = 0 /\ sc = 0) =>
             Len(r3.immersed) = 3 /\ Len(r3.emerged) \in {0, 1}
    BY <2>1, ThreeTurns
  <2> HIDE DEF r3
  <2>5. /\ AnyEmerged(h, zs, f) /\ ~ AnyImmersed(h, zs, f) =>
             Len(r3.emerged) = 3 /\ Len(r3.immersed) \in {0, 1}
        /\ AnyImmersed(h, zs, f) /\ ~ AnyEmerged(h, zs, f) =>
             Len(r3.immersed) = 3 /\ Len(r3.emerged) \in {0, 1}
    BY <2>1, <2>2, <2>4
  <2>6. \A m, l : m = 3 /\ l \in {0, 1} => m > 1 /\ l <= 1
    OBVIOUS
  <2> QED
    BY <2>3, <2>5, <2>6, Zenon
<1> QED
  BY <1>4, <1>5, <1>6 DEF Split, r

\* What the facets are dealt, in terms of the signs.
LEMMA DealtFacetsBySigns ==
  ASSUME NEW h \in {Build(g) : g \in Hulls}, ProperHulls,
         NEW zs \in [1 .. h.vertices -> Immersions]
  PROVE  LET dealt == DealtFacets(h, CutEdges(h, zs))
         IN  /\ SplitFacets(dealt) = Split(h, zs)
             /\ \A f \in Split(h, zs) : dealt[f] = AllDealt(h, zs, f)
             /\ \A f \in DOMAIN h.facets \ Split(h, zs) :
                  (IF f \in DOMAIN dealt THEN Len(dealt[f].emerged) > 1
                   ELSE IsEmerged(CutEdges(h, zs).status[h.oriented[f][1].edge]))
                  <=> AnyEmerged(h, zs, f)
<1> DEFINE cut == CutEdges(h, zs)
           dealt == DealtFacets(h, cut)
<1>1. DOMAIN dealt = {f \in DOMAIN h.facets : Reached(h, cut.status, f)}
  BY DEF DealtFacets
<1>2. ASSUME NEW f \in DOMAIN dealt
      PROVE  f \in DOMAIN h.facets /\ dealt[f] = AllDealt(h, zs, f)
  <2>1. f \in DOMAIN h.facets
    BY <1>1
  <2>2. dealt[f] = Dealt(h.oriented[f], cut.status, cut.half)
    BY <1>1 DEF DealtFacets
  <2> QED
    BY <2>1, <2>2, DealtInThree
<1>3. ASSUME NEW f \in DOMAIN h.facets
      PROVE  f \in DOMAIN dealt <=> /\ \E k \in 1 .. 3 : SignOf(h, zs, f, k) >= 0
                                    /\ \E k \in 1 .. 3 : SignOf(h, zs, f, k) <= 0
  BY <1>1, ReachedBySigns
<1>4. ASSUME NEW f \in Split(h, zs)
      PROVE  f \in DOMAIN dealt
  <2>1. f \in DOMAIN h.facets /\ (AnyEmerged(h, zs, f) <=> AnyImmersed(h, zs, f))
    BY DEF Split
  <2>2. \A k \in 1 .. 3 : SignOf(h, zs, f, k) \in {-1, 0, 1}
    BY <2>1, SignsType
  <2>3. 1 \in 1 .. 3
    OBVIOUS
  <2> QED
    BY <1>3, <2>1, <2>2, <2>3 DEF AnyEmerged, AnyImmersed
<1>5. ASSUME NEW f \in DOMAIN dealt
      PROVE  f \in Split(h, zs) <=> ~ Tangent(dealt[f])
  <2> DEFINE r == AllDealt(h, zs, f)
  <2>1. dealt[f] = r /\ f \in DOMAIN h.facets
    BY <1>2
  <2>2. /\ f \in Split(h, zs) => Len(r.emerged) > 1 /\ Len(r.immersed) > 1
        /\ f \notin Split(h, zs) /\ AnyEmerged(h, zs, f) => Len(r.immersed) <= 1
        /\ f \notin Split(h, zs) /\ AnyImmersed(h, zs, f) => Len(r.emerged) <= 1
    BY <2>1, SplitLengths
  <2>3. f \notin Split(h, zs) => AnyEmerged(h, zs, f) \/ AnyImmersed(h, zs, f)
    BY <2>1 DEF Split
  <2> HIDE DEF dealt, r
  <2>4. CASE f \in Split(h, zs)
    <3>1. Len(r.emerged) > 1 /\ Len(r.immersed) > 1
      BY <2>2, <2>4
    <3>2. ~ (Len(r.emerged) <= 1) /\ ~ (Len(r.immersed) <= 1)
      BY <3>1
    <3> QED
      BY <2>1, <2>4, <3>2 DEF Tangent
  <2>5. CASE f \notin Split(h, zs)
    BY <2>1, <2>2, <2>3, <2>5 DEF Tangent
  <2> QED
    BY <2>4, <2>5
<1>6. SplitFacets(dealt) = Split(h, zs)
  <2> HIDE DEF dealt
  <2> QED
    BY <1>4, <1>5 DEF SplitFacets
<1>7. ASSUME NEW f \in DOMAIN h.facets \ Split(h, zs), f \in DOMAIN dealt
      PROVE  Len(dealt[f].emerged) > 1 <=> AnyEmerged(h, zs, f)
  <2> DEFINE r == AllDealt(h, zs, f)
  <2>1. dealt[f] = r
    BY <1>2, <1>7
  <2>2. /\ AnyEmerged(h, zs, f) => Len(r.emerged) > 1
        /\ AnyImmersed(h, zs, f) => Len(r.emerged) <= 1
    BY SplitLengths
  <2>3. AnyImmersed(h, zs, f) <=> ~ AnyEmerged(h, zs, f)
    BY DEF Split
  <2> HIDE DEF dealt, r
  <2> QED
    BY <2>1, <2>2, <2>3
<1>8. ASSUME NEW f \in DOMAIN h.facets \ Split(h, zs), f \notin DOMAIN dealt
      PROVE  IsEmerged(cut.status[h.oriented[f][1].edge]) <=> AnyEmerged(h, zs, f)
  <2> DEFINE sa == SignOf(h, zs, f, 1)
             sb == SignOf(h, zs, f, 2)
             sc == SignOf(h, zs, f, 3)
  <2>1. NextPlace(1) = 2 /\ 1 \in 1 .. 3 /\ 2 \in 1 .. 3 /\ 3 \in 1 .. 3
    BY DEF NextPlace
  <2>2. sa \in {-1, 0, 1} /\ sb \in {-1, 0, 1} /\ sc \in {-1, 0, 1}
    BY SignsType
  <2>3. AnyEmerged(h, zs, f) <=> sa < 0 \/ sb < 0 \/ sc < 0
    BY SignsType
  <2>4. IsEmerged(cut.status[h.oriented[f][1].edge]) <=> sa <= 0 /\ sb <= 0 /\ ~ (sa = 0 /\ sb = 0)
    <3>1. IsEmerged(cut.status[h.oriented[f][1].edge]) <=>
            /\ zs[h.facets[f][1]] <= 0 /\ zs[h.facets[f][NextPlace(1)]] <= 0
            /\ ~ (zs[h.facets[f][1]] = 0 /\ zs[h.facets[f][NextPlace(1)]] = 0)
      BY <2>1, DealBySigns
    <3> QED
      BY <2>1, <3>1 DEF SignOf
  <2>5. ~ ((\E k \in 1 .. 3 : SignOf(h, zs, f, k) >= 0) /\ (\E k \in 1 .. 3 : SignOf(h, zs, f, k) <= 0))
    BY <1>3, <1>8
  <2>6. ~ ((sa >= 0 \/ sb >= 0 \/ sc >= 0) /\ (sa <= 0 \/ sb <= 0 \/ sc <= 0))
    BY <2>1, <2>5
  <2> HIDE DEF sa, sb, sc, cut
  <2>7. sa <= 0 /\ sb <= 0 /\ ~ (sa = 0 /\ sb = 0) <=> sa < 0 \/ sb < 0 \/ sc < 0
    BY <2>2, <2>6
  <2> QED
    BY <2>3, <2>4, <2>7
<1> QED
  BY <1>2, <1>4, <1>6, <1>7, <1>8

(* Where the closing edge and the pieces of a facet are put. *)
ClosingEdge(h, zs, f) == Len(CutEdges(h, zs).edges) + RankIn(Split(h, zs), f)
EmergedPiece(h, zs, f) ==
  IF f \in Split(h, zs) THEN Len(h.facets) + 2 * RankIn(Split(h, zs), f) - 1 ELSE f
ImmersedPiece(h, zs, f) ==
  IF f \in Split(h, zs) THEN Len(h.facets) + 2 * RankIn(Split(h, zs), f) ELSE f

\* The facets that are split are numbered by their ranks.
LEMMA SplitRanks ==
  ASSUME NEW h \in {Build(g) : g \in Hulls}, ProperHulls,
         NEW zs \in [1 .. h.vertices -> Immersions]
  PROVE  LET S == Split(h, zs)
             m == Cardinality(S)
         IN  /\ m \in Nat
             /\ \A k \in 1 .. m : Nth(S, k) \in S /\ RankIn(S, Nth(S, k)) = k
             /\ \A f \in S : RankIn(S, f) \in 1 .. m /\ Nth(S, RankIn(S, f)) = f
             /\ \A f \in S : f \in DOMAIN h.facets
<1> DEFINE S == Split(h, zs)
           n == Len(h.facets)
<1>1. n \in Nat /\ DOMAIN h.facets = 1 .. n
  BY BuiltFacets
<1>2. S \in SUBSET (1 .. n) /\ \A f \in S : f \in DOMAIN h.facets
  BY <1>1 DEF Split
<1> HIDE DEF S, n
<1>3. Cardinality(S) \in Nat
  BY <1>1, <1>2, PlacesSubset, Zenon
<1>4. /\ \A k \in 1 .. Cardinality(S) : Nth(S, k) \in S /\ RankIn(S, Nth(S, k)) = k
      /\ \A f \in S : RankIn(S, f) \in 1 .. Cardinality(S) /\ Nth(S, RankIn(S, f)) = f
  BY <1>1, <1>2, Ranked, Zenon
<1> QED
  BY <1>2, <1>3, <1>4 DEF S

\* The edges of the mesh: those of the hull, their halves, the closing edges.
LEMMA IntersectionEdges ==
  ASSUME NEW h \in {Build(g) : g \in Hulls}, ProperHulls,
         NEW zs \in [1 .. h.vertices -> Immersions]
  PROVE  LET i == Intersection(h, zs)
             cut == CutEdges(h, zs)
         IN  /\ i.z = cut.z
             /\ Within(cut.edges, i.edges)
             /\ \A f \in Split(h, zs) :
                  /\ ClosingEdge(h, zs, f) \in DOMAIN i.edges
                  /\ i.edges[ClosingEdge(h, zs, f)] = <<ClosingStart(h, zs, f), ClosingEnd(h, zs, f)>>
                  /\ ClosingStart(h, zs, f) # ClosingEnd(h, zs, f) =>
                       ClosingEdge(h, zs, f) \in i.surfaceEdges
             /\ \A e \in DOMAIN i.edges :
                  e \in DOMAIN cut.edges \/ \E f \in Split(h, zs) : e = ClosingEdge(h, zs, f)
             /\ Touching(h, cut.status) \subseteq i.surfaceEdges
<1> DEFINE i == Intersection(h, zs)
           cut == CutEdges(h, zs)
           dealt == DealtFacets(h, cut)
           closing == ClosingEdges(cut, dealt)
           S == Split(h, zs)
           m == Cardinality(S)
           n == Len(cut.edges)
           drawn == {k \in 1 .. Cardinality(SplitFacets(dealt)) : closing[k][1] # closing[k][2]}
<1>1. /\ i.z = cut.z /\ i.edges = cut.edges \o closing
      /\ i.surfaceEdges = Touching(h, cut.status) \union {n + k : k \in drawn}
  BY DEF Intersection, Divided
<1>2. SplitFacets(dealt) = S /\ \A f \in S : dealt[f] = AllDealt(h, zs, f)
  BY DealtFacetsBySigns
<1>3. /\ m \in Nat
      /\ \A k \in 1 .. m : Nth(S, k) \in S /\ RankIn(S, Nth(S, k)) = k
      /\ \A f \in S : RankIn(S, f) \in 1 .. m /\ Nth(S, RankIn(S, f)) = f
  BY SplitRanks
<1>4. n \in Nat /\ DOMAIN cut.edges = 1 .. n /\ IsList(cut.edges)
  <2>1. IsList(cut.edges)
    BY CutEffect
  <2> HIDE DEF cut
  <2> QED
    BY <2>1 DEF IsList
<1> HIDE DEF i
<1>5. /\ DOMAIN closing = 1 .. m /\ closing = [k \in 1 .. m |-> closing[k]]
      /\ \A k \in 1 .. m :
           closing[k] = <<FirstVertex(cut.edges, dealt[Nth(S, k)].immersed[dealt[Nth(S, k)].firstImmersed + 1]),
                          FirstVertex(cut.edges, dealt[Nth(S, k)].emerged[dealt[Nth(S, k)].firstEmerged + 1])>>
  <2> HIDE DEF cut, dealt, S
  <2> QED
    BY <1>2 DEF ClosingEdges
<1> HIDE DEF closing, dealt
<1>6. IsList(closing) /\ Len(closing) = m
  <2> HIDE DEF m
  <2> QED
    BY <1>3, <1>5, ListOfLength
<1>7. ASSUME NEW f \in S
      PROVE  closing[RankIn(S, f)] = <<ClosingStart(h, zs, f), ClosingEnd(h, zs, f)>>
  <2>1. RankIn(S, f) \in 1 .. m /\ Nth(S, RankIn(S, f)) = f /\ dealt[f] = AllDealt(h, zs, f)
    BY <1>2, <1>3
  <2> HIDE DEF S, m
  <2>2. closing[RankIn(S, f)] =
          <<FirstVertex(cut.edges, dealt[f].immersed[dealt[f].firstImmersed + 1]),
            FirstVertex(cut.edges, dealt[f].emerged[dealt[f].firstEmerged + 1])>>
    BY <1>5, <2>1
  <2> QED
    BY <2>1, <2>2 DEF ClosingStart, ClosingEnd
<1>8. /\ DOMAIN i.edges = 1 .. n + m
      /\ \A k \in 1 .. n + m : i.edges[k] = IF k <= n THEN cut.edges[k] ELSE closing[k - n]
  <2> HIDE DEF cut, S
  <2> QED
    BY <1>1, <1>4, <1>6, Joined
<1>9. Within(cut.edges, i.edges)
  <2> HIDE DEF cut, n, m
  <2> QED
    BY <1>3, <1>4, <1>8 DEF Within
<1>10. ASSUME NEW f \in S
       PROVE  /\ ClosingEdge(h, zs, f) \in DOMAIN i.edges
              /\ i.edges[ClosingEdge(h, zs, f)] = <<ClosingStart(h, zs, f), ClosingEnd(h, zs, f)>>
              /\ ClosingStart(h, zs, f) # ClosingEnd(h, zs, f) =>
                   ClosingEdge(h, zs, f) \in i.surfaceEdges
  <2> DEFINE k == RankIn(S, f)
  <2>1. k \in 1 .. m /\ ClosingEdge(h, zs, f) = n + k
    BY <1>3 DEF ClosingEdge
  <2>2. closing[k] = <<ClosingStart(h, zs, f), ClosingEnd(h, zs, f)>>
    BY <1>7
  <2> HIDE DEF k, n, m, S, cut
  <2>3. n + k \in 1 .. n + m /\ ~ (n + k <= n) /\ (n + k) - n = k
    BY <1>3, <1>4, <2>1
  <2>4. i.edges[n + k] = closing[k]
    BY <1>8, <2>3
  <2>5. ClosingStart(h, zs, f) # ClosingEnd(h, zs, f) => k \in drawn
    BY <1>2, <2>1, <2>2 DEF m
  <2> HIDE DEF drawn
  <2> QED
    BY <1>1, <1>8, <2>1, <2>2, <2>3, <2>4, <2>5
<1>11. ASSUME NEW e \in DOMAIN i.edges
       PROVE  e \in DOMAIN cut.edges \/ \E f \in Split(h, zs) : e = ClosingEdge(h, zs, f)
  <2>1. CASE e <= n
    <3> HIDE DEF n, m, S, cut
    <3> QED
      BY <1>3, <1>4, <1>8, <2>1
  <2>2. CASE e > n
    <3> DEFINE k == e - n
               f == Nth(S, k)
    <3>1. k \in 1 .. m /\ e = n + k
      <4> HIDE DEF n, m, S, cut
      <4> QED
        BY <1>3, <1>4, <1>8, <2>2
    <3> HIDE DEF k
    <3>2. f \in S /\ RankIn(S, f) = k
      BY <1>3, <3>1
    <3> HIDE DEF f
    <3>3. e = ClosingEdge(h, zs, f)
      BY <3>1, <3>2 DEF ClosingEdge
    <3> QED
      BY <3>2, <3>3
  <2>3. e <= n \/ e > n
    <3> HIDE DEF n, m, S, cut
    <3> QED
      BY <1>3, <1>4, <1>8
  <2> QED
    BY <2>1, <2>2, <2>3
<1> QED
  BY <1>1, <1>9, <1>10, <1>11 DEF i

\* The facets of the mesh: those of the hull, and the pieces of those that are
\* split; each part has the facets kept in it and its pieces.
LEMMA IntersectionFacets ==
  ASSUME NEW h \in {Build(g) : g \in Hulls}, ProperHulls,
         NEW zs \in [1 .. h.vertices -> Immersions]
  PROVE  LET i == Intersection(h, zs)
             o(f, reverse) == [edge |-> ClosingEdge(h, zs, f), reverse |-> reverse]
         IN  /\ i.emerged = {EmergedPiece(h, zs, f) : f \in WithEmerged(h, zs)}
             /\ i.immersed = {ImmersedPiece(h, zs, f) : f \in WithImmersed(h, zs)}
             /\ \A f \in DOMAIN h.facets : /\ EmergedPiece(h, zs, f) \in 1 .. Len(i.facets)
                                           /\ ImmersedPiece(h, zs, f) \in 1 .. Len(i.facets)
             /\ \A f \in DOMAIN h.facets : i.facets[f] = h.facets[f]
             /\ \A f \in Split(h, zs) :
                  LET r == AllDealt(h, zs, f)
                  IN  /\ i.facets[EmergedPiece(h, zs, f)] =
                           FacetVertices(i.edges, InsertBefore(r.emerged, o(f, FALSE), r.firstEmerged))
                      /\ i.facets[ImmersedPiece(h, zs, f)] =
                           FacetVertices(i.edges, InsertBefore(r.immersed, o(f, TRUE), r.firstImmersed))
<1> DEFINE i == Intersection(h, zs)
           cut == CutEdges(h, zs)
           dealt == DealtFacets(h, cut)
           pieces == Pieces(cut, dealt)
           S == Split(h, zs)
           m == Cardinality(S)
           n == Len(h.facets)
           o(k, isEmerged) == [edge |-> Len(cut.edges) + k, reverse |-> ~ isEmerged]
           piece(k, isEmerged) ==
             LET a == dealt[Nth(S, k)]
             IN  FacetVertices(i.edges,
                   IF isEmerged THEN InsertBefore(a.emerged, o(k, isEmerged), a.firstEmerged)
                                ELSE InsertBefore(a.immersed, o(k, isEmerged), a.firstImmersed))
           kept == {f \in DOMAIN h.facets \ S : AnyEmerged(h, zs, f)}
<1>1. /\ SplitFacets(dealt) = S /\ \A f \in S : dealt[f] = AllDealt(h, zs, f)
      /\ \A f \in DOMAIN h.facets \ S :
           (IF f \in DOMAIN dealt THEN Len(dealt[f].emerged) > 1
            ELSE IsEmerged(cut.status[h.oriented[f][1].edge]))
           <=> AnyEmerged(h, zs, f)
  BY DealtFacetsBySigns
<1>2. /\ m \in Nat
      /\ \A k \in 1 .. m : Nth(S, k) \in S /\ RankIn(S, Nth(S, k)) = k
      /\ \A f \in S : RankIn(S, f) \in 1 .. m /\ Nth(S, RankIn(S, f)) = f
      /\ \A f \in S : f \in DOMAIN h.facets
  BY SplitRanks
<1>3. n \in Nat /\ DOMAIN h.facets = 1 .. n /\ IsList(h.facets)
  BY BuiltHull, BuiltFacets
<1> HIDE DEF S
<1>4. /\ i.facets = h.facets \o pieces
      /\ i.edges = cut.edges \o ClosingEdges(cut, dealt)
      /\ i.emerged = kept \union {n + k : k \in {j \in 1 .. 2 * m : TRUE = (j % 2 = 1)}}
      /\ i.immersed = (DOMAIN h.facets \ (S \union kept))
                        \union {n + k : k \in {j \in 1 .. 2 * m : FALSE = (j % 2 = 1)}}
  <2> DEFINE T == SplitFacets(dealt)
             keptEmerged ==
               {f \in DOMAIN h.facets \ T :
                  IF f \in DOMAIN dealt THEN Len(dealt[f].emerged) > 1
                  ELSE IsEmerged(cut.status[h.oriented[f][1].edge])}
  <2>1. /\ i.facets = h.facets \o pieces
        /\ i.edges = cut.edges \o ClosingEdges(cut, dealt)
        /\ i.emerged = keptEmerged
             \union {n + k : k \in {j \in 1 .. 2 * Cardinality(T) : TRUE = (j % 2 = 1)}}
        /\ i.immersed = (DOMAIN h.facets \ (T \union keptEmerged))
             \union {n + k : k \in {j \in 1 .. 2 * Cardinality(T) : FALSE = (j % 2 = 1)}}
    BY DEF Intersection, Divided
  <2>2. T = S
    BY <1>1
  <2>3. keptEmerged = kept
    <3> HIDE DEF cut, dealt
    <3> QED
      BY <1>1, <2>2
  <2> HIDE DEF keptEmerged, kept, T, i, cut, dealt, n
  <2> QED
    BY <2>1, <2>2, <2>3
<1> HIDE DEF i
<1>5. /\ \A k \in 1 .. 2 * m : pieces[k] = piece((k + 1) \div 2, k % 2 = 1)
      /\ IsList(pieces) /\ Len(pieces) = 2 * m
  <2> DEFINE T == SplitFacets(dealt)
             all == cut.edges \o ClosingEdges(cut, dealt)
             p(k, isEmerged) ==
               LET a == dealt[Nth(T, k)]
               IN  FacetVertices(all,
                     IF isEmerged THEN InsertBefore(a.emerged, o(k, isEmerged), a.firstEmerged)
                                  ELSE InsertBefore(a.immersed, o(k, isEmerged), a.firstImmersed))
  <2>1. pieces = [k \in 1 .. 2 * Cardinality(T) |-> p((k + 1) \div 2, k % 2 = 1)]
    BY DEF Pieces
  <2>2. T = S /\ all = i.edges
    BY <1>1, <1>4
  <2>3. \A k, isEmerged : p(k, isEmerged) = piece(k, isEmerged)
    <3> HIDE DEF cut, dealt, T, all, i, o
    <3> QED
      BY <2>2
  <2> HIDE DEF p, piece, pieces, T, all, cut, dealt
  <2>4. pieces = [k \in 1 .. 2 * m |-> p((k + 1) \div 2, k % 2 = 1)]
    BY <2>1, <2>2
  <2> HIDE DEF m
  <2>5. pieces = [k \in 1 .. 2 * m |-> pieces[k]] /\ 2 * m \in Nat
    BY <1>2, <2>4
  <2>6. \A k \in 1 .. 2 * m : pieces[k] = piece((k + 1) \div 2, k % 2 = 1)
    BY <2>3, <2>4
  <2>7. IsList(pieces) /\ Len(pieces) = 2 * m
    BY <2>5, ListOfLength
  <2> QED
    BY <2>6, <2>7
<1> HIDE DEF pieces, piece, dealt, cut, m, n
<1>6. /\ Len(i.facets) = n + 2 * m
      /\ \A k \in 1 .. n + 2 * m : i.facets[k] = IF k <= n THEN h.facets[k] ELSE pieces[k - n]
  <2>1. /\ Len(h.facets \o pieces) = Len(h.facets) + Len(pieces)
        /\ \A k \in 1 .. Len(h.facets) + Len(pieces) :
             (h.facets \o pieces)[k] =
                IF k <= Len(h.facets) THEN h.facets[k] ELSE pieces[k - Len(h.facets)]
    BY <1>3, <1>5, Joined, Zenon
  <2>2. Len(h.facets) = n
    BY DEF n
  <2> QED
    BY <1>4, <1>5, <2>1, <2>2
<1>7. ASSUME NEW f \in S
      PROVE  /\ RankIn(S, f) \in 1 .. m
             /\ EmergedPiece(h, zs, f) = n + (2 * RankIn(S, f) - 1)
             /\ ImmersedPiece(h, zs, f) = n + 2 * RankIn(S, f)
  <2> DEFINE k == RankIn(S, f)
  <2>1. k \in 1 .. m
    BY <1>2
  <2>2. /\ EmergedPiece(h, zs, f) = n + 2 * k - 1
        /\ ImmersedPiece(h, zs, f) = n + 2 * k
    BY DEF EmergedPiece, ImmersedPiece, S, n
  <2> HIDE DEF k
  <2>3. n + 2 * k - 1 = n + (2 * k - 1)
    BY <1>2, <1>3, <2>1
  <2> QED
    BY <2>1, <2>2, <2>3 DEF k
<1>8. \A f \in DOMAIN h.facets \ S : EmergedPiece(h, zs, f) = f /\ ImmersedPiece(h, zs, f) = f
  BY DEF EmergedPiece, ImmersedPiece, S
<1>9. ASSUME NEW k \in 1 .. m
      PROVE  /\ 2 * k - 1 \in 1 .. 2 * m /\ ((2 * k - 1) + 1) \div 2 = k /\ (2 * k - 1) % 2 = 1
             /\ 2 * k \in 1 .. 2 * m /\ (2 * k + 1) \div 2 = k /\ (2 * k) % 2 # 1
             /\ n + (2 * k - 1) \in 1 .. n + 2 * m /\ ~ (n + (2 * k - 1) <= n)
             /\ n + 2 * k \in 1 .. n + 2 * m /\ ~ (n + 2 * k <= n)
             /\ (n + (2 * k - 1)) - n = 2 * k - 1 /\ (n + 2 * k) - n = 2 * k
  BY <1>2, <1>3
<1>10. ASSUME NEW j \in 1 .. 2 * m
       PROVE  /\ (j + 1) \div 2 \in 1 .. m
              /\ j % 2 = 1 => j = 2 * ((j + 1) \div 2) - 1
              /\ j % 2 # 1 => j = 2 * ((j + 1) \div 2)
  BY <1>2
<1>11. \A f \in DOMAIN h.facets : /\ EmergedPiece(h, zs, f) \in 1 .. Len(i.facets)
                                  /\ ImmersedPiece(h, zs, f) \in 1 .. Len(i.facets)
                                  /\ i.facets[f] = h.facets[f]
  <2>1. ASSUME NEW f \in DOMAIN h.facets
        PROVE  f \in 1 .. n + 2 * m /\ f <= n
    BY <1>2, <1>3
  <2>2. ASSUME NEW f \in S
        PROVE  /\ EmergedPiece(h, zs, f) \in 1 .. n + 2 * m
               /\ ImmersedPiece(h, zs, f) \in 1 .. n + 2 * m
    BY <1>7, <1>9
  <2> QED
    BY <1>6, <1>8, <2>1, <2>2
<1>12. i.emerged = {EmergedPiece(h, zs, f) : f \in WithEmerged(h, zs)}
  <2>1. ASSUME NEW j \in 1 .. 2 * m, j % 2 = 1
        PROVE  \E f \in WithEmerged(h, zs) : EmergedPiece(h, zs, f) = n + j
    <3> DEFINE k == (j + 1) \div 2
    <3>1. k \in 1 .. m /\ j = 2 * k - 1
      BY <1>10, <2>1
    <3> HIDE DEF k
    <3>2. Nth(S, k) \in S /\ RankIn(S, Nth(S, k)) = k
      BY <1>2, <3>1
    <3>3. EmergedPiece(h, zs, Nth(S, k)) = n + j
      BY <1>7, <3>1, <3>2
    <3>4. S \subseteq WithEmerged(h, zs)
      BY DEF S, Split, WithEmerged
    <3> QED
      BY <3>2, <3>3, <3>4
  <2>2. ASSUME NEW f \in kept
        PROVE  f \in WithEmerged(h, zs) /\ EmergedPiece(h, zs, f) = f
    BY <1>8 DEF WithEmerged
  <2>3. ASSUME NEW f \in WithEmerged(h, zs)
        PROVE  \/ EmergedPiece(h, zs, f) \in kept
               \/ \E j \in 1 .. 2 * m : j % 2 = 1 /\ EmergedPiece(h, zs, f) = n + j
    <3>1. f \in DOMAIN h.facets
      BY DEF WithEmerged
    <3>2. CASE f \in S
      BY <1>7, <1>9, <3>2
    <3>3. CASE f \notin S
      <4>1. AnyEmerged(h, zs, f)
        BY <3>3 DEF S, Split, WithEmerged
      <4> QED
        BY <1>8, <3>1, <3>3, <4>1
    <3> QED
      BY <3>2, <3>3
  <2>4. i.emerged = kept \union {n + k : k \in {j \in 1 .. 2 * m : j % 2 = 1}}
    <3>1. {j \in 1 .. 2 * m : TRUE = (j % 2 = 1)} = {j \in 1 .. 2 * m : j % 2 = 1}
      OBVIOUS
    <3> QED
      BY <1>4, <3>1
  <2> HIDE DEF kept
  <2> QED
    BY <2>1, <2>2, <2>3, <2>4
<1>13. i.immersed = {ImmersedPiece(h, zs, f) : f \in WithImmersed(h, zs)}
  <2> DEFINE rest == DOMAIN h.facets \ (S \union kept)
  <2>1. ASSUME NEW j \in 1 .. 2 * m, j % 2 # 1
        PROVE  \E f \in WithImmersed(h, zs) : ImmersedPiece(h, zs, f) = n + j
    <3> DEFINE k == (j + 1) \div 2
    <3>1. k \in 1 .. m /\ j = 2 * k
      BY <1>10, <2>1
    <3> HIDE DEF k
    <3>2. Nth(S, k) \in S /\ RankIn(S, Nth(S, k)) = k
      BY <1>2, <3>1
    <3>3. ImmersedPiece(h, zs, Nth(S, k)) = n + j
      BY <1>7, <3>1, <3>2
    <3>4. S \subseteq WithImmersed(h, zs)
      BY DEF S, Split, WithImmersed
    <3> QED
      BY <3>2, <3>3, <3>4
  <2>2. ASSUME NEW f \in rest
        PROVE  f \in WithImmersed(h, zs) /\ ImmersedPiece(h, zs, f) = f
    <3>1. f \in DOMAIN h.facets \ S /\ ~ AnyEmerged(h, zs, f)
      OBVIOUS
    <3> QED
      BY <1>8, <3>1 DEF WithImmersed
  <2>3. ASSUME NEW f \in WithImmersed(h, zs)
        PROVE  \/ ImmersedPiece(h, zs, f) \in rest
               \/ \E j \in 1 .. 2 * m : j % 2 # 1 /\ ImmersedPiece(h, zs, f) = n + j
    <3>1. f \in DOMAIN h.facets
      BY DEF WithImmersed
    <3>2. CASE f \in S
      BY <1>7, <1>9, <3>2
    <3>3. CASE f \notin S
      <4>1. ~ AnyEmerged(h, zs, f)
        BY <3>3 DEF S, Split, WithImmersed
      <4> QED
        BY <1>8, <3>1, <3>3, <4>1
    <3> QED
      BY <3>2, <3>3
  <2>4. i.immersed = rest \union {n + k : k \in {j \in 1 .. 2 * m : j % 2 # 1}}
    <3>1. {j \in 1 .. 2 * m : FALSE = (j % 2 = 1)} = {j \in 1 .. 2 * m : j % 2 # 1}
      OBVIOUS
    <3> QED
      BY <1>4, <3>1
  <2> HIDE DEF rest
  <2> QED
    BY <2>1, <2>2, <2>3, <2>4
<1>14. ASSUME NEW f \in S
       PROVE  LET r == AllDealt(h, zs, f)
                  e == ClosingEdge(h, zs, f)
              IN  /\ i.facets[EmergedPiece(h, zs, f)] =
                       FacetVertices(i.edges, InsertBefore(r.emerged, [edge |-> e, reverse |-> FALSE],
                                                           r.firstEmerged))
                  /\ i.facets[ImmersedPiece(h, zs, f)] =
                       FacetVertices(i.edges, InsertBefore(r.immersed, [edge |-> e, reverse |-> TRUE],
                                                           r.firstImmersed))
  <2> DEFINE k == RankIn(S, f)
  <2>1. k \in 1 .. m /\ Nth(S, k) = f /\ dealt[f] = AllDealt(h, zs, f)
    BY <1>1, <1>2
  <2>2. Len(cut.edges) + k = ClosingEdge(h, zs, f)
    BY DEF ClosingEdge, S, cut
  <2>3. /\ EmergedPiece(h, zs, f) = n + (2 * k - 1)
        /\ ImmersedPiece(h, zs, f) = n + 2 * k
    BY <1>7
  <2> HIDE DEF k
  <2>4. i.facets[n + (2 * k - 1)] = pieces[2 * k - 1] /\ i.facets[n + 2 * k] = pieces[2 * k]
    BY <1>6, <1>9, <2>1
  <2>5. pieces[2 * k - 1] = piece(k, TRUE) /\ pieces[2 * k] = piece(k, FALSE)
    <3>1. 2 * k - 1 \in 1 .. 2 * m /\ ((2 * k - 1) + 1) \div 2 = k /\ ((2 * k - 1) % 2 = 1) = TRUE
      BY <1>9, <2>1
    <3>2. 2 * k \in 1 .. 2 * m /\ (2 * k + 1) \div 2 = k /\ ((2 * k) % 2 = 1) = FALSE
      BY <1>9, <2>1
    <3> QED
      BY <1>5, <3>1, <3>2, Zenon
  <2>6. /\ piece(k, TRUE) = FacetVertices(i.edges,
             InsertBefore(dealt[f].emerged, [edge |-> Len(cut.edges) + k, reverse |-> FALSE],
                          dealt[f].firstEmerged))
        /\ piece(k, FALSE) = FacetVertices(i.edges,
             InsertBefore(dealt[f].immersed, [edge |-> Len(cut.edges) + k, reverse |-> TRUE],
                          dealt[f].firstImmersed))
    <3>1. (~ TRUE) = FALSE /\ (~ FALSE) = TRUE
      OBVIOUS
    <3> QED
      BY <2>1, <3>1, Zenon DEF piece
  <2> QED
    BY <2>1, <2>2, <2>3, <2>4, <2>5, <2>6
<1> QED
  BY <1>11, <1>12, <1>13, <1>14 DEF i, S

(* The side along which a facet is cut, as each part runs along it. *)
Contour(h, zs, f) ==
  IF AnyEmerged(h, zs, f) /\ AnyImmersed(h, zs, f)
    THEN {<<ClosingStart(h, zs, f), ClosingEnd(h, zs, f)>>} ELSE {}
BackContour(h, zs, f) ==
  IF AnyEmerged(h, zs, f) /\ AnyImmersed(h, zs, f)
    THEN {<<ClosingEnd(h, zs, f), ClosingStart(h, zs, f)>>} ELSE {}

\* A facet that is not split is the polygon of its sides, in its part.
LEMMA WholeFacet ==
  ASSUME NEW h \in {Build(g) : g \in Hulls}, ProperHulls,
         NEW zs \in [1 .. h.vertices -> Immersions], NEW f \in DOMAIN h.facets
  PROVE  /\ ~ AnyImmersed(h, zs, f) => Polygon(h.facets[f], EmergedSides(h, zs, f))
         /\ ~ AnyEmerged(h, zs, f) => Polygon(h.facets[f], ImmersedSides(h, zs, f))
<1> DEFINE v(k) == h.facets[f][k]
           x(k) == SignOf(h, zs, f, k)
           sides == {<<v(1), v(2)>>, <<v(2), v(3)>>, <<v(3), v(1)>>}
<1>1. NextPlace(1) = 2 /\ NextPlace(2) = 3 /\ NextPlace(3) = 1
  BY DEF NextPlace
<1>2. v(1) # v(2) /\ v(2) # v(3) /\ v(1) # v(3)
  <2>1. \A k \in 1 .. 3 : v(k) # v(NextPlace(k))
    BY BuiltFacets
  <2> HIDE DEF v
  <2>2. v(1) # v(NextPlace(1)) /\ v(2) # v(NextPlace(2)) /\ v(3) # v(NextPlace(3))
    BY <2>1
  <2> QED
    BY <1>1, <2>2
<1>3. h.facets[f] = <<v(1), v(2), v(3)>>
  <2>1. PICK g \in Hulls : h = Build(g)
    OBVIOUS
  <2>2. h.facets = g.facets
    BY <2>1 DEF Build
  <2>3. g.facets \in Seq([1 .. 3 -> 1 .. g.vertices])
    BY HullAssumption
  <2>4. g.facets[f] \in [1 .. 3 -> 1 .. g.vertices]
    BY <2>2, <2>3, ElementOfSeq, LenProperties
  <2> DEFINE t == g.facets[f]
  <2>5. t \in [1 .. 3 -> 1 .. g.vertices]
    BY <2>4
  <2> HIDE DEF t
  <2>6. t = <<t[1], t[2], t[3]>>
    BY <2>5
  <2> QED
    BY <2>2, <2>6 DEF t
<1>4. Polygon(h.facets[f], sides)
  <2>1. Polygon(<<v(1), v(2), v(3)>>, sides)
    <3> HIDE DEF v
    <3> QED
      BY <1>2, PolygonOfThree
  <2> QED
    BY <1>3, <2>1
<1>5. /\ x(1) \in {-1, 0, 1} /\ x(2) \in {-1, 0, 1} /\ x(3) \in {-1, 0, 1}
      /\ AnyEmerged(h, zs, f) <=> x(1) < 0 \/ x(2) < 0 \/ x(3) < 0
      /\ AnyImmersed(h, zs, f) <=> x(1) > 0 \/ x(2) > 0 \/ x(3) > 0
  BY SignsType
<1> HIDE DEF v, x
<1>6. ASSUME ~ AnyImmersed(h, zs, f)
      PROVE  EmergedSides(h, zs, f) = sides
  <2>1. x(1) <= 0 /\ x(2) <= 0 /\ x(3) <= 0
    BY <1>5, <1>6
  <2>2. /\ EmergedSide(h, zs, f, 1) = EmergedWay(v(1), v(2), NodeAt(h, zs, f, 1), x(1), x(2))
        /\ EmergedSide(h, zs, f, 2) = EmergedWay(v(2), v(3), NodeAt(h, zs, f, 2), x(2), x(3))
        /\ EmergedSide(h, zs, f, 3) = EmergedWay(v(3), v(1), NodeAt(h, zs, f, 3), x(3), x(1))
    BY <1>1, Zenon DEF EmergedSide, v, x
  <2>3. /\ EmergedSide(h, zs, f, 1) = {<<v(1), v(2)>>} /\ EmergedSide(h, zs, f, 2) = {<<v(2), v(3)>>}
        /\ EmergedSide(h, zs, f, 3) = {<<v(3), v(1)>>}
    BY <2>1, <2>2 DEF EmergedWay
  <2> QED
    BY <2>3 DEF EmergedSides
<1>7. ASSUME ~ AnyEmerged(h, zs, f)
      PROVE  ImmersedSides(h, zs, f) = sides
  <2>1. x(1) >= 0 /\ x(2) >= 0 /\ x(3) >= 0
    BY <1>5, <1>7
  <2>2. /\ ImmersedSide(h, zs, f, 1) = ImmersedWay(v(1), v(2), NodeAt(h, zs, f, 1), x(1), x(2))
        /\ ImmersedSide(h, zs, f, 2) = ImmersedWay(v(2), v(3), NodeAt(h, zs, f, 2), x(2), x(3))
        /\ ImmersedSide(h, zs, f, 3) = ImmersedWay(v(3), v(1), NodeAt(h, zs, f, 3), x(3), x(1))
    BY <1>1, Zenon DEF ImmersedSide, v, x
  <2>3. /\ ImmersedSide(h, zs, f, 1) = {<<v(1), v(2)>>} /\ ImmersedSide(h, zs, f, 2) = {<<v(2), v(3)>>}
        /\ ImmersedSide(h, zs, f, 3) = {<<v(3), v(1)>>}
    BY <2>1, <2>2 DEF ImmersedWay
  <2> QED
    BY <2>3 DEF ImmersedSides
<1> QED
  BY <1>4, <1>6, <1>7

\* The facet each part gets from a facet of the hull: the polygon of the sides
\* it gives to the part and of the side along which it is cut, if it is.
LEMMA PieceShapes ==
  ASSUME NEW h \in {Build(g) : g \in Hulls}, ProperHulls,
         NEW zs \in [1 .. h.vertices -> Immersions], NEW f \in DOMAIN h.facets
  PROVE  LET i == Intersection(h, zs)
         IN  /\ f \in WithEmerged(h, zs) =>
                  Polygon(i.facets[EmergedPiece(h, zs, f)],
                          EmergedSides(h, zs, f) \union Contour(h, zs, f))
             /\ f \in WithImmersed(h, zs) =>
                  Polygon(i.facets[ImmersedPiece(h, zs, f)],
                          ImmersedSides(h, zs, f) \union BackContour(h, zs, f))
             /\ AnyEmerged(h, zs, f) /\ AnyImmersed(h, zs, f) =>
                  /\ ClosingStart(h, zs, f) # ClosingEnd(h, zs, f)
                  /\ {ClosingStart(h, zs, f), ClosingEnd(h, zs, f)}
                       \subseteq CutNodes(h, zs, f) \union SurfaceEnds(h, zs, f)
                  /\ \/ ClosingStart(h, zs, f) \in CutNodes(h, zs, f)
                     \/ ClosingEnd(h, zs, f) \in CutNodes(h, zs, f)
<1> DEFINE i == Intersection(h, zs)
           old == CutEdges(h, zs).edges
           all == i.edges
           r == AllDealt(h, zs, f)
           x == ClosingStart(h, zs, f)
           y == ClosingEnd(h, zs, f)
           oe == [edge |-> ClosingEdge(h, zs, f), reverse |-> FALSE]
           oi == [edge |-> ClosingEdge(h, zs, f), reverse |-> TRUE]
           es == EmergedSides(h, zs, f)
           is == ImmersedSides(h, zs, f)
           pe == i.facets[EmergedPiece(h, zs, f)]
           pi == i.facets[ImmersedPiece(h, zs, f)]
<1>1. ASSUME f \in Split(h, zs)
      PROVE  /\ Within(old, all) /\ Runs(all, oe, x, y) /\ Runs(all, oi, y, x)
             /\ pe = FacetVertices(all, InsertBefore(r.emerged, oe, r.firstEmerged))
             /\ pi = FacetVertices(all, InsertBefore(r.immersed, oi, r.firstImmersed))
  <2> DEFINE e == ClosingEdge(h, zs, f)
  <2>1. Within(old, all) /\ e \in DOMAIN all /\ all[e] = <<x, y>>
    BY <1>1, IntersectionEdges
  <2>2. /\ pe = FacetVertices(all, InsertBefore(r.emerged, oe, r.firstEmerged))
        /\ pi = FacetVertices(all, InsertBefore(r.immersed, oi, r.firstImmersed))
    BY <1>1, IntersectionFacets
  <2>3. oe.edge = e /\ oe.reverse = FALSE /\ oi.edge = e /\ oi.reverse = TRUE
    OBVIOUS
  <2>4. Runs(all, oe, x, y) /\ Runs(all, oi, y, x)
    <3> HIDE DEF oe, oi, e, all, x, y
    <3> QED
      BY <2>1, <2>3, Zenon DEF Runs
  <2> QED
    BY <2>1, <2>2, <2>4
<1> HIDE DEF oe, oi, r, all, old, x, y, es, is, pe, pi
<1>2. ASSUME AnyEmerged(h, zs, f), AnyImmersed(h, zs, f)
      PROVE  /\ Polygon(pe, es \union {<<x, y>>}) /\ Polygon(pi, is \union {<<y, x>>})
             /\ x # y /\ {x, y} \subseteq CutNodes(h, zs, f) \union SurfaceEnds(h, zs, f)
             /\ x \in CutNodes(h, zs, f) \/ y \in CutNodes(h, zs, f)
  <2>1. f \in Split(h, zs)
    BY <1>2 DEF Split
  <2>2. Cleft(old, all, r, oe, oi, es, is, CutNodes(h, zs, f), SurfaceEnds(h, zs, f))
    BY <1>1, <1>2, <2>1, MixedFacet, Zenon DEF old, r, x, y, es, is
  <2>3. /\ FirstVertex(old, r.immersed[r.firstImmersed + 1]) = x
        /\ FirstVertex(old, r.emerged[r.firstEmerged + 1]) = y
    BY DEF ClosingStart, ClosingEnd, x, y, old, r
  <2>4. /\ x # y /\ {x, y} \subseteq CutNodes(h, zs, f) \union SurfaceEnds(h, zs, f)
        /\ x \in CutNodes(h, zs, f) \/ y \in CutNodes(h, zs, f)
        /\ Polygon(FacetVertices(all, InsertBefore(r.emerged, oe, r.firstEmerged)),
                   es \union {<<x, y>>})
        /\ Polygon(FacetVertices(all, InsertBefore(r.immersed, oi, r.firstImmersed)),
                   is \union {<<y, x>>})
    BY <2>2, <2>3 DEF Cleft
  <2> QED
    BY <1>1, <2>1, <2>4
<1>3. ASSUME ~ AnyEmerged(h, zs, f), ~ AnyImmersed(h, zs, f)
      PROVE  Polygon(pe, es) /\ Polygon(pi, is)
  <2>1. f \in Split(h, zs)
    BY <1>3 DEF Split
  <2>2. /\ x = y
        /\ Polygon(FacetVertices(all, InsertBefore(r.emerged, oe, r.firstEmerged)), es)
    BY <1>1, <1>3, <2>1, LevelFacet, Zenon DEF old, r, x, y, es
  <2>3. Runs(all, oi, x, y)
    BY <1>1, <2>1, <2>2
  <2>4. Polygon(FacetVertices(all, InsertBefore(r.immersed, oi, r.firstImmersed)), is)
    BY <1>1, <1>3, <2>1, <2>3, LevelFacet, Zenon DEF old, r, x, y, is
  <2> QED
    BY <1>1, <2>1, <2>2, <2>4
<1>4. ASSUME f \notin Split(h, zs)
      PROVE  pe = h.facets[f] /\ pi = h.facets[f]
  <2>1. EmergedPiece(h, zs, f) = f /\ ImmersedPiece(h, zs, f) = f
    BY <1>4 DEF EmergedPiece, ImmersedPiece
  <2>2. i.facets[f] = h.facets[f]
    BY IntersectionFacets
  <2> HIDE DEF i
  <2> QED
    BY <2>1, <2>2 DEF pe, pi
<1>5. ASSUME AnyEmerged(h, zs, f), ~ AnyImmersed(h, zs, f)
      PROVE  Polygon(pe, es)
  <2>1. f \notin Split(h, zs)
    BY <1>5 DEF Split
  <2> QED
    BY <1>4, <1>5, <2>1, WholeFacet DEF es
<1>6. ASSUME ~ AnyEmerged(h, zs, f), AnyImmersed(h, zs, f)
      PROVE  Polygon(pi, is)
  <2>1. f \notin Split(h, zs)
    BY <1>6 DEF Split
  <2> QED
    BY <1>4, <1>6, <2>1, WholeFacet DEF is
<1>7. /\ AnyEmerged(h, zs, f) /\ AnyImmersed(h, zs, f) =>
           Contour(h, zs, f) = {<<x, y>>} /\ BackContour(h, zs, f) = {<<y, x>>}
      /\ ~ (AnyEmerged(h, zs, f) /\ AnyImmersed(h, zs, f)) =>
           es \union Contour(h, zs, f) = es /\ is \union BackContour(h, zs, f) = is
  BY DEF Contour, BackContour, x, y
<1>8. f \in WithEmerged(h, zs) => Polygon(pe, es \union Contour(h, zs, f))
  BY <1>2, <1>3, <1>5, <1>7, Zenon DEF WithEmerged
<1>9. f \in WithImmersed(h, zs) => Polygon(pi, is \union BackContour(h, zs, f))
  BY <1>2, <1>3, <1>6, <1>7, Zenon DEF WithImmersed
<1> QED
  BY <1>2, <1>8, <1>9 DEF pe, pi, es, is, x, y

\* Where the vertices of the pieces are: on the side of their part, and those of
\* the side along which a facet is cut in the surface.
LEMMA SidesOnTheirSide ==
  ASSUME NEW h \in {Build(g) : g \in Hulls}, ProperHulls,
         NEW zs \in [1 .. h.vertices -> Immersions], NEW f \in DOMAIN h.facets
  PROVE  LET newZ == Intersection(h, zs).z
         IN  /\ \A v \in CutNodes(h, zs, f) : newZ[v] = 0 /\ v > h.vertices
             /\ \A v \in SurfaceEnds(h, zs, f) : newZ[v] = 0
             /\ \A k \in 1 .. 3 : newZ[h.facets[f][k]] = SignOf(h, zs, f, k)
             /\ \A s \in EmergedSides(h, zs, f) : newZ[s[1]] <= 0
             /\ \A s \in ImmersedSides(h, zs, f) : newZ[s[1]] >= 0
<1> DEFINE newZ == Intersection(h, zs).z
           cut == CutEdges(h, zs)
           v(k) == h.facets[f][k]
           x(k) == SignOf(h, zs, f, k)
           n(k) == NodeAt(h, zs, f, k)
<1>1. newZ = cut.z
  BY IntersectionEdges
<1>2. ASSUME NEW k \in 1 .. 3
      PROVE  newZ[v(k)] = x(k) /\ x(k) \in {-1, 0, 1} /\ NextPlace(k) \in 1 .. 3
  <2>1. v(k) \in 1 .. h.vertices /\ NextPlace(k) \in 1 .. 3
    BY BuiltFacets
  <2>2. cut.z[v(k)] = zs[v(k)]
    <3>1. \A w \in 1 .. h.vertices : cut.z[w] = zs[w]
      BY CutEffect
    <3> QED
      BY <2>1, <3>1
  <2>3. x(k) \in {-1, 0, 1}
    BY SignsType
  <2> QED
    BY <1>1, <2>1, <2>2, <2>3 DEF SignOf
<1>3. ASSUME NEW k \in 1 .. 3, CutBetween(x(k), x(NextPlace(k)))
      PROVE  newZ[n(k)] = 0 /\ n(k) > h.vertices
  <2> DEFINE e == h.oriented[f][k].edge
  <2>1. HalvesOf(h, zs, cut, e)
    BY <1>3, NodesApart, CutEffect
  <2>2. n(k) = NodeOf(h, zs, e)
    BY DEF NodeAt
  <2> HIDE DEF e, cut, n, newZ
  <2> QED
    BY <1>1, <2>1, <2>2, Zenon DEF HalvesOf
<1> HIDE DEF newZ, v, x, n
<1>4. ASSUME NEW k \in 1 .. 3
      PROVE  /\ \A w \in NodesAt(h, zs, f, k) : newZ[w] = 0 /\ w > h.vertices
             /\ \A w \in EndsAt(h, zs, f, k) : newZ[w] = 0
             /\ \A s \in EmergedSide(h, zs, f, k) : newZ[s[1]] <= 0
             /\ \A s \in ImmersedSide(h, zs, f, k) : newZ[s[1]] >= 0
  <2> DEFINE a == v(k)
             b == v(NextPlace(k))
             m == n(k)
             xa == x(k)
             xb == x(NextPlace(k))
  <2>1. /\ NodesAt(h, zs, f, k) = NodesOn(m, xa, xb)
        /\ EndsAt(h, zs, f, k) = EndsInSurface(a, xa)
        /\ EmergedSide(h, zs, f, k) = EmergedWay(a, b, m, xa, xb)
        /\ ImmersedSide(h, zs, f, k) = ImmersedWay(a, b, m, xa, xb)
    BY DEF NodesAt, EndsAt, EmergedSide, ImmersedSide, v, x, n
  <2>2. newZ[a] = xa /\ xa \in {-1, 0, 1} /\ newZ[b] = xb /\ xb \in {-1, 0, 1}
    BY <1>2
  <2>3. CutBetween(xa, xb) => newZ[m] = 0 /\ m > h.vertices
    BY <1>3
  <2> HIDE DEF a, b, m, xa, xb
  <2>4. \A w \in NodesOn(m, xa, xb) : newZ[w] = 0 /\ w > h.vertices
    BY <2>3 DEF NodesOn
  <2>5. \A w \in EndsInSurface(a, xa) : newZ[w] = 0
    BY <2>2 DEF EndsInSurface
  <2>6. \A s \in EmergedWay(a, b, m, xa, xb) : (s[1] = a /\ xa <= 0) \/ (s[1] = m /\ CutBetween(xa, xb))
    <3> SUFFICES ASSUME NEW s \in EmergedWay(a, b, m, xa, xb)
                 PROVE  (s[1] = a /\ xa <= 0) \/ (s[1] = m /\ CutBetween(xa, xb))
      OBVIOUS
    <3>1. \/ xa <= 0 /\ xb <= 0 /\ s = <<a, b>>
          \/ xa < 0 /\ xb > 0 /\ s = <<a, m>>
          \/ xa > 0 /\ xb < 0 /\ s = <<m, b>>
      BY <2>2, WayMembers
    <3> QED
      BY <2>2, <3>1 DEF CutBetween
  <2>7. \A s \in ImmersedWay(a, b, m, xa, xb) : (s[1] = a /\ xa >= 0) \/ (s[1] = m /\ CutBetween(xa, xb))
    <3> SUFFICES ASSUME NEW s \in ImmersedWay(a, b, m, xa, xb)
                 PROVE  (s[1] = a /\ xa >= 0) \/ (s[1] = m /\ CutBetween(xa, xb))
      OBVIOUS
    <3>1. \/ xa >= 0 /\ xb >= 0 /\ s = <<a, b>>
          \/ xa > 0 /\ xb < 0 /\ s = <<a, m>>
          \/ xa < 0 /\ xb > 0 /\ s = <<m, b>>
      BY <2>2, WayMembers
    <3> QED
      BY <2>2, <3>1 DEF CutBetween
  <2>8. \A s \in EmergedWay(a, b, m, xa, xb) : newZ[s[1]] <= 0
    BY <2>2, <2>3, <2>6
  <2>9. \A s \in ImmersedWay(a, b, m, xa, xb) : newZ[s[1]] >= 0
    BY <2>2, <2>3, <2>7
  <2> QED
    BY <2>1, <2>4, <2>5, <2>8, <2>9
<1>5. 1 \in 1 .. 3 /\ 2 \in 1 .. 3 /\ 3 \in 1 .. 3
  OBVIOUS
<1>6. \A w \in CutNodes(h, zs, f) : newZ[w] = 0 /\ w > h.vertices
  BY <1>4, <1>5, Zenon DEF CutNodes
<1>7. \A w \in SurfaceEnds(h, zs, f) : newZ[w] = 0
  BY <1>4, <1>5, Zenon DEF SurfaceEnds
<1>8. \A s \in EmergedSides(h, zs, f) : newZ[s[1]] <= 0
  BY <1>4, <1>5, Zenon DEF EmergedSides
<1>9. \A s \in ImmersedSides(h, zs, f) : newZ[s[1]] >= 0
  BY <1>4, <1>5, Zenon DEF ImmersedSides
<1> QED
  BY <1>2, <1>6, <1>7, <1>8, <1>9 DEF newZ, v, x

\* Every piece is a polygon on the side of its part.
LEMMA PiecesOnTheirSide ==
  ASSUME NEW h \in {Build(g) : g \in Hulls}, ProperHulls,
         NEW zs \in [1 .. h.vertices -> Immersions]
  PROVE  LET i == Intersection(h, zs)
         IN  /\ \A p \in i.immersed :
                  /\ p \in 1 .. Len(i.facets) /\ IsInjective(i.facets[p]) /\ Len(i.facets[p]) >= 3
                  /\ \A k \in DOMAIN i.facets[p] : i.z[i.facets[p][k]] >= 0
             /\ \A p \in i.emerged :
                  /\ p \in 1 .. Len(i.facets) /\ IsInjective(i.facets[p]) /\ Len(i.facets[p]) >= 3
                  /\ \A k \in DOMAIN i.facets[p] : i.z[i.facets[p][k]] <= 0
<1> DEFINE i == Intersection(h, zs)
<1>1. ASSUME NEW f \in DOMAIN h.facets, AnyEmerged(h, zs, f), AnyImmersed(h, zs, f)
      PROVE  i.z[ClosingStart(h, zs, f)] = 0 /\ i.z[ClosingEnd(h, zs, f)] = 0
  <2> DEFINE x == ClosingStart(h, zs, f)
             y == ClosingEnd(h, zs, f)
  <2>1. {x, y} \subseteq CutNodes(h, zs, f) \union SurfaceEnds(h, zs, f)
    BY <1>1, PieceShapes
  <2>2. /\ \A v \in CutNodes(h, zs, f) : i.z[v] = 0
        /\ \A v \in SurfaceEnds(h, zs, f) : i.z[v] = 0
    BY SidesOnTheirSide
  <2> HIDE DEF x, y, i
  <2> QED
    BY <2>1, <2>2 DEF x, y
<1>2. ASSUME NEW f \in DOMAIN h.facets
      PROVE  /\ \A s \in EmergedSides(h, zs, f) \union Contour(h, zs, f) : i.z[s[1]] <= 0
             /\ \A s \in ImmersedSides(h, zs, f) \union BackContour(h, zs, f) : i.z[s[1]] >= 0
  <2>1. /\ \A s \in EmergedSides(h, zs, f) : i.z[s[1]] <= 0
        /\ \A s \in ImmersedSides(h, zs, f) : i.z[s[1]] >= 0
    BY SidesOnTheirSide
  <2> HIDE DEF i
  <2>2. \A s \in Contour(h, zs, f) \union BackContour(h, zs, f) : i.z[s[1]] = 0
    BY <1>1 DEF Contour, BackContour
  <2> QED
    BY <2>1, <2>2
<1>3. ASSUME NEW p \in i.immersed
      PROVE  /\ p \in 1 .. Len(i.facets) /\ IsInjective(i.facets[p]) /\ Len(i.facets[p]) >= 3
             /\ \A k \in DOMAIN i.facets[p] : i.z[i.facets[p][k]] >= 0
  <2>1. PICK f \in WithImmersed(h, zs) : p = ImmersedPiece(h, zs, f)
    BY <1>3, IntersectionFacets
  <2>2. f \in DOMAIN h.facets
    BY DEF WithImmersed
  <2>3. p \in 1 .. Len(i.facets)
    BY <2>1, <2>2, IntersectionFacets
  <2>4. Polygon(i.facets[p], ImmersedSides(h, zs, f) \union BackContour(h, zs, f))
    BY <2>1, <2>2, PieceShapes
  <2> HIDE DEF i
  <2> QED
    BY <1>2, <2>2, <2>3, <2>4 DEF Polygon
<1>4. ASSUME NEW p \in i.emerged
      PROVE  /\ p \in 1 .. Len(i.facets) /\ IsInjective(i.facets[p]) /\ Len(i.facets[p]) >= 3
             /\ \A k \in DOMAIN i.facets[p] : i.z[i.facets[p][k]] <= 0
  <2>1. PICK f \in WithEmerged(h, zs) : p = EmergedPiece(h, zs, f)
    BY <1>4, IntersectionFacets
  <2>2. f \in DOMAIN h.facets
    BY DEF WithEmerged
  <2>3. p \in 1 .. Len(i.facets)
    BY <2>1, <2>2, IntersectionFacets
  <2>4. Polygon(i.facets[p], EmergedSides(h, zs, f) \union Contour(h, zs, f))
    BY <2>1, <2>2, PieceShapes
  <2> HIDE DEF i
  <2> QED
    BY <1>2, <2>2, <2>3, <2>4 DEF Polygon
<1> QED
  BY <1>3, <1>4

-----------------------------------------------------------------------------
(* Where the parts are open.                                                *)

(* Hulls without holes: every side is run along backwards by a facet. *)
ClosedHulls ==
  \A g \in Hulls : \A f \in DOMAIN g.facets : \A k \in 1 .. 3 :
    \E e \in DOMAIN g.facets : \E j \in 1 .. 3 :
      Side(g.facets, e, j) = Reversed(Side(g.facets, f, k))

\* The sides on either side of an edge are cut at the same node.
LEMMA FacingSides ==
  ASSUME NEW h \in {Build(g) : g \in Hulls}, ProperHulls,
         NEW zs \in [1 .. h.vertices -> Immersions],
         NEW f \in DOMAIN h.facets, NEW k \in 1 .. 3, NEW e \in DOMAIN h.facets, NEW j \in 1 .. 3,
         \/ Side(h.facets, e, j) = Side(h.facets, f, k)
         \/ Side(h.facets, e, j) = Reversed(Side(h.facets, f, k))
  PROVE  NodeAt(h, zs, e, j) = NodeAt(h, zs, f, k)
<1> DEFINE a == h.facets[f][k]
           b == h.facets[f][NextPlace(k)]
           c == h.facets[e][j]
           d == h.facets[e][NextPlace(j)]
           o == h.oriented[f][k]
           p == h.oriented[e][j]
<1>1. Runs(h.edges, o, a, b) /\ Runs(h.edges, p, c, d)
  BY BuiltFacets
<1>2. (c = a /\ d = b) \/ (c = b /\ d = a)
  <2>1. <<c, d>> = <<a, b>> \/ <<c, d>> = <<b, a>>
    BY DEF Side, Reversed
  <2> HIDE DEF a, b, c, d
  <2> QED
    BY <2>1
<1>3. \A m, n \in DOMAIN h.edges : SameEdge(h.edges[m], h.edges[n]) => m = n
  BY BuiltFacets
<1> HIDE DEF a, b, c, d, o, p
<1>4. /\ h.edges[o.edge] = <<a, b>> \/ h.edges[o.edge] = <<b, a>>
      /\ h.edges[p.edge] = <<c, d>> \/ h.edges[p.edge] = <<d, c>>
      /\ o.edge \in DOMAIN h.edges /\ p.edge \in DOMAIN h.edges
  BY <1>1, Zenon DEF Runs
<1>5. SameEdge(h.edges[p.edge], h.edges[o.edge])
  <2>1. SameEdge(h.edges[p.edge], h.edges[o.edge]) <=>
          \/ h.edges[p.edge] = h.edges[o.edge]
          \/ h.edges[p.edge] = <<h.edges[o.edge][2], h.edges[o.edge][1]>>
    BY DEF SameEdge
  <2> QED
    BY <1>2, <1>4, <2>1
<1>6. p.edge = o.edge
  BY <1>3, <1>4, <1>5
<1> QED
  BY <1>6 DEF NodeAt, o, p

\* What a side gives to a part, the side facing it gives backwards.
LEMMA FacingWays ==
  ASSUME NEW h \in {Build(g) : g \in Hulls}, ProperHulls,
         NEW zs \in [1 .. h.vertices -> Immersions],
         NEW f \in DOMAIN h.facets, NEW k \in 1 .. 3, NEW e \in DOMAIN h.facets, NEW j \in 1 .. 3,
         Side(h.facets, e, j) = Reversed(Side(h.facets, f, k)), NEW s
  PROVE  /\ SignOf(h, zs, e, j) = SignOf(h, zs, f, NextPlace(k))
         /\ SignOf(h, zs, e, NextPlace(j)) = SignOf(h, zs, f, k)
         /\ s \in EmergedSide(h, zs, f, k) => Reversed(s) \in EmergedSide(h, zs, e, j)
         /\ s \in ImmersedSide(h, zs, f, k) => Reversed(s) \in ImmersedSide(h, zs, e, j)
<1> DEFINE a == h.facets[f][k]
           b == h.facets[f][NextPlace(k)]
           c == h.facets[e][j]
           d == h.facets[e][NextPlace(j)]
           n == NodeAt(h, zs, f, k)
           x == SignOf(h, zs, f, k)
           y == SignOf(h, zs, f, NextPlace(k))
<1>1. c = b /\ d = a
  <2>1. <<c, d>> = <<b, a>>
    BY DEF Side, Reversed
  <2> HIDE DEF a, b, c, d
  <2> QED
    BY <2>1
<1>2. NodeAt(h, zs, e, j) = n
  BY FacingSides
<1>3. SignOf(h, zs, e, j) = y /\ SignOf(h, zs, e, NextPlace(j)) = x
  BY <1>1 DEF SignOf
<1>4. x \in {-1, 0, 1} /\ y \in {-1, 0, 1}
  <2>1. NextPlace(k) \in 1 .. 3
    BY DEF NextPlace
  <2> QED
    BY <2>1, SignsType
<1>5. /\ EmergedSide(h, zs, f, k) = EmergedWay(a, b, n, x, y)
      /\ ImmersedSide(h, zs, f, k) = ImmersedWay(a, b, n, x, y)
  BY DEF EmergedSide, ImmersedSide
<1>6. /\ EmergedSide(h, zs, e, j) = EmergedWay(b, a, n, y, x)
      /\ ImmersedSide(h, zs, e, j) = ImmersedWay(b, a, n, y, x)
  BY <1>1, <1>2, <1>3, Zenon DEF EmergedSide, ImmersedSide
<1> HIDE DEF a, b, n, x, y
<1>7. ASSUME s \in EmergedWay(a, b, n, x, y)
      PROVE  Reversed(s) \in EmergedWay(b, a, n, y, x)
  <2>1. \/ x <= 0 /\ y <= 0 /\ s = <<a, b>>
        \/ x < 0 /\ y > 0 /\ s = <<a, n>>
        \/ x > 0 /\ y < 0 /\ s = <<n, b>>
    BY <1>4, <1>7, WayMembers
  <2>2. \/ y <= 0 /\ x <= 0 /\ Reversed(s) = <<b, a>>
        \/ y < 0 /\ x > 0 /\ Reversed(s) = <<b, n>>
        \/ y > 0 /\ x < 0 /\ Reversed(s) = <<n, a>>
    BY <2>1 DEF Reversed
  <2> QED
    BY <1>4, <2>2, WayMembers
<1>8. ASSUME s \in ImmersedWay(a, b, n, x, y)
      PROVE  Reversed(s) \in ImmersedWay(b, a, n, y, x)
  <2>1. \/ x >= 0 /\ y >= 0 /\ s = <<a, b>>
        \/ x > 0 /\ y < 0 /\ s = <<a, n>>
        \/ x < 0 /\ y > 0 /\ s = <<n, b>>
    BY <1>4, <1>8, WayMembers
  <2>2. \/ y >= 0 /\ x >= 0 /\ Reversed(s) = <<b, a>>
        \/ y > 0 /\ x < 0 /\ Reversed(s) = <<b, n>>
        \/ y < 0 /\ x > 0 /\ Reversed(s) = <<n, a>>
    BY <2>1 DEF Reversed
  <2> QED
    BY <1>4, <2>2, WayMembers
<1> QED
  BY <1>3, <1>5, <1>6, <1>7, <1>8 DEF x, y

(* A side in the surface, and known as such. *)
KnownInSurface(i, s) ==
  /\ i.z[s[1]] = 0 /\ i.z[s[2]] = 0
  /\ \E e \in i.surfaceEdges : SameEdge(i.edges[e], s)

\* A side whose ends are in the surface is known to be.
LEMMA LevelSides ==
  ASSUME NEW h \in {Build(g) : g \in Hulls}, ProperHulls,
         NEW zs \in [1 .. h.vertices -> Immersions],
         NEW f \in DOMAIN h.facets, NEW k \in 1 .. 3,
         SignOf(h, zs, f, k) = 0, SignOf(h, zs, f, NextPlace(k)) = 0
  PROVE  KnownInSurface(Intersection(h, zs), Side(h.facets, f, k))
<1> DEFINE i == Intersection(h, zs)
           cut == CutEdges(h, zs)
           o == h.oriented[f][k]
           a == h.facets[f][k]
           b == h.facets[f][NextPlace(k)]
<1>1. NextPlace(k) \in 1 .. 3 /\ Runs(h.edges, o, a, b) /\ DOMAIN h.oriented[f] = 1 .. 3
  BY BuiltFacets
<1>2. i.z[a] = 0 /\ i.z[b] = 0
  BY <1>1, SidesOnTheirSide
<1>3. o.edge \in DOMAIN h.edges /\ (h.edges[o.edge] = <<a, b>> \/ h.edges[o.edge] = <<b, a>>)
  <2> HIDE DEF a, b, o
  <2> QED
    BY <1>1, Zenon DEF Runs
<1>4. BothEndsTouch(cut.status[o.edge])
  <2>1. BothEndsTouch(CutEdges(h, zs).status[h.oriented[f][k].edge]) <=>
          zs[h.facets[f][k]] = 0 /\ zs[h.facets[f][NextPlace(k)]] = 0
    BY DealBySigns
  <2> QED
    BY <2>1 DEF SignOf
<1>5. o.edge \in Touching(h, cut.status)
  <2> DEFINE status == cut.status
  <2>1. BothEndsTouch(status[h.oriented[f][k].edge]) /\ k \in DOMAIN h.oriented[f]
    BY <1>1, <1>4
  <2> HIDE DEF status
  <2>2. Reached(h, status, f)
    BY <2>1, Zenon DEF Reached
  <2> DEFINE e == h.oriented[f][k].edge
  <2>3. e \in DOMAIN h.edges /\ BothEndsTouch(status[e])
    BY <1>3, <2>1
  <2>4. \E j \in DOMAIN h.oriented[f] : h.oriented[f][j].edge = e
    BY <2>1
  <2> HIDE DEF e
  <2>5. e \in Touching(h, status)
    BY <2>2, <2>3, <2>4 DEF Touching
  <2> QED
    BY <2>5 DEF status, e
<1>6. o.edge \in i.surfaceEdges
  BY <1>5, IntersectionEdges
<1>7. i.edges[o.edge] = h.edges[o.edge]
  <2>1. Within(cut.edges, i.edges)
    BY IntersectionEdges
  <2>2. /\ DOMAIN h.edges \subseteq DOMAIN cut.edges
        /\ \A e \in DOMAIN h.edges : cut.edges[e] = h.edges[e]
    BY CutEffect
  <2> HIDE DEF i, cut, o
  <2> QED
    BY <1>3, <2>1, <2>2 DEF Within
<1> HIDE DEF i, o, a, b
<1>8. SameEdge(i.edges[o.edge], <<a, b>>)
  BY <1>3, <1>7 DEF SameEdge
<1>9. KnownInSurface(i, <<a, b>>)
  BY <1>2, <1>6, <1>8 DEF KnownInSurface
<1> QED
  BY <1>9 DEF i, a, b, Side

\* The side along which a facet is cut is known to be in the surface.
LEMMA ContoursKnown ==
  ASSUME NEW h \in {Build(g) : g \in Hulls}, ProperHulls,
         NEW zs \in [1 .. h.vertices -> Immersions], NEW f \in DOMAIN h.facets,
         NEW s \in Contour(h, zs, f) \union BackContour(h, zs, f)
  PROVE  KnownInSurface(Intersection(h, zs), s)
<1> DEFINE i == Intersection(h, zs)
           x == ClosingStart(h, zs, f)
           y == ClosingEnd(h, zs, f)
           e == ClosingEdge(h, zs, f)
<1>1. AnyEmerged(h, zs, f) /\ AnyImmersed(h, zs, f) /\ (s = <<x, y>> \/ s = <<y, x>>)
  BY DEF Contour, BackContour
<1>2. x # y /\ {x, y} \subseteq CutNodes(h, zs, f) \union SurfaceEnds(h, zs, f)
  BY <1>1, PieceShapes
<1>3. i.z[x] = 0 /\ i.z[y] = 0
  <2>1. /\ \A v \in CutNodes(h, zs, f) : i.z[v] = 0
        /\ \A v \in SurfaceEnds(h, zs, f) : i.z[v] = 0
    BY SidesOnTheirSide
  <2> HIDE DEF i, x, y
  <2> QED
    BY <1>2, <2>1
<1>4. f \in Split(h, zs)
  BY <1>1 DEF Split
<1>5. e \in i.surfaceEdges /\ i.edges[e] = <<x, y>>
  BY <1>2, <1>4, IntersectionEdges
<1> HIDE DEF i, x, y, e
<1>6. SameEdge(i.edges[e], s)
  BY <1>1, <1>5 DEF SameEdge
<1>7. KnownInSurface(i, s)
  BY <1>1, <1>3, <1>5, <1>6 DEF KnownInSurface
<1> QED
  BY <1>7 DEF i

\* A side of a piece is known to be in the surface or is run along backwards by
\* a piece of the same part.
LEMMA SidesFaced ==
  ASSUME NEW h \in {Build(g) : g \in Hulls}, ProperHulls, ClosedHulls,
         NEW zs \in [1 .. h.vertices -> Immersions], NEW f \in DOMAIN h.facets, NEW s
  PROVE  /\ s \in EmergedSides(h, zs, f) =>
              \/ KnownInSurface(Intersection(h, zs), s)
              \/ \E e \in WithEmerged(h, zs) : Reversed(s) \in EmergedSides(h, zs, e)
         /\ s \in ImmersedSides(h, zs, f) =>
              \/ KnownInSurface(Intersection(h, zs), s)
              \/ \E e \in WithImmersed(h, zs) : Reversed(s) \in ImmersedSides(h, zs, e)
<1> DEFINE i == Intersection(h, zs)
<1>1. ASSUME NEW k \in 1 .. 3
      PROVE  \E e \in DOMAIN h.facets : \E j \in 1 .. 3 :
               Side(h.facets, e, j) = Reversed(Side(h.facets, f, k))
  <2>1. PICK g \in Hulls : h = Build(g)
    OBVIOUS
  <2>2. h.facets = g.facets
    BY <2>1 DEF Build
  <2> QED
    BY <2>2 DEF ClosedHulls
<1>2. ASSUME NEW e \in DOMAIN h.facets, NEW j \in 1 .. 3
      PROVE  /\ EmergedSide(h, zs, e, j) \subseteq EmergedSides(h, zs, e)
             /\ ImmersedSide(h, zs, e, j) \subseteq ImmersedSides(h, zs, e)
  <2>1. j = 1 \/ j = 2 \/ j = 3
    OBVIOUS
  <2> QED
    BY <2>1 DEF EmergedSides, ImmersedSides
<1>3. ASSUME NEW k \in 1 .. 3, s \in EmergedSide(h, zs, f, k)
      PROVE  \/ KnownInSurface(i, s)
             \/ \E e \in WithEmerged(h, zs) : Reversed(s) \in EmergedSides(h, zs, e)
  <2> DEFINE x == SignOf(h, zs, f, k)
             y == SignOf(h, zs, f, NextPlace(k))
             a == h.facets[f][k]
             b == h.facets[f][NextPlace(k)]
             n == NodeAt(h, zs, f, k)
  <2>1. x \in {-1, 0, 1} /\ y \in {-1, 0, 1}
    <3>1. NextPlace(k) \in 1 .. 3
      BY DEF NextPlace
    <3> QED
      BY <3>1, SignsType
  <2>2. s \in EmergedWay(a, b, n, x, y)
    BY <1>3 DEF EmergedSide
  <2>3. CASE x = 0 /\ y = 0
    <3>1. s = Side(h.facets, f, k)
      BY <2>2, <2>3 DEF EmergedWay, Side
    <3> QED
      BY <2>3, <3>1, LevelSides
  <2>4. CASE ~ (x = 0 /\ y = 0)
    <3>1. PICK e \in DOMAIN h.facets, j \in 1 .. 3 :
            Side(h.facets, e, j) = Reversed(Side(h.facets, f, k))
      BY <1>1
    <3>2. /\ SignOf(h, zs, e, j) = y /\ SignOf(h, zs, e, NextPlace(j)) = x
          /\ Reversed(s) \in EmergedSide(h, zs, e, j)
      BY <1>3, <3>1, FacingWays
    <3>3. x < 0 \/ y < 0
      <4> HIDE DEF x, y, a, b, n
      <4>1. \/ x <= 0 /\ y <= 0
            \/ x < 0 /\ y > 0
            \/ x > 0 /\ y < 0
        BY <2>1, <2>2, WayMembers
      <4> QED
        BY <2>1, <2>4, <4>1
    <3>4. AnyEmerged(h, zs, e)
      <4>1. NextPlace(j) \in 1 .. 3
        BY DEF NextPlace
      <4> HIDE DEF x, y
      <4> QED
        BY <3>2, <3>3, <4>1 DEF AnyEmerged
    <3> QED
      BY <1>2, <3>2, <3>4 DEF WithEmerged
  <2> QED
    BY <2>3, <2>4
<1>4. ASSUME NEW k \in 1 .. 3, s \in ImmersedSide(h, zs, f, k)
      PROVE  \/ KnownInSurface(i, s)
             \/ \E e \in WithImmersed(h, zs) : Reversed(s) \in ImmersedSides(h, zs, e)
  <2> DEFINE x == SignOf(h, zs, f, k)
             y == SignOf(h, zs, f, NextPlace(k))
             a == h.facets[f][k]
             b == h.facets[f][NextPlace(k)]
             n == NodeAt(h, zs, f, k)
  <2>1. x \in {-1, 0, 1} /\ y \in {-1, 0, 1}
    <3>1. NextPlace(k) \in 1 .. 3
      BY DEF NextPlace
    <3> QED
      BY <3>1, SignsType
  <2>2. s \in ImmersedWay(a, b, n, x, y)
    BY <1>4 DEF ImmersedSide
  <2>3. CASE x = 0 /\ y = 0
    <3>1. s = Side(h.facets, f, k)
      BY <2>2, <2>3 DEF ImmersedWay, Side
    <3> QED
      BY <2>3, <3>1, LevelSides
  <2>4. CASE ~ (x = 0 /\ y = 0)
    <3>1. PICK e \in DOMAIN h.facets, j \in 1 .. 3 :
            Side(h.facets, e, j) = Reversed(Side(h.facets, f, k))
      BY <1>1
    <3>2. /\ SignOf(h, zs, e, j) = y /\ SignOf(h, zs, e, NextPlace(j)) = x
          /\ Reversed(s) \in ImmersedSide(h, zs, e, j)
      BY <1>4, <3>1, FacingWays
    <3>3. x > 0 \/ y > 0
      <4> HIDE DEF x, y, a, b, n
      <4>1. \/ x >= 0 /\ y >= 0
            \/ x > 0 /\ y < 0
            \/ x < 0 /\ y > 0
        BY <2>1, <2>2, WayMembers
      <4> QED
        BY <2>1, <2>4, <4>1
    <3>4. AnyImmersed(h, zs, e)
      <4>1. NextPlace(j) \in 1 .. 3
        BY DEF NextPlace
      <4> HIDE DEF x, y
      <4> QED
        BY <3>2, <3>3, <4>1 DEF AnyImmersed
    <3> QED
      BY <1>2, <3>2, <3>4 DEF WithImmersed
  <2> QED
    BY <2>3, <2>4
<1>5. 1 \in 1 .. 3 /\ 2 \in 1 .. 3 /\ 3 \in 1 .. 3
  OBVIOUS
<1> HIDE DEF i
<1>6. s \in EmergedSides(h, zs, f) => \E k \in 1 .. 3 : s \in EmergedSide(h, zs, f, k)
  BY <1>5, Zenon DEF EmergedSides
<1>7. s \in ImmersedSides(h, zs, f) => \E k \in 1 .. 3 : s \in ImmersedSide(h, zs, f, k)
  BY <1>5, Zenon DEF ImmersedSides
<1> QED
  BY <1>3, <1>4, <1>6, <1>7 DEF i

(* The sides of a facet of a list. *)
SidesIn(list, p) == {Sides(list[p])[k] : k \in DOMAIN Sides(list[p])}

\* The sides of the pieces of a facet, and those it is given for one part.
LEMMA PieceSides ==
  ASSUME NEW h \in {Build(g) : g \in Hulls}, ProperHulls,
         NEW zs \in [1 .. h.vertices -> Immersions], NEW f \in DOMAIN h.facets
  PROVE  LET i == Intersection(h, zs)
         IN  /\ f \in WithEmerged(h, zs) =>
                  SidesIn(i.facets, EmergedPiece(h, zs, f)) = EmergedSides(h, zs, f) \union Contour(h, zs, f)
             /\ f \in WithImmersed(h, zs) =>
                  SidesIn(i.facets, ImmersedPiece(h, zs, f)) = ImmersedSides(h, zs, f) \union BackContour(h, zs, f)
<1> DEFINE i == Intersection(h, zs)
<1>1. /\ f \in WithEmerged(h, zs) =>
           Polygon(i.facets[EmergedPiece(h, zs, f)],
                   EmergedSides(h, zs, f) \union Contour(h, zs, f))
      /\ f \in WithImmersed(h, zs) =>
           Polygon(i.facets[ImmersedPiece(h, zs, f)],
                   ImmersedSides(h, zs, f) \union BackContour(h, zs, f))
  BY PieceShapes
<1> HIDE DEF i
<1>2. /\ f \in WithEmerged(h, zs) =>
           SidesIn(i.facets, EmergedPiece(h, zs, f)) = EmergedSides(h, zs, f) \union Contour(h, zs, f)
      /\ f \in WithImmersed(h, zs) =>
           SidesIn(i.facets, ImmersedPiece(h, zs, f)) = ImmersedSides(h, zs, f) \union BackContour(h, zs, f)
  BY <1>1, Zenon DEF Polygon, SidesIn
<1> QED
  BY <1>2 DEF i

\* A side of a part that no facet of it faces is known to be in the surface.
LEMMA OpenSidesKnown ==
  ASSUME NEW h \in {Build(g) : g \in Hulls}, ProperHulls, ClosedHulls,
         NEW zs \in [1 .. h.vertices -> Immersions]
  PROVE  LET i == Intersection(h, zs)
         IN  /\ \A p \in i.emerged : \A s \in SidesIn(i.facets, p) :
                  KnownInSurface(i, s) \/ \E q \in i.emerged : Reversed(s) \in SidesIn(i.facets, q)
             /\ \A p \in i.immersed : \A s \in SidesIn(i.facets, p) :
                  KnownInSurface(i, s) \/ \E q \in i.immersed : Reversed(s) \in SidesIn(i.facets, q)
<1> DEFINE i == Intersection(h, zs)
<1>1. /\ i.emerged = {EmergedPiece(h, zs, f) : f \in WithEmerged(h, zs)}
      /\ i.immersed = {ImmersedPiece(h, zs, f) : f \in WithImmersed(h, zs)}
  BY IntersectionFacets
<1>2. ASSUME NEW f \in DOMAIN h.facets
      PROVE  /\ f \in WithEmerged(h, zs) =>
                  SidesIn(i.facets, EmergedPiece(h, zs, f)) = EmergedSides(h, zs, f) \union Contour(h, zs, f)
             /\ f \in WithImmersed(h, zs) =>
                  SidesIn(i.facets, ImmersedPiece(h, zs, f)) = ImmersedSides(h, zs, f) \union BackContour(h, zs, f)
  BY PieceSides
<1>3. WithEmerged(h, zs) \subseteq DOMAIN h.facets /\ WithImmersed(h, zs) \subseteq DOMAIN h.facets
  BY DEF WithEmerged, WithImmersed
<1>4. ASSUME NEW f \in DOMAIN h.facets, NEW s
      PROVE  /\ s \in EmergedSides(h, zs, f) =>
                  \/ KnownInSurface(i, s)
                  \/ \E e \in WithEmerged(h, zs) : Reversed(s) \in EmergedSides(h, zs, e)
             /\ s \in ImmersedSides(h, zs, f) =>
                  \/ KnownInSurface(i, s)
                  \/ \E e \in WithImmersed(h, zs) : Reversed(s) \in ImmersedSides(h, zs, e)
             /\ s \in Contour(h, zs, f) \union BackContour(h, zs, f) => KnownInSurface(i, s)
  BY SidesFaced, ContoursKnown
<1> HIDE DEF i
<1>5. ASSUME NEW p \in i.emerged, NEW s \in SidesIn(i.facets, p), ~ KnownInSurface(i, s)
      PROVE  \E q \in i.emerged : Reversed(s) \in SidesIn(i.facets, q)
  <2>1. PICK f \in WithEmerged(h, zs) : p = EmergedPiece(h, zs, f)
    BY <1>1, <1>5
  <2>2. s \in EmergedSides(h, zs, f) \union Contour(h, zs, f) /\ f \in DOMAIN h.facets
    BY <1>2, <1>3, <1>5, <2>1
  <2>3. PICK e \in WithEmerged(h, zs) : Reversed(s) \in EmergedSides(h, zs, e)
    BY <1>4, <1>5, <2>2
  <2>4. Reversed(s) \in SidesIn(i.facets, EmergedPiece(h, zs, e))
    BY <1>2, <1>3, <2>3
  <2> QED
    BY <1>1, <2>4
<1>6. ASSUME NEW p \in i.immersed, NEW s \in SidesIn(i.facets, p), ~ KnownInSurface(i, s)
      PROVE  \E q \in i.immersed : Reversed(s) \in SidesIn(i.facets, q)
  <2>1. PICK f \in WithImmersed(h, zs) : p = ImmersedPiece(h, zs, f)
    BY <1>1, <1>6
  <2>2. s \in ImmersedSides(h, zs, f) \union BackContour(h, zs, f) /\ f \in DOMAIN h.facets
    BY <1>2, <1>3, <1>6, <2>1
  <2>3. PICK e \in WithImmersed(h, zs) : Reversed(s) \in ImmersedSides(h, zs, e)
    BY <1>4, <1>6, <2>2
  <2>4. Reversed(s) \in SidesIn(i.facets, ImmersedPiece(h, zs, e))
    BY <1>2, <1>3, <2>3
  <2> QED
    BY <1>1, <2>4
<1>7. /\ \A p \in i.emerged : \A s \in SidesIn(i.facets, p) :
           KnownInSurface(i, s) \/ \E q \in i.emerged : Reversed(s) \in SidesIn(i.facets, q)
      /\ \A p \in i.immersed : \A s \in SidesIn(i.facets, p) :
           KnownInSurface(i, s) \/ \E q \in i.immersed : Reversed(s) \in SidesIn(i.facets, q)
  BY <1>5, <1>6
<1> QED
  BY <1>7 DEF i

-----------------------------------------------------------------------------
(* The two parts are the hull again.                                        *)

(* Hulls whose facets all run the same way round: no two of them run along *)
(* a side in the same direction.                                           *)
OrientedHulls ==
  \A g \in Hulls : \A f, e \in DOMAIN g.facets : \A k, j \in 1 .. 3 :
    Side(g.facets, e, j) = Side(g.facets, f, k) => e = f /\ j = k

(* What becomes of a side of a facet. *)
HalvesAt(h, zs, f, k) ==
  LET a == h.facets[f][k]
      b == h.facets[f][NextPlace(k)]
      n == NodeAt(h, zs, f, k)
  IN  IF CutBetween(SignOf(h, zs, f, k), SignOf(h, zs, f, NextPlace(k)))
        THEN {<<a, n>>, <<n, b>>} ELSE {<<a, b>>}

\* The node of a side that is cut, and the edges on either side of it.
LEMMA NodeOfCut ==
  ASSUME NEW h \in {Build(g) : g \in Hulls}, ProperHulls,
         NEW zs \in [1 .. h.vertices -> Immersions],
         NEW f \in DOMAIN h.facets, NEW k \in 1 .. 3,
         CutBetween(SignOf(h, zs, f, k), SignOf(h, zs, f, NextPlace(k)))
  PROVE  LET i == Intersection(h, zs)
             a == h.facets[f][k]
             b == h.facets[f][NextPlace(k)]
             n == NodeAt(h, zs, f, k)
         IN  /\ h.oriented[f][k].edge \in Crossing(h, zs)
             /\ n \in h.vertices + 1 .. Len(i.z) /\ i.z[n] = 0
             /\ \E e, d \in DOMAIN i.edges :
                  /\ SameEdge(i.edges[e], <<a, n>>) /\ SameEdge(i.edges[d], <<n, b>>)
                  /\ e > Len(h.edges) /\ d > Len(h.edges)
                  /\ e = d + 1 \/ d = e + 1
<1> DEFINE i == Intersection(h, zs)
           cut == CutEdges(h, zs)
           a == h.facets[f][k]
           b == h.facets[f][NextPlace(k)]
           n == NodeAt(h, zs, f, k)
           o == h.oriented[f][k]
           q == o.edge
           half == cut.half[q]
<1>1. q \in Crossing(h, zs)
  BY NodesApart
<1>2. HalvesOf(h, zs, cut, q)
  BY <1>1, CutEffect
<1>3. n = NodeOf(h, zs, q)
  BY DEF NodeAt
<1>4. h.vertices \in Nat /\ Len(h.edges) \in Nat /\ Runs(h.edges, o, a, b)
  BY BuiltFacets
<1>5. i.z = cut.z /\ Within(cut.edges, i.edges) /\ IsList(cut.z)
  BY IntersectionEdges, CutEffect
<1> HIDE DEF i, cut, a, b, n, o
<1>6. /\ half \in DOMAIN cut.edges /\ half + 1 \in DOMAIN cut.edges
      /\ half \in Int /\ half > Len(h.edges)
      /\ cut.edges[half] = <<h.edges[q][1], n>> /\ cut.edges[half + 1] = <<n, h.edges[q][2]>>
      /\ n \in Int /\ n > h.vertices /\ n <= Len(cut.z) /\ cut.z[n] = 0
  BY <1>2, <1>3, Zenon DEF HalvesOf
<1>7. (h.edges[q] = <<a, b>> \/ h.edges[q] = <<b, a>>)
  BY <1>4, Zenon DEF Runs
<1>8. (h.edges[q][1] = a /\ h.edges[q][2] = b) \/ (h.edges[q][1] = b /\ h.edges[q][2] = a)
  BY <1>7
<1> HIDE DEF q, half
<1>9. /\ half \in DOMAIN i.edges /\ half + 1 \in DOMAIN i.edges
      /\ i.edges[half] = <<h.edges[q][1], n>> /\ i.edges[half + 1] = <<n, h.edges[q][2]>>
  BY <1>5, <1>6 DEF Within
<1>10. half > Len(h.edges) /\ half + 1 > Len(h.edges)
  BY <1>4, <1>6
<1>11. n \in h.vertices + 1 .. Len(i.z) /\ i.z[n] = 0
  <2>1. Len(i.z) \in Nat
    BY <1>5 DEF IsList
  <2> QED
    BY <1>4, <1>5, <1>6, <2>1
<1>12. \E e, d \in DOMAIN i.edges :
         /\ SameEdge(i.edges[e], <<a, n>>) /\ SameEdge(i.edges[d], <<n, b>>)
         /\ e > Len(h.edges) /\ d > Len(h.edges)
         /\ e = d + 1 \/ d = e + 1
  <2>1. CASE h.edges[q][1] = a /\ h.edges[q][2] = b
    <3>1. SameEdge(i.edges[half], <<a, n>>) /\ SameEdge(i.edges[half + 1], <<n, b>>)
      BY <1>9, <2>1 DEF SameEdge
    <3> QED
      BY <1>9, <1>10, <3>1
  <2>2. CASE h.edges[q][1] = b /\ h.edges[q][2] = a
    <3>1. SameEdge(i.edges[half + 1], <<a, n>>) /\ SameEdge(i.edges[half], <<n, b>>)
      BY <1>9, <2>2 DEF SameEdge
    <3> QED
      BY <1>9, <1>10, <3>1
  <2> QED
    BY <1>8, <2>1, <2>2
<1> QED
  BY <1>1, <1>11, <1>12 DEF i, a, b, n, q, o

\* The edges added are halves of edges that are cut, or lie in the surface, or
\* close a flat facet and lead nowhere.
LEMMA EdgesAdded ==
  ASSUME NEW h \in {Build(g) : g \in Hulls}, ProperHulls,
         NEW zs \in [1 .. h.vertices -> Immersions]
  PROVE  LET i == Intersection(h, zs)
         IN  \A e \in DOMAIN i.edges : e > Len(h.edges) =>
               \/ \E q \in Crossing(h, zs) :
                    \/ i.edges[e] = <<h.edges[q][1], NodeOf(h, zs, q)>>
                    \/ i.edges[e] = <<NodeOf(h, zs, q), h.edges[q][2]>>
               \/ \E x, y : /\ i.edges[e] = <<x, y>>
                            /\ (i.z[x] = 0 /\ i.z[y] = 0) \/ x = y
<1> DEFINE i == Intersection(h, zs)
           cut == CutEdges(h, zs)
<1> SUFFICES ASSUME NEW e \in DOMAIN i.edges, e > Len(h.edges)
             PROVE  \/ \E q \in Crossing(h, zs) :
                         \/ i.edges[e] = <<h.edges[q][1], NodeOf(h, zs, q)>>
                         \/ i.edges[e] = <<NodeOf(h, zs, q), h.edges[q][2]>>
                    \/ \E x, y : /\ i.edges[e] = <<x, y>>
                                 /\ (i.z[x] = 0 /\ i.z[y] = 0) \/ x = y
  OBVIOUS
<1>1. Within(cut.edges, i.edges)
  BY IntersectionEdges
<1>2. e \in DOMAIN cut.edges \/ \E f \in Split(h, zs) : e = ClosingEdge(h, zs, f)
  BY IntersectionEdges
<1>3. ASSUME e \in DOMAIN cut.edges
      PROVE  \E q \in Crossing(h, zs) : \/ i.edges[e] = <<h.edges[q][1], NodeOf(h, zs, q)>>
                                        \/ i.edges[e] = <<NodeOf(h, zs, q), h.edges[q][2]>>
  <2> DEFINE m == Len(h.edges)
             k == e - m
  <2>1. m \in Nat
    BY BuiltFacets
  <2>2. Len(cut.edges) \in Nat /\ DOMAIN cut.edges = 1 .. Len(cut.edges)
    <3>1. IsList(cut.edges)
      BY CutEffect
    <3> HIDE DEF cut
    <3> QED
      BY <3>1 DEF IsList
  <2>3. OnlyHalves(h, zs, cut)
    BY CutEffect
  <2>4. \A q \in Crossing(h, zs) : HalvesOf(h, zs, cut, q)
    BY CutEffect
  <2> HIDE DEF m, cut, i
  <2> DEFINE n == Len(cut.edges)
  <2>5. k \in 1 .. n - m /\ m + k = e
    <3>1. e \in 1 .. n /\ n \in Nat /\ e > m
      BY <1>3, <2>2 DEF m
    <3> HIDE DEF n
    <3> QED
      BY <2>1, <3>1
  <2> HIDE DEF k
  <2>6. PICK q \in Crossing(h, zs) : e = cut.half[q] \/ e = cut.half[q] + 1
    BY <2>3, <2>5 DEF m, OnlyHalves
  <2>7. /\ cut.edges[cut.half[q]] = <<h.edges[q][1], NodeOf(h, zs, q)>>
        /\ cut.edges[cut.half[q] + 1] = <<NodeOf(h, zs, q), h.edges[q][2]>>
    BY <2>4, Zenon DEF HalvesOf
  <2>8. i.edges[e] = cut.edges[e]
    BY <1>1, <1>3 DEF Within
  <2> QED
    BY <2>6, <2>7, <2>8
<1>4. ASSUME NEW f \in Split(h, zs), e = ClosingEdge(h, zs, f)
      PROVE  \E x, y : i.edges[e] = <<x, y>> /\ ((i.z[x] = 0 /\ i.z[y] = 0) \/ x = y)
  <2> DEFINE x == ClosingStart(h, zs, f)
             y == ClosingEnd(h, zs, f)
  <2>1. i.edges[e] = <<x, y>>
    BY <1>4, IntersectionEdges
  <2>2. f \in DOMAIN h.facets /\ (AnyEmerged(h, zs, f) <=> AnyImmersed(h, zs, f))
    BY DEF Split
  <2>3. ASSUME AnyEmerged(h, zs, f), AnyImmersed(h, zs, f)
        PROVE  i.z[x] = 0 /\ i.z[y] = 0
    <3>1. {x, y} \subseteq CutNodes(h, zs, f) \union SurfaceEnds(h, zs, f)
      BY <2>2, <2>3, PieceShapes
    <3>2. /\ \A v \in CutNodes(h, zs, f) : i.z[v] = 0
          /\ \A v \in SurfaceEnds(h, zs, f) : i.z[v] = 0
      BY <2>2, SidesOnTheirSide
    <3> HIDE DEF i, x, y
    <3> QED
      BY <3>1, <3>2
  <2>4. ASSUME ~ AnyEmerged(h, zs, f), ~ AnyImmersed(h, zs, f)
        PROVE  x = y
    <3>1. /\ ClosingEdge(h, zs, f) \in DOMAIN i.edges
          /\ i.edges[ClosingEdge(h, zs, f)] = <<x, y>>
      BY IntersectionEdges
    <3> DEFINE o == [edge |-> ClosingEdge(h, zs, f), reverse |-> FALSE]
    <3>2. Runs(i.edges, o, x, y)
      <4>1. o.edge = ClosingEdge(h, zs, f) /\ o.reverse = FALSE
        OBVIOUS
      <4> HIDE DEF o, i, x, y
      <4> QED
        BY <3>1, <4>1, Zenon DEF Runs
    <3> HIDE DEF o
    <3> QED
      BY <1>1, <2>2, <2>4, <3>2, LevelFacet
  <2> HIDE DEF i, x, y
  <2> QED
    BY <2>1, <2>2, <2>3, <2>4
<1> HIDE DEF i
<1> QED
  BY <1>2, <1>3, <1>4

\* A side of a facet runs between two of its vertices, along its edge.
LEMMA SideOfFacet ==
  ASSUME NEW h \in {Build(g) : g \in Hulls}, ProperHulls,
         NEW f \in DOMAIN h.facets, NEW k \in 1 .. 3
  PROVE  /\ h.facets[f][k] \in 1 .. h.vertices /\ h.facets[f][NextPlace(k)] \in 1 .. h.vertices
         /\ h.vertices \in Nat /\ h.facets[f][k] # h.facets[f][NextPlace(k)]
         /\ NextPlace(k) \in 1 .. 3
         /\ Runs(h.edges, h.oriented[f][k], h.facets[f][k], h.facets[f][NextPlace(k)])
<1>1. \A j \in 1 .. 3 :
        /\ NextPlace(j) \in 1 .. 3 /\ h.facets[f][j] \in 1 .. h.vertices
        /\ h.facets[f][j] # h.facets[f][NextPlace(j)]
        /\ Runs(h.edges, h.oriented[f][j], h.facets[f][j], h.facets[f][NextPlace(j)])
  BY BuiltFacets
<1>2. h.vertices \in Nat
  BY BuiltFacets
<1> QED
  BY <1>1, <1>2

\* Only the node of a side is joined to both its ends by edges added.
LEMMA CutsOfSide ==
  ASSUME NEW h \in {Build(g) : g \in Hulls}, ProperHulls,
         NEW zs \in [1 .. h.vertices -> Immersions],
         NEW f \in DOMAIN h.facets, NEW k \in 1 .. 3,
         CutBetween(SignOf(h, zs, f, k), SignOf(h, zs, f, NextPlace(k))),
         NEW v \in Int, v > h.vertices,
         NEW e \in DOMAIN Intersection(h, zs).edges, e > Len(h.edges),
         SameEdge(Intersection(h, zs).edges[e], <<h.facets[f][k], v>>),
         NEW d \in DOMAIN Intersection(h, zs).edges, d > Len(h.edges),
         SameEdge(Intersection(h, zs).edges[d], <<v, h.facets[f][NextPlace(k)]>>)
  PROVE  v = NodeAt(h, zs, f, k)
<1> DEFINE i == Intersection(h, zs)
           a == h.facets[f][k]
           b == h.facets[f][NextPlace(k)]
           o == h.oriented[f][k]
<1>1. /\ a \in 1 .. h.vertices /\ b \in 1 .. h.vertices /\ h.vertices \in Nat /\ a # b
      /\ NextPlace(k) \in 1 .. 3 /\ Runs(h.edges, o, a, b)
  BY SideOfFacet
<1>2. i.z[a] # 0 /\ i.z[b] # 0
  <2>1. i.z[a] = SignOf(h, zs, f, k) /\ i.z[b] = SignOf(h, zs, f, NextPlace(k))
    BY <1>1, SidesOnTheirSide
  <2>2. SignOf(h, zs, f, k) \in {-1, 0, 1} /\ SignOf(h, zs, f, NextPlace(k)) \in {-1, 0, 1}
    BY <1>1, SignsType
  <2> HIDE DEF i
  <2> QED
    BY <2>1, <2>2 DEF CutBetween
<1>3. \A q \in Crossing(h, zs) :
        /\ q \in DOMAIN h.edges
        /\ h.edges[q][1] \in 1 .. h.vertices /\ h.edges[q][2] \in 1 .. h.vertices
        /\ h.edges[q] = <<h.edges[q][1], h.edges[q][2]>>
        /\ NodeOf(h, zs, q) > h.vertices
  <2> SUFFICES ASSUME NEW q \in Crossing(h, zs)
               PROVE  /\ q \in DOMAIN h.edges
                      /\ h.edges[q][1] \in 1 .. h.vertices /\ h.edges[q][2] \in 1 .. h.vertices
                      /\ h.edges[q] = <<h.edges[q][1], h.edges[q][2]>>
                      /\ NodeOf(h, zs, q) > h.vertices
    OBVIOUS
  <2>1. q \in DOMAIN h.edges
    BY DEF Crossing
  <2>2. PICK g \in DOMAIN h.facets, j \in 1 .. 3 : h.edges[q] = Side(h.facets, g, j)
    BY <2>1, BuiltFacets
  <2>3. h.facets[g][j] \in 1 .. h.vertices /\ h.facets[g][NextPlace(j)] \in 1 .. h.vertices
    <3>1. NextPlace(j) \in 1 .. 3
      BY BuiltFacets
    <3> QED
      BY <3>1, BuiltFacets
  <2>4. HalvesOf(h, zs, CutEdges(h, zs), q)
    BY CutEffect
  <2>5. NodeOf(h, zs, q) > h.vertices
    BY <2>4, Zenon DEF HalvesOf
  <2> QED
    BY <2>1, <2>2, <2>3, <2>5 DEF Side
<1>4. \A c \in DOMAIN i.edges : c > Len(h.edges) =>
        \/ \E q \in Crossing(h, zs) :
             \/ i.edges[c] = <<h.edges[q][1], NodeOf(h, zs, q)>>
             \/ i.edges[c] = <<NodeOf(h, zs, q), h.edges[q][2]>>
        \/ \E x, y : i.edges[c] = <<x, y>> /\ ((i.z[x] = 0 /\ i.z[y] = 0) \/ x = y)
  BY EdgesAdded
<1> HIDE DEF i, a, b, o
<1>5. ASSUME NEW c \in DOMAIN i.edges, c > Len(h.edges), NEW w \in {a, b},
             SameEdge(i.edges[c], <<w, v>>)
      PROVE  \E q \in Crossing(h, zs) :
               v = NodeOf(h, zs, q) /\ (h.edges[q][1] = w \/ h.edges[q][2] = w)
  <2>1. w \in 1 .. h.vertices /\ i.z[w] # 0 /\ w # v
    BY <1>1, <1>2, <1>5
  <2>2. ASSUME NEW x, NEW y, i.edges[c] = <<x, y>>
        PROVE  (x = w /\ y = v) \/ (x = v /\ y = w)
    BY <1>5, <2>2, SameEdgePairs
  <2>3. CASE \E x, y : i.edges[c] = <<x, y>> /\ ((i.z[x] = 0 /\ i.z[y] = 0) \/ x = y)
    BY <2>1, <2>2, <2>3
  <2>4. CASE \E q \in Crossing(h, zs) :
               \/ i.edges[c] = <<h.edges[q][1], NodeOf(h, zs, q)>>
               \/ i.edges[c] = <<NodeOf(h, zs, q), h.edges[q][2]>>
    <3>1. PICK q \in Crossing(h, zs) :
            \/ i.edges[c] = <<h.edges[q][1], NodeOf(h, zs, q)>>
            \/ i.edges[c] = <<NodeOf(h, zs, q), h.edges[q][2]>>
      BY <2>4
    <3>2. NodeOf(h, zs, q) # w
      BY <1>1, <1>3, <2>1
    <3>3. v = NodeOf(h, zs, q) /\ (h.edges[q][1] = w \/ h.edges[q][2] = w)
      BY <2>2, <3>1, <3>2
    <3> QED
      BY <3>3
  <2> QED
    BY <1>4, <1>5, <2>3, <2>4
<1>6. PICK q \in Crossing(h, zs) : v = NodeOf(h, zs, q) /\ (h.edges[q][1] = a \/ h.edges[q][2] = a)
  <2>1. SameEdge(i.edges[e], <<a, v>>)
    BY DEF i, a
  <2> QED
    BY <1>5, <2>1 DEF i
<1>7. PICK r \in Crossing(h, zs) : v = NodeOf(h, zs, r) /\ (h.edges[r][1] = b \/ h.edges[r][2] = b)
  <2>1. SameEdge(i.edges[d], <<v, b>>)
    BY DEF i, b
  <2>2. SameEdge(i.edges[d], <<b, v>>)
    BY <2>1 DEF SameEdge
  <2> QED
    BY <1>5, <2>2 DEF i
<1>8. q = r
  <2>1. \A c, t \in Crossing(h, zs) : NodeOf(h, zs, c) = NodeOf(h, zs, t) => c = t
    BY CutEffect
  <2> QED
    BY <1>6, <1>7, <2>1
<1>9. h.edges[q] = <<a, b>> \/ h.edges[q] = <<b, a>>
  <2>1. h.edges[q] = <<h.edges[q][1], h.edges[q][2]>>
    BY <1>3
  <2>2. (h.edges[q][1] = a /\ h.edges[q][2] = b) \/ (h.edges[q][1] = b /\ h.edges[q][2] = a)
    BY <1>1, <1>6, <1>7, <1>8
  <2> QED
    BY <2>1, <2>2
<1>10. q = o.edge
  <2>1. o.edge \in DOMAIN h.edges /\ (h.edges[o.edge] = <<a, b>> \/ h.edges[o.edge] = <<b, a>>)
    BY <1>1, Zenon DEF Runs
  <2>2. \A c, t \in DOMAIN h.edges : SameEdge(h.edges[c], h.edges[t]) => c = t
    BY BuiltFacets
  <2>3. SameEdge(h.edges[q], h.edges[o.edge])
    <3> DEFINE x == h.edges[q]
               y == h.edges[o.edge]
    <3>1. (x = <<a, b>> \/ x = <<b, a>>) /\ (y = <<a, b>> \/ y = <<b, a>>)
      BY <1>9, <2>1
    <3> HIDE DEF x, y
    <3>2. SameEdge(x, y)
      BY <3>1 DEF SameEdge
    <3> QED
      BY <3>2 DEF x, y
  <2> QED
    BY <1>3, <2>1, <2>2, <2>3
<1> QED
  BY <1>6, <1>10 DEF NodeAt, o

\* The ends of a side.
LEMMA SideEnds ==
  ASSUME NEW h \in {Build(g) : g \in Hulls}, ProperHulls,
         NEW f \in DOMAIN h.facets, NEW k \in 1 .. 3
  PROVE  LET a == h.facets[f][k]
             b == h.facets[f][NextPlace(k)]
         IN  /\ h.vertices \in Nat /\ a \in 1 .. h.vertices /\ b \in 1 .. h.vertices /\ a # b
             /\ Runs(h.edges, h.oriented[f][k], a, b)
<1>1. NextPlace(k) \in 1 .. 3
  BY DEF NextPlace
<1>2. \A l \in 1 .. 3 : h.facets[f][l] \in 1 .. h.vertices
  BY BuiltFacets
<1>3. /\ h.vertices \in Nat /\ h.facets[f][k] # h.facets[f][NextPlace(k)]
      /\ Runs(h.edges, h.oriented[f][k], h.facets[f][k], h.facets[f][NextPlace(k)])
  BY BuiltFacets
<1> QED
  BY <1>1, <1>2, <1>3

\* What becomes of a side comes from no other side.
LEMMA SideOfOne ==
  ASSUME NEW h \in {Build(g) : g \in Hulls}, ProperHulls, OrientedHulls,
         NEW zs \in [1 .. h.vertices -> Immersions],
         NEW f \in DOMAIN h.facets, NEW k \in 1 .. 3, NEW e \in DOMAIN h.facets, NEW j \in 1 .. 3,
         NEW s \in HalvesAt(h, zs, f, k),
         s \in EmergedSide(h, zs, e, j) \union ImmersedSide(h, zs, e, j)
  PROVE  e = f /\ j = k
<1> DEFINE a == h.facets[f][k]
           b == h.facets[f][NextPlace(k)]
           c == h.facets[e][j]
           d == h.facets[e][NextPlace(j)]
           n == NodeAt(h, zs, f, k)
           m == NodeAt(h, zs, e, j)
           x == SignOf(h, zs, f, k)
           y == SignOf(h, zs, f, NextPlace(k))
           u == SignOf(h, zs, e, j)
           v == SignOf(h, zs, e, NextPlace(j))
           o == h.oriented[f][k]
           p == h.oriented[e][j]
<1>1. /\ a \in 1 .. h.vertices /\ b \in 1 .. h.vertices /\ h.vertices \in Nat /\ a # b
      /\ c \in 1 .. h.vertices /\ d \in 1 .. h.vertices /\ c # d
      /\ Runs(h.edges, o, a, b) /\ Runs(h.edges, p, c, d)
  <2>1. /\ a \in 1 .. h.vertices /\ b \in 1 .. h.vertices /\ h.vertices \in Nat /\ a # b
        /\ Runs(h.edges, o, a, b)
    BY SideEnds
  <2>2. c \in 1 .. h.vertices /\ d \in 1 .. h.vertices /\ c # d /\ Runs(h.edges, p, c, d)
    BY SideEnds
  <2> QED
    BY <2>1, <2>2
<1>2. u \in {-1, 0, 1} /\ v \in {-1, 0, 1}
  <2>1. NextPlace(j) \in 1 .. 3
    BY DEF NextPlace
  <2> QED
    BY <2>1, SignsType
<1>3. CutBetween(x, y) => o.edge \in Crossing(h, zs) /\ n = NodeOf(h, zs, o.edge) /\ n > h.vertices
  <2>1. n = NodeOf(h, zs, o.edge)
    BY DEF NodeAt
  <2>2. CutBetween(x, y) => o.edge \in Crossing(h, zs)
    BY NodesApart
  <2>3. o.edge \in Crossing(h, zs) => HalvesOf(h, zs, CutEdges(h, zs), o.edge)
    BY CutEffect
  <2> HIDE DEF n, o, x, y
  <2> QED
    BY <2>1, <2>2, <2>3, Zenon DEF HalvesOf
<1>4. CutBetween(u, v) => p.edge \in Crossing(h, zs) /\ m = NodeOf(h, zs, p.edge) /\ m > h.vertices
  <2>1. m = NodeOf(h, zs, p.edge)
    BY DEF NodeAt
  <2>2. CutBetween(u, v) => p.edge \in Crossing(h, zs)
    BY NodesApart
  <2>3. p.edge \in Crossing(h, zs) => HalvesOf(h, zs, CutEdges(h, zs), p.edge)
    BY CutEffect
  <2> HIDE DEF m, p, u, v
  <2> QED
    BY <2>1, <2>2, <2>3, Zenon DEF HalvesOf
<1>5. s \in IF CutBetween(x, y) THEN {<<a, n>>, <<n, b>>} ELSE {<<a, b>>}
  BY Zenon DEF HalvesAt
<1>6. s \in EmergedWay(c, d, m, u, v) \/ s \in ImmersedWay(c, d, m, u, v)
  BY DEF EmergedSide, ImmersedSide
<1>7. Side(h.facets, e, j) = <<c, d>> /\ Side(h.facets, f, k) = <<a, b>>
  BY DEF Side
<1>8. \A q, r \in Crossing(h, zs) : NodeOf(h, zs, q) = NodeOf(h, zs, r) => q = r
  BY CutEffect
<1> HIDE DEF a, b, c, d, n, m, x, y, u, v, o, p
<1>9. \/ s = <<c, d>>
      \/ CutBetween(u, v) /\ (s = <<c, m>> \/ s = <<m, d>>)
  BY <1>2, <1>6, WayMembers DEF CutBetween
<1>10. \/ s = <<a, b>>
       \/ CutBetween(x, y) /\ (s = <<a, n>> \/ s = <<n, b>>)
  BY <1>5
<1>11. \/ a = c /\ b = d
       \/ CutBetween(u, v) /\ CutBetween(x, y) /\ n = m /\ (a = c \/ b = d)
  <2>1. CutBetween(x, y) => n # a /\ n # b /\ n # c /\ n # d
    BY <1>1, <1>3
  <2>2. CutBetween(u, v) => m # a /\ m # b /\ m # c /\ m # d
    BY <1>1, <1>4
  <2> QED
    BY <1>9, <1>10, <2>1, <2>2
<1>12. a = c /\ b = d
  <2>1. CASE CutBetween(u, v) /\ CutBetween(x, y) /\ n = m /\ (a = c \/ b = d)
    <3>1. o.edge = p.edge
      BY <1>3, <1>4, <1>8, <2>1
    <3>2. /\ h.edges[o.edge] = <<a, b>> \/ h.edges[o.edge] = <<b, a>>
          /\ h.edges[o.edge] = <<c, d>> \/ h.edges[o.edge] = <<d, c>>
      BY <1>1, <3>1, Zenon DEF Runs
    <3>3. (a = c /\ b = d) \/ (a = d /\ b = c)
      BY <3>2
    <3> QED
      BY <1>1, <2>1, <3>3
  <2> QED
    BY <1>11, <2>1
<1>13. Side(h.facets, e, j) = Side(h.facets, f, k)
  BY <1>7, <1>12
<1> QED
  <2>1. PICK g \in Hulls : h = Build(g)
    OBVIOUS
  <2>2. h.facets = g.facets
    BY <2>1 DEF Build
  <2> QED
    BY <1>13, <2>2 DEF OrientedHulls

\* What becomes of a side is not a side along which a facet is cut.
LEMMA NotOnContour ==
  ASSUME NEW h \in {Build(g) : g \in Hulls}, ProperHulls,
         NEW zs \in [1 .. h.vertices -> Immersions],
         NEW f \in DOMAIN h.facets, NEW k \in 1 .. 3, NEW e \in DOMAIN h.facets,
         NEW s \in HalvesAt(h, zs, f, k)
  PROVE  s \notin Contour(h, zs, e) \union BackContour(h, zs, e)
<1> DEFINE i == Intersection(h, zs)
           a == h.facets[f][k]
           b == h.facets[f][NextPlace(k)]
           n == NodeAt(h, zs, f, k)
           x == SignOf(h, zs, f, k)
           y == SignOf(h, zs, f, NextPlace(k))
           p == ClosingStart(h, zs, e)
           q == ClosingEnd(h, zs, e)
<1> SUFFICES ASSUME s \in Contour(h, zs, e) \union BackContour(h, zs, e)
             PROVE  FALSE
  OBVIOUS
<1>1. AnyEmerged(h, zs, e) /\ AnyImmersed(h, zs, e) /\ (s = <<p, q>> \/ s = <<q, p>>)
  BY DEF Contour, BackContour
<1>2. /\ {p, q} \subseteq CutNodes(h, zs, e) \union SurfaceEnds(h, zs, e)
      /\ p \in CutNodes(h, zs, e) \/ q \in CutNodes(h, zs, e)
  BY <1>1, PieceShapes
<1>3. /\ \A w \in CutNodes(h, zs, e) : i.z[w] = 0 /\ w > h.vertices
      /\ \A w \in SurfaceEnds(h, zs, e) : i.z[w] = 0
  BY SidesOnTheirSide
<1>4. /\ a \in 1 .. h.vertices /\ b \in 1 .. h.vertices /\ h.vertices \in Nat
      /\ NextPlace(k) \in 1 .. 3
  <2>1. NextPlace(k) \in 1 .. 3
    BY BuiltFacets
  <2> QED
    BY <2>1, BuiltFacets
<1>5. i.z[a] = x /\ i.z[b] = y
  BY <1>4, SidesOnTheirSide
<1>6. x \in {-1, 0, 1} /\ y \in {-1, 0, 1}
  BY <1>4, SignsType
<1>7. s \in IF CutBetween(x, y) THEN {<<a, n>>, <<n, b>>} ELSE {<<a, b>>}
  BY Zenon DEF HalvesAt
<1> HIDE DEF i, a, b, n, x, y, p, q
<1>8. i.z[p] = 0 /\ i.z[q] = 0 /\ (p > h.vertices \/ q > h.vertices)
  BY <1>2, <1>3
<1>9. CASE CutBetween(x, y)
  <2>1. x # 0 /\ y # 0
    BY <1>6, <1>9 DEF CutBetween
  <2>2. s = <<a, n>> \/ s = <<n, b>>
    BY <1>7, <1>9
  <2>3. p = a \/ p = b \/ q = a \/ q = b
    BY <1>1, <2>2
  <2> QED
    BY <1>5, <1>8, <2>1, <2>3
<1>10. CASE ~ CutBetween(x, y)
  <2>1. s = <<a, b>>
    BY <1>7, <1>10
  <2>2. (p = a /\ q = b) \/ (p = b /\ q = a)
    BY <1>1, <2>1
  <2> QED
    BY <1>4, <1>8, <2>2
<1> QED
  BY <1>9, <1>10

\* The facets of each part that run along what becomes of a side: the piece of
\* the facet that has the side, or none.
LEMMA SideUsers ==
  ASSUME NEW h \in {Build(g) : g \in Hulls}, ProperHulls, OrientedHulls,
         NEW zs \in [1 .. h.vertices -> Immersions],
         NEW f \in DOMAIN h.facets, NEW k \in 1 .. 3, NEW s \in HalvesAt(h, zs, f, k)
  PROVE  LET i == Intersection(h, zs)
         IN  /\ {p \in i.emerged : s \in SidesIn(i.facets, p)} =
                   IF f \in WithEmerged(h, zs) /\ s \in EmergedSide(h, zs, f, k)
                     THEN {EmergedPiece(h, zs, f)} ELSE {}
             /\ {p \in i.immersed : s \in SidesIn(i.facets, p)} =
                   IF f \in WithImmersed(h, zs) /\ s \in ImmersedSide(h, zs, f, k)
                     THEN {ImmersedPiece(h, zs, f)} ELSE {}
<1> DEFINE i == Intersection(h, zs)
<1>1. /\ i.emerged = {EmergedPiece(h, zs, e) : e \in WithEmerged(h, zs)}
      /\ i.immersed = {ImmersedPiece(h, zs, e) : e \in WithImmersed(h, zs)}
  BY IntersectionFacets
<1>2. WithEmerged(h, zs) \subseteq DOMAIN h.facets /\ WithImmersed(h, zs) \subseteq DOMAIN h.facets
  BY DEF WithEmerged, WithImmersed
<1>3. ASSUME NEW e \in DOMAIN h.facets
      PROVE  /\ e \in WithEmerged(h, zs) =>
                  SidesIn(i.facets, EmergedPiece(h, zs, e)) = EmergedSides(h, zs, e) \union Contour(h, zs, e)
             /\ e \in WithImmersed(h, zs) =>
                  SidesIn(i.facets, ImmersedPiece(h, zs, e)) = ImmersedSides(h, zs, e) \union BackContour(h, zs, e)
             /\ s \notin Contour(h, zs, e) \union BackContour(h, zs, e)
  <2>1. /\ e \in WithEmerged(h, zs) =>
             SidesIn(i.facets, EmergedPiece(h, zs, e)) = EmergedSides(h, zs, e) \union Contour(h, zs, e)
        /\ e \in WithImmersed(h, zs) =>
             SidesIn(i.facets, ImmersedPiece(h, zs, e)) = ImmersedSides(h, zs, e) \union BackContour(h, zs, e)
    BY PieceSides
  <2>2. s \notin Contour(h, zs, e) \union BackContour(h, zs, e)
    BY NotOnContour
  <2> QED
    BY <2>1, <2>2
<1>4. ASSUME NEW e \in DOMAIN h.facets
      PROVE  /\ s \in EmergedSides(h, zs, e) <=> e = f /\ s \in EmergedSide(h, zs, f, k)
             /\ s \in ImmersedSides(h, zs, e) <=> e = f /\ s \in ImmersedSide(h, zs, f, k)
  <2>1. /\ s \in EmergedSides(h, zs, e) <=> \E j \in {1, 2, 3} : s \in EmergedSide(h, zs, e, j)
        /\ s \in ImmersedSides(h, zs, e) <=> \E j \in {1, 2, 3} : s \in ImmersedSide(h, zs, e, j)
    BY DEF EmergedSides, ImmersedSides
  <2>2. {1, 2, 3} = 1 .. 3
    OBVIOUS
  <2>3. \A j \in 1 .. 3 : s \in EmergedSide(h, zs, e, j) \union ImmersedSide(h, zs, e, j)
                         => e = f /\ j = k
    BY SideOfOne
  <2> QED
    BY <2>1, <2>2, <2>3
<1> HIDE DEF i
<1>5. {p \in i.emerged : s \in SidesIn(i.facets, p)} =
        IF f \in WithEmerged(h, zs) /\ s \in EmergedSide(h, zs, f, k)
          THEN {EmergedPiece(h, zs, f)} ELSE {}
  <2>1. \A e \in WithEmerged(h, zs) :
          s \in SidesIn(i.facets, EmergedPiece(h, zs, e)) <=> e = f /\ s \in EmergedSide(h, zs, f, k)
    BY <1>2, <1>3, <1>4
  <2> QED
    BY <1>1, <2>1
<1>6. {p \in i.immersed : s \in SidesIn(i.facets, p)} =
        IF f \in WithImmersed(h, zs) /\ s \in ImmersedSide(h, zs, f, k)
          THEN {ImmersedPiece(h, zs, f)} ELSE {}
  <2>1. \A e \in WithImmersed(h, zs) :
          s \in SidesIn(i.facets, ImmersedPiece(h, zs, e)) <=> e = f /\ s \in ImmersedSide(h, zs, f, k)
    BY <1>2, <1>3, <1>4
  <2> QED
    BY <1>1, <2>1
<1> QED
  BY <1>5, <1>6 DEF i

(* The facet f lies in the surface. *)
Level(h, zs, f) == ~ AnyEmerged(h, zs, f) /\ ~ AnyImmersed(h, zs, f)

\* What becomes of a side is used once, or twice when the facet is level.
LEMMA SideUses ==
  ASSUME NEW h \in {Build(g) : g \in Hulls}, ProperHulls, OrientedHulls,
         NEW zs \in [1 .. h.vertices -> Immersions],
         NEW f \in DOMAIN h.facets, NEW k \in 1 .. 3, NEW s \in HalvesAt(h, zs, f, k)
  PROVE  LET i == Intersection(h, zs)
         IN  Cardinality({p \in i.immersed : s \in SidesIn(i.facets, p)})
               + Cardinality({p \in i.emerged : s \in SidesIn(i.facets, p)})
             = IF Level(h, zs, f) THEN 2 ELSE 1
<1> DEFINE i == Intersection(h, zs)
           em == {p \in i.emerged : s \in SidesIn(i.facets, p)}
           im == {p \in i.immersed : s \in SidesIn(i.facets, p)}
           a == h.facets[f][k]
           b == h.facets[f][NextPlace(k)]
           n == NodeAt(h, zs, f, k)
           x == SignOf(h, zs, f, k)
           y == SignOf(h, zs, f, NextPlace(k))
           inEm == f \in WithEmerged(h, zs) /\ s \in EmergedSide(h, zs, f, k)
           inIm == f \in WithImmersed(h, zs) /\ s \in ImmersedSide(h, zs, f, k)
<1>1. /\ em = IF inEm THEN {EmergedPiece(h, zs, f)} ELSE {}
      /\ im = IF inIm THEN {ImmersedPiece(h, zs, f)} ELSE {}
  <2>1. /\ {p \in i.emerged : s \in SidesIn(i.facets, p)} =
              IF f \in WithEmerged(h, zs) /\ s \in EmergedSide(h, zs, f, k)
                THEN {EmergedPiece(h, zs, f)} ELSE {}
        /\ {p \in i.immersed : s \in SidesIn(i.facets, p)} =
              IF f \in WithImmersed(h, zs) /\ s \in ImmersedSide(h, zs, f, k)
                THEN {ImmersedPiece(h, zs, f)} ELSE {}
    BY SideUsers, Zenon
  <2> HIDE DEF i
  <2> QED
    BY <2>1
<1>2. NextPlace(k) \in 1 .. 3
  BY DEF NextPlace
<1>3. x \in {-1, 0, 1} /\ y \in {-1, 0, 1}
  BY <1>2, SignsType
<1>4. /\ x < 0 \/ y < 0 => AnyEmerged(h, zs, f)
      /\ x > 0 \/ y > 0 => AnyImmersed(h, zs, f)
  BY <1>2 DEF AnyEmerged, AnyImmersed
<1>5. /\ f \in WithEmerged(h, zs) <=> AnyEmerged(h, zs, f) \/ ~ AnyImmersed(h, zs, f)
      /\ f \in WithImmersed(h, zs) <=> AnyImmersed(h, zs, f) \/ ~ AnyEmerged(h, zs, f)
  BY DEF WithEmerged, WithImmersed
<1>6. ~ (AnyEmerged(h, zs, f) /\ AnyImmersed(h, zs, f)) \/ ~ (x = 0 /\ y = 0)
  <2>1. \A j \in 1 .. 3 : j = k \/ j = NextPlace(k) \/ j = NextPlace(NextPlace(k))
    BY DEF NextPlace
  <2> DEFINE w == SignOf(h, zs, f, NextPlace(NextPlace(k)))
  <2>2. w \in {-1, 0, 1}
    <3>1. NextPlace(NextPlace(k)) \in 1 .. 3
      BY DEF NextPlace
    <3> QED
      BY <3>1, SignsType
  <2>3. \A j \in 1 .. 3 : SignOf(h, zs, f, j) \in {x, y, w}
    BY <2>1
  <2> HIDE DEF w, x, y
  <2> QED
    BY <1>3, <2>2, <2>3 DEF AnyEmerged, AnyImmersed
<1>7. s \in IF CutBetween(x, y) THEN {<<a, n>>, <<n, b>>} ELSE {<<a, b>>}
  BY Zenon DEF HalvesAt
<1>8. /\ s \in EmergedSide(h, zs, f, k) <=> s \in EmergedWay(a, b, n, x, y)
      /\ s \in ImmersedSide(h, zs, f, k) <=> s \in ImmersedWay(a, b, n, x, y)
  BY DEF EmergedSide, ImmersedSide
<1>9. CutBetween(x, y) => n # a /\ n # b
  BY <1>2, NodesApart
<1> HIDE DEF a, b, n, x, y, em, im
<1>10. /\ s \in EmergedWay(a, b, n, x, y) <=>
            \/ x <= 0 /\ y <= 0 /\ s = <<a, b>>
            \/ x < 0 /\ y > 0 /\ s = <<a, n>>
            \/ x > 0 /\ y < 0 /\ s = <<n, b>>
       /\ s \in ImmersedWay(a, b, n, x, y) <=>
            \/ x >= 0 /\ y >= 0 /\ s = <<a, b>>
            \/ x > 0 /\ y < 0 /\ s = <<a, n>>
            \/ x < 0 /\ y > 0 /\ s = <<n, b>>
  BY <1>3, WayMembers
<1> HIDE DEF inEm, inIm
<1>13. Cardinality(em) = (IF inEm THEN 1 ELSE 0) /\ Cardinality(im) = (IF inIm THEN 1 ELSE 0)
  <2>1. \A q : Cardinality({q}) = 1
    BY FS_Singleton
  <2>2. Cardinality({}) = 0
    BY FS_EmptySet
  <2>3. CASE inEm
    BY <1>1, <2>1, <2>2, <2>3
  <2>4. CASE ~ inEm
    BY <1>1, <2>1, <2>2, <2>4
  <2> QED
    BY <2>3, <2>4
<1> USE DEF inEm, inIm
<1>11. CASE CutBetween(x, y)
  <2>1. s = <<a, n>> \/ s = <<n, b>>
    BY <1>7, <1>11
  <2>2. <<a, n>> # <<n, b>> /\ <<a, n>> # <<a, b>> /\ <<n, b>> # <<a, b>>
    BY <1>9, <1>11
  <2>3. AnyEmerged(h, zs, f) /\ AnyImmersed(h, zs, f)
    BY <1>4, <1>11 DEF CutBetween
  <2>4. inEm <=> ~ inIm
    BY <1>3, <1>5, <1>8, <1>10, <1>11, <2>1, <2>2, <2>3 DEF CutBetween
  <2>5. ~ Level(h, zs, f)
    BY <2>3 DEF Level
  <2> HIDE DEF inEm, inIm
  <2>6. Cardinality(im) + Cardinality(em) = 1
    BY <1>13, <2>4
  <2> QED
    BY <2>5, <2>6 DEF im, em
<1>12. CASE ~ CutBetween(x, y)
  <2>1. s = <<a, b>>
    BY <1>7, <1>12
  <2>2. CASE Level(h, zs, f)
    <3>1. x = 0 /\ y = 0
      BY <1>3, <1>4, <2>2 DEF Level
    <3>2. inEm /\ inIm
      BY <1>5, <1>8, <1>10, <2>1, <2>2, <3>1 DEF Level
    <3> HIDE DEF inEm, inIm
    <3>3. Cardinality(im) + Cardinality(em) = 2
      BY <1>13, <3>2
    <3> QED
      BY <2>2, <3>3 DEF im, em
  <2>3. CASE ~ Level(h, zs, f)
    <3>1. inEm <=> ~ inIm
      <4>1. CASE x = 0 /\ y = 0
        BY <1>5, <1>6, <1>8, <1>10, <2>1, <2>3, <4>1 DEF Level
      <4>2. CASE ~ (x = 0 /\ y = 0)
        BY <1>3, <1>4, <1>5, <1>8, <1>10, <1>12, <2>1, <4>2 DEF CutBetween
      <4> QED
        BY <4>1, <4>2
    <3> HIDE DEF inEm, inIm
    <3>2. Cardinality(im) + Cardinality(em) = 1
      BY <1>13, <3>1
    <3> QED
      BY <2>3, <3>2 DEF im, em
  <2> QED
    BY <2>2, <2>3
<1> QED
  BY <1>11, <1>12

\* What an update computes: the immersions given come first, the facets are a
\* list, and the edges in the surface can be counted.
LEMMA IntersectionShape ==
  ASSUME NEW h \in {Build(g) : g \in Hulls}, NEW zs \in [1 .. h.vertices -> Immersions]
  PROVE  LET i == Intersection(h, zs)
         IN  /\ SubSeq(i.z, 1, h.vertices) = zs
             /\ IsList(i.facets)
             /\ IsFiniteSet(i.surfaceEdges)
<1> DEFINE cut == CutEdges(h, zs)
           dealt == DealtFacets(h, cut)
           i == Intersection(h, zs)
           statuses == [e \in DOMAIN h.edges |-> Status(zs[h.edges[e][1]], zs[h.edges[e][2]])]
           crossing == {e \in DOMAIN statuses : Crosses(statuses[e])}
           n == Cardinality(crossing)
           split == SplitFacets(dealt)
           m == Cardinality(split)
<1>1. h.vertices \in Nat /\ IsList(h.facets) /\ IsList(h.edges)
  BY BuiltHull
<1>2. /\ DOMAIN h.edges = 1 .. Len(h.edges) /\ Len(h.edges) \in Nat
      /\ DOMAIN h.facets = 1 .. Len(h.facets) /\ Len(h.facets) \in Nat
  BY <1>1 DEF IsList
<1>3. n \in Nat
  <2>1. crossing \in SUBSET (1 .. Len(h.edges))
    BY <1>2
  <2> HIDE DEF crossing
  <2> QED
    BY <1>2, <2>1, PlacesSubset, Zenon
<1>4. m \in Nat
  <2>1. split \in SUBSET (1 .. Len(h.facets))
    BY <1>2 DEF SplitFacets, DealtFacets
  <2> HIDE DEF split
  <2> QED
    BY <1>2, <2>1, PlacesSubset, Zenon
<1>5. SubSeq(i.z, 1, h.vertices) = zs
  <2>1. i.z = zs \o [k \in 1 .. n |-> 0]
    <3>1. i.z = cut.z
      BY DEF Intersection, Divided
    <3>2. cut.z = zs \o [k \in 1 .. n |-> 0]
      BY DEF CutEdges
    <3> QED
      BY <3>1, <3>2
  <2>2. IsList(zs) /\ Len(zs) = h.vertices
    BY <1>1, ListOfLength
  <2>3. IsList([k \in 1 .. n |-> 0])
    <3> HIDE DEF n
    <3> QED
      BY <1>3, ListOfLength
  <2> HIDE DEF n, i
  <2> QED
    BY <2>1, <2>2, <2>3, Joined
<1>6. IsList(i.facets)
  <2>1. i.facets = h.facets \o Pieces(cut, dealt)
    BY DEF Intersection, Divided
  <2>2. IsList(Pieces(cut, dealt))
    <3> DEFINE pieces == Pieces(cut, dealt)
               count == 2 * m
    <3>1. pieces = [k \in 1 .. count |-> pieces[k]]
      BY Zenon DEF Pieces
    <3> HIDE DEF pieces, m
    <3>2. count \in Nat
      BY <1>4
    <3> HIDE DEF count
    <3>3. IsList(pieces)
      BY <3>1, <3>2, ListOfLength
    <3> QED
      BY <3>3 DEF pieces
  <2> HIDE DEF i, cut, dealt
  <2> QED
    BY <1>1, <2>1, <2>2, Joined
<1>7. Len(cut.edges) \in Nat
  <2> DEFINE origin(k) == Nth(crossing, (k + 1) \div 2)
             node(k) == h.vertices + (k + 1) \div 2
             halfOf(k) == IF k % 2 = 1 THEN <<h.edges[origin(k)][1], node(k)>>
                                       ELSE <<node(k), h.edges[origin(k)][2]>>
             halves == [k \in 1 .. 2 * n |-> halfOf(k)]
  <2>1. cut.edges = h.edges \o halves
    BY DEF CutEdges
  <2>2. halves = [k \in 1 .. 2 * n |-> halves[k]]
    BY Zenon
  <2>3. 2 * n \in Nat
    <3> HIDE DEF n
    <3> QED
      BY <1>3
  <2> HIDE DEF halves, n, cut
  <2>4. IsList(halves)
    BY <2>2, <2>3, ListOfLength
  <2> QED
    BY <1>1, <2>1, <2>4, Joined DEF IsList
<1>8. IsFiniteSet(i.surfaceEdges)
  <2> DEFINE closing == ClosingEdges(cut, dealt)
             drawn == {k \in 1 .. m : closing[k][1] # closing[k][2]}
             added == {Len(cut.edges) + k : k \in drawn}
             touching == Touching(h, cut.status)
  <2>1. i.surfaceEdges = touching \union added
    BY DEF Intersection, Divided
  <2>2. IsFiniteSet(touching)
    <3>1. touching \in SUBSET (1 .. Len(h.edges))
      BY <1>2 DEF Touching
    <3> HIDE DEF touching
    <3> QED
      BY <1>2, <3>1, PlacesSubset, Zenon
  <2>3. IsFiniteSet(added)
    <3> DEFINE first == Len(cut.edges)
    <3>1. drawn \subseteq 1 .. m
      OBVIOUS
    <3>2. first \in Nat
      BY <1>7
    <3>3. added = {first + k : k \in drawn}
      OBVIOUS
    <3> HIDE DEF drawn, first, m, added
    <3>4. added \in SUBSET (first + 1 .. first + m)
      <4>1. \A k \in 1 .. m : first + k \in first + 1 .. first + m
        BY <1>4, <3>2
      <4> QED
        BY <3>1, <3>3, <4>1
    <3>5. first + 1 \in Int /\ first + m \in Int
      BY <1>4, <3>2
    <3>6. IsFiniteSet(added)
      BY <3>4, <3>5, IntervalSubset, Zenon
    <3> QED
      BY <3>6
  <2> HIDE DEF i, touching, added
  <2> QED
    BY <2>1, <2>2, <2>3, FS_Union
<1> QED
  BY <1>5, <1>6, <1>8

(* The list s begins with the list t. *)
Begins(s, t) ==
  /\ IsList(s) /\ IsList(t) /\ Len(t) <= Len(s)
  /\ \A k \in 1 .. Len(t) : s[k] = t[k]

\* A list that begins with another still does so when it is lengthened.
LEMMA BeginsStill ==
  ASSUME NEW s, NEW t, NEW u, Begins(s, t), IsList(u)
  PROVE  Begins(s \o u, t)
<1> DEFINE m == Len(s)
           n == Len(u)
           S == {s[k] : k \in 1 .. m} \union {u[k] : k \in 1 .. n}
           j == s \o u
<1>1. /\ m \in Nat /\ n \in Nat /\ s \in [1 .. m -> S] /\ u \in [1 .. n -> S]
      /\ Len(t) \in Nat /\ Len(t) <= m /\ IsList(t) /\ IsList(s)
  BY DEF Begins, IsList
<1>2. s \in Seq(S) /\ u \in Seq(S)
  <2> HIDE DEF S, m, n
  <2> QED
    BY <1>1, SeqDef
<1>3. /\ Len(j) = m + n
      /\ \A k \in 1 .. m + n : j[k] = IF k <= m THEN s[k] ELSE u[k - m]
  BY <1>2, ConcatProperties
<1>4. IsList(j)
  BY <1>1, Joined
<1> HIDE DEF S, j, m, n
<1>5. \A k \in 1 .. Len(t) : j[k] = t[k]
  <2> SUFFICES ASSUME NEW k \in 1 .. Len(t) PROVE j[k] = t[k]
    OBVIOUS
  <2>1. k \in 1 .. m + n /\ k <= m
    BY <1>1
  <2>2. s[k] = t[k]
    BY DEF Begins
  <2> QED
    BY <1>3, <2>1, <2>2
<1>6. Len(t) <= Len(j)
  BY <1>1, <1>3
<1> QED
  BY <1>1, <1>4, <1>5, <1>6 DEF Begins, j

\* The first places of a list that begins with another are the other.
LEMMA BeginsWith ==
  ASSUME NEW s, NEW t, Begins(s, t)
  PROVE  SubSeq(s, 1, Len(t)) = t
<1> DEFINE m == Len(t)
           S == {s[k] : k \in 1 .. Len(s)} \union {t[k] : k \in 1 .. m}
           r == SubSeq(s, 1, m)
<1>1. /\ m \in Nat /\ Len(s) \in Nat /\ m <= Len(s)
      /\ s \in [1 .. Len(s) -> S] /\ t \in [1 .. m -> S]
  BY DEF Begins, IsList
<1>2. s \in Seq(S) /\ t \in Seq(S)
  <2> HIDE DEF S, m
  <2> QED
    BY <1>1, SeqDef
<1>3. \A k \in 1 .. m : s[k] \in S
  BY <1>1
<1>4. /\ r \in Seq(S) /\ Len(r) = IF 1 <= m THEN m - 1 + 1 ELSE 0
      /\ \A k \in 1 .. m - 1 + 1 : r[k] = s[1 + k - 1]
  BY <1>1, <1>3, SubSeqProperties
<1> HIDE DEF r, S
<1>5. Len(r) = Len(t)
  BY <1>1, <1>4
<1>6. \A k \in 1 .. Len(t) : r[k] = t[k]
  <2> SUFFICES ASSUME NEW k \in 1 .. Len(t) PROVE r[k] = t[k]
    OBVIOUS
  <2>1. s[k] = t[k]
    BY DEF Begins
  <2> QED
    BY <1>1, <1>4, <2>1
<1> QED
  BY <1>2, <1>4, <1>5, <1>6, SeqEqual DEF r

(* What the mesh holds is computed from the immersions zs, but for the *)
(* closing facets that were added to the list of facets.               *)
ComputedFrom(zs) ==
  LET i == Intersection(hull, zs)
  IN  /\ z = i.z /\ edges = i.edges
      /\ emerged = i.emerged /\ immersed = i.immersed
      /\ surfaceEdges = i.surfaceEdges
      /\ Begins(facets, i.facets)

(***************************************************************************)
(* The inductive invariant.  After a NaN the immersions are gone while the *)
(* rest of the mesh is still that of the update before, whose contour may  *)
(* still be closed: nothing is said of it until the next update.           *)
(***************************************************************************)
MeshIInv ==
  /\ hull \in {Build(h) : h \in Hulls}
  /\ z # <<>> => \E zs \in [1 .. hull.vertices -> Immersions] : ComputedFrom(zs)
  /\ needClosing => (surface = <<>> \/ raised)

\* Closing the contour adds a list of facets.
LEMMA FacetsAdded ==
  ASSUME NEW contours, NEW n \in Nat, AddFacets(contours, n)
  PROVE  \E added : IsList(added) /\ facets' = facets \o added
<1> DEFINE some == {k \in 1 .. n : contours[k] # <<>>}
           m == Cardinality(some)
           added == [k \in 1 .. m |-> FacetVertices(edges, contours[Nth(some, k)])]
<1>1. facets' = facets \o added
  BY DEF AddFacets
<1>2. m \in Nat
  <2>1. some \in SUBSET (1 .. n)
    OBVIOUS
  <2> HIDE DEF some
  <2> QED
    BY <2>1, PlacesSubset, Zenon
<1>3. added = [k \in 1 .. m |-> added[k]]
  BY Zenon
<1> HIDE DEF added, m
<1>4. IsList(added)
  BY <1>2, <1>3, ListOfLength
<1> QED
  BY <1>1, <1>4

\* There are as many components as there are numbers for them.
LEMMA ComponentsList ==
  ASSUME NEW E, IsFiniteSet(E)
  PROVE  Len(Components(E)) \in Nat /\ DOMAIN Components(E) = 1 .. Len(Components(E))
<1> DEFINE firsts == {e \in E : \A d \in Component(E, e) : e <= d}
           m == Cardinality(firsts)
           parts == Components(E)
<1>1. m \in Nat
  <2>1. firsts \in SUBSET E
    OBVIOUS
  <2> HIDE DEF firsts
  <2> QED
    BY <2>1, FS_Subset, FS_CardinalityType
<1>2. parts = [k \in 1 .. m |-> parts[k]]
  BY Zenon DEF Components
<1> HIDE DEF m, parts
<1>3. Len(parts) = m
  BY <1>1, <1>2, ListOfLength
<1>4. DOMAIN parts = 1 .. m
  BY <1>2
<1> QED
  BY <1>1, <1>3, <1>4 DEF parts

\* The invariant is there from the start and no step leaves it.
LEMMA MeshInductive ==
  /\ MeshInit => MeshIInv
  /\ MeshIInv /\ [MeshNext]_meshVars => MeshIInv'
<1>1. MeshInit => MeshIInv
  BY DEF MeshInit, MeshIInv
<1>2. ASSUME MeshIInv, [MeshNext]_meshVars PROVE MeshIInv'
  <2>0. hull \in {Build(g) : g \in Hulls}
    BY <1>2 DEF MeshIInv
  <2>1. ASSUME NEW zs \in GivenImmersions, Update(zs) PROVE MeshIInv'
    <3>1. hull' = hull /\ surface' = <<>>
      BY <2>1 DEF Update, Recompute
    <3>2. zs \in [1 .. hull.vertices -> Immersions]
      BY DEF GivenImmersions
    <3> DEFINE i == Intersection(hull, zs)
    <3>3. IsList(i.facets)
      BY <2>0, <3>2, IntersectionShape
    <3>4. /\ z' = i.z /\ edges' = i.edges /\ facets' = i.facets
          /\ emerged' = i.emerged /\ immersed' = i.immersed
          /\ surfaceEdges' = i.surfaceEdges
      BY <2>1 DEF Update, Recompute
    <3>5. Begins(facets', i.facets)
      <4>1. Len(i.facets) \in Nat
        BY <3>3 DEF IsList
      <4> HIDE DEF i
      <4> QED
        BY <3>3, <3>4, <4>1 DEF Begins
    <3>6. ComputedFrom(zs)'
      BY <3>1, <3>4, <3>5 DEF ComputedFrom
    <3> HIDE DEF i
    <3> QED
      BY <2>0, <3>1, <3>2, <3>6 DEF MeshIInv
  <2>2. ASSUME UpdateWithNaN PROVE MeshIInv'
    BY <2>0, <2>2 DEF UpdateWithNaN, NaNImmersions, MeshIInv
  <2>3. ASSUME BuildClosing PROVE MeshIInv'
    <3> DEFINE parts == Components(surfaceEdges)
    <3>1. UNCHANGED <<hull, z, edges, emerged, immersed, surfaceEdges>>
      BY <2>3 DEF BuildClosing
    <3>5. \E contours : \/ AddFacets(contours, Len(parts)) /\ ~ needClosing'
                        \/ \E k \in DOMAIN parts : AddFacets(contours, k - 1) /\ raised'
      BY <2>3, Zenon DEF BuildClosing
    <3>8. ~ needClosing' \/ raised'
      BY <3>5
    <3> SUFFICES ASSUME z # <<>> PROVE MeshIInv'
      BY <2>0, <3>1, <3>8 DEF MeshIInv
    <3>2. PICK zs \in [1 .. hull.vertices -> Immersions] : ComputedFrom(zs)
      BY <1>2 DEF MeshIInv
    <3> DEFINE i == Intersection(hull, zs)
    <3>3. IsFiniteSet(surfaceEdges)
      <4>1. IsFiniteSet(i.surfaceEdges)
        BY <2>0, <3>2, IntersectionShape
      <4> QED
        BY <3>2, <4>1 DEF ComputedFrom
    <3>4. Len(parts) \in Nat /\ DOMAIN parts = 1 .. Len(parts)
      BY <3>3, ComponentsList
    <3> HIDE DEF parts
    <3>6. PICK contours : \E n \in Nat : AddFacets(contours, n)
      <4>1. \A k \in DOMAIN parts : k - 1 \in Nat
        BY <3>4
      <4> QED
        BY <3>4, <3>5, <4>1, Zenon
    <3>7. PICK added : IsList(added) /\ facets' = facets \o added
      BY <3>6, FacetsAdded
    <3>9. ComputedFrom(zs)'
      <4>1. Begins(facets', i.facets)
        BY <3>2, <3>7, BeginsStill DEF ComputedFrom
      <4> QED
        BY <3>1, <3>2, <4>1 DEF ComputedFrom
    <3> QED
      BY <2>0, <3>1, <3>8, <3>9 DEF MeshIInv
  <2>4. ASSUME UNCHANGED meshVars PROVE MeshIInv'
    BY <1>2, <2>4 DEF meshVars, MeshIInv, ComputedFrom
  <2> QED
    BY <1>2, <2>1, <2>2, <2>3, <2>4, Zenon DEF MeshNext, MeshIdle
<1> QED
  BY <1>1, <1>2

\* What is computed from the immersions given is known from those immersions
\* alone, which come first among all that the mesh holds.
LEMMA MeshIInvSuffices == MeshIInv => UpdateForgetsThePast
<1> SUFFICES ASSUME MeshIInv, z # <<>> PROVE UpdateForgetsThePast
  BY DEF UpdateForgetsThePast, Updated, NaNImmersions
<1>1. PICK zs \in [1 .. hull.vertices -> Immersions] : ComputedFrom(zs)
  BY DEF MeshIInv
<1>2. hull \in {Build(g) : g \in Hulls}
  BY DEF MeshIInv
<1> DEFINE i == Intersection(hull, zs)
<1>3. SubSeq(z, 1, hull.vertices) = zs
  <2>1. SubSeq(i.z, 1, hull.vertices) = zs
    BY <1>1, <1>2, IntersectionShape
  <2> QED
    BY <1>1, <2>1 DEF ComputedFrom
<1>4. SubSeq(facets, 1, Len(i.facets)) = i.facets
  BY <1>1, BeginsWith DEF ComputedFrom
<1>5. /\ z = i.z /\ edges = i.edges /\ emerged = i.emerged /\ immersed = i.immersed
      /\ surfaceEdges = i.surfaceEdges
  BY <1>1 DEF ComputedFrom
<1>6. needClosing => (surface = <<>> \/ raised)
  BY DEF MeshIInv
<1> QED
  BY <1>3, <1>4, <1>5, <1>6 DEF UpdateForgetsThePast

\* For all hulls and any order of updates, failures and closings, what the
\* mesh says after an update is a function of the hull and of the immersions
\* just given (Mesh::reset_dynamic_members, MeshIntersector).
THEOREM UpdateAlwaysForgetsThePast == MeshSpec => []UpdateForgetsThePast
<1> QED
  BY MeshInductive, MeshIInvSuffices, PTL DEF MeshSpec

\* A facet of the mesh computed is still there when closing facets are added.
LEMMA PartsInMesh ==
  ASSUME MeshIInv, Updated
  PROVE  /\ hull \in {Build(h) : h \in Hulls}
         /\ \E zs \in [1 .. hull.vertices -> Immersions] :
              LET i == Intersection(hull, zs)
              IN  /\ z = i.z /\ edges = i.edges /\ emerged = i.emerged /\ immersed = i.immersed
                  /\ surfaceEdges = i.surfaceEdges
                  /\ \A p \in 1 .. Len(i.facets) : facets[p] = i.facets[p]
<1>1. PICK zs \in [1 .. hull.vertices -> Immersions] : ComputedFrom(zs)
  BY DEF MeshIInv, Updated, NaNImmersions
<1>2. hull \in {Build(h) : h \in Hulls}
  BY DEF MeshIInv
<1> QED
  BY <1>1, <1>2 DEF ComputedFrom, Begins

\* What is computed from the immersions has its pieces on their side.
LEMMA MeshPiecesOnTheirSide ==
  ASSUME ProperHulls, MeshIInv
  PROVE  PiecesAreOnTheirSide
<1> SUFFICES ASSUME Updated, NEW f \in immersed \union emerged
             PROVE  /\ IsInjective(facets[f]) /\ Len(facets[f]) >= 3
                    /\ \A k \in DOMAIN facets[f] :
                         IF f \in immersed THEN z[facets[f][k]] >= 0 ELSE z[facets[f][k]] <= 0
  BY DEF PiecesAreOnTheirSide
<1>1. hull \in {Build(h) : h \in Hulls}
  BY PartsInMesh
<1>2. PICK zs \in [1 .. hull.vertices -> Immersions] :
        LET i == Intersection(hull, zs)
        IN  /\ z = i.z /\ edges = i.edges /\ emerged = i.emerged /\ immersed = i.immersed
            /\ surfaceEdges = i.surfaceEdges
            /\ \A p \in 1 .. Len(i.facets) : facets[p] = i.facets[p]
  BY PartsInMesh
<1> DEFINE i == Intersection(hull, zs)
<1>3. /\ z = i.z /\ emerged = i.emerged /\ immersed = i.immersed
      /\ \A p \in 1 .. Len(i.facets) : facets[p] = i.facets[p]
  BY <1>2
<1>4. /\ \A p \in i.immersed :
           /\ p \in 1 .. Len(i.facets) /\ IsInjective(i.facets[p]) /\ Len(i.facets[p]) >= 3
           /\ \A k \in DOMAIN i.facets[p] : i.z[i.facets[p][k]] >= 0
      /\ \A p \in i.emerged :
           /\ p \in 1 .. Len(i.facets) /\ IsInjective(i.facets[p]) /\ Len(i.facets[p]) >= 3
           /\ \A k \in DOMAIN i.facets[p] : i.z[i.facets[p][k]] <= 0
  BY <1>1, PiecesOnTheirSide
<1> HIDE DEF i
<1> QED
  BY <1>3, <1>4

\* For all hulls whose triangles have three vertices, and any updates: every
\* facet of the two parts is a polygon that no vertex occurs twice in, on the
\* side of the surface of its part (split_partially_immersed_facet_and_classify,
\* Mesh::create_facet_from_edges).
THEOREM PiecesAlwaysOnTheirSide ==
  ASSUME ProperHulls
  PROVE  MeshSpec => []PiecesAreOnTheirSide
<1>1. MeshIInv => PiecesAreOnTheirSide
  BY MeshPiecesOnTheirSide
<1> QED
  BY <1>1, MeshInductive, PTL DEF MeshSpec

\* What is computed from the immersions is open in the surface only.
LEMMA MeshPartsOpenInSurfaceOnly ==
  ASSUME ProperHulls, ClosedHulls, MeshIInv
  PROVE  PartsOpenInSurfaceOnly
<1> SUFFICES ASSUME Updated, NEW s \in Boundary(immersed) \union Boundary(emerged)
             PROVE  InSurface(s)
  BY DEF PartsOpenInSurfaceOnly
<1>1. hull \in {Build(h) : h \in Hulls}
  BY PartsInMesh
<1>2. PICK zs \in [1 .. hull.vertices -> Immersions] :
        LET i == Intersection(hull, zs)
        IN  /\ z = i.z /\ edges = i.edges /\ emerged = i.emerged /\ immersed = i.immersed
            /\ surfaceEdges = i.surfaceEdges
            /\ \A p \in 1 .. Len(i.facets) : facets[p] = i.facets[p]
  BY PartsInMesh
<1> DEFINE i == Intersection(hull, zs)
<1>3. /\ z = i.z /\ edges = i.edges /\ surfaceEdges = i.surfaceEdges
      /\ emerged = i.emerged /\ immersed = i.immersed
      /\ \A p \in 1 .. Len(i.facets) : facets[p] = i.facets[p]
  BY <1>2
<1>4. /\ \A p \in i.emerged : \A t \in SidesIn(i.facets, p) :
           KnownInSurface(i, t) \/ \E q \in i.emerged : Reversed(t) \in SidesIn(i.facets, q)
      /\ \A p \in i.immersed : \A t \in SidesIn(i.facets, p) :
           KnownInSurface(i, t) \/ \E q \in i.immersed : Reversed(t) \in SidesIn(i.facets, q)
  BY <1>1, OpenSidesKnown
<1>5. \A p \in i.emerged \union i.immersed : p \in 1 .. Len(i.facets)
  <2>1. /\ \A p \in i.immersed : p \in 1 .. Len(i.facets)
        /\ \A p \in i.emerged : p \in 1 .. Len(i.facets)
    BY <1>1, PiecesOnTheirSide
  <2> HIDE DEF i
  <2> QED
    BY <2>1
<1>6. \A p \in i.emerged \union i.immersed : SidesOf(p) = SidesIn(i.facets, p)
  <2> SUFFICES ASSUME NEW p \in i.emerged \union i.immersed PROVE SidesOf(p) = SidesIn(i.facets, p)
    OBVIOUS
  <2>1. facets[p] = i.facets[p]
    BY <1>3, <1>5
  <2> HIDE DEF i
  <2> QED
    BY <2>1, Zenon DEF SidesOf, SidesIn
<1> HIDE DEF i
<1>7. KnownInSurface(i, s)
  <2>1. CASE s \in Boundary(immersed)
    <3>1. PICK p \in i.immersed : s \in SidesOf(p)
      BY <1>3, <2>1 DEF Boundary
    <3>2. \A q \in i.immersed : Reversed(s) \notin SidesOf(q)
      BY <1>3, <2>1 DEF Boundary
    <3> QED
      BY <1>4, <1>6, <3>1, <3>2
  <2>2. CASE s \in Boundary(emerged)
    <3>1. PICK p \in i.emerged : s \in SidesOf(p)
      BY <1>3, <2>2 DEF Boundary
    <3>2. \A q \in i.emerged : Reversed(s) \notin SidesOf(q)
      BY <1>3, <2>2 DEF Boundary
    <3> QED
      BY <1>4, <1>6, <3>1, <3>2
  <2> QED
    BY <2>1, <2>2
<1> QED
  BY <1>3, <1>7, Zenon DEF KnownInSurface, InSurface

\* For all closed hulls of triangles with three vertices, and any updates: the
\* parts are open along the free surface and nowhere else, and the sides where
\* they are open are known (split_partially_immersed_facet_and_classify,
\* index_of_edges_exactly_on_surface).
THEOREM PartsAlwaysOpenInSurfaceOnly ==
  ASSUME ProperHulls, ClosedHulls
  PROVE  MeshSpec => []PartsOpenInSurfaceOnly
<1>1. MeshIInv => PartsOpenInSurfaceOnly
  BY MeshPartsOpenInSurfaceOnly
<1> QED
  BY <1>1, MeshInductive, PTL DEF MeshSpec

\* What is computed from the immersions covers the hull.
LEMMA MeshPartsCoverTheHull ==
  ASSUME ProperHulls, OrientedHulls, MeshIInv
  PROVE  PartsCoverTheHull
<1> SUFFICES ASSUME Updated, NEW f \in DOMAIN hull.facets, NEW k \in 1 .. 3
             PROVE  LET side == Sides(hull.facets[f])[k]
                        cut == {v \in hull.vertices + 1 .. Len(z) :
                                  \E e \in DOMAIN edges : SameEdge(edges[e], <<side[1], v>>)
                                     /\ \E d \in DOMAIN edges : SameEdge(edges[d], <<v, side[2]>>)
                                     /\ Crosses(Status(z[side[1]], z[side[2]]))
                                     /\ e > Len(hull.edges) /\ d > Len(hull.edges)
                                     /\ (e = d + 1 \/ d = e + 1)}
                        halves == IF cut = {} THEN {side}
                                  ELSE LET v == CHOOSE v \in cut : TRUE
                                       IN  {<<side[1], v>>, <<v, side[2]>>}
                    IN  \A s \in halves :
                          Uses(immersed, s) + Uses(emerged, s) = IF Flat(f) THEN 2 ELSE 1
  BY Zenon DEF PartsCoverTheHull
<1>1. hull \in {Build(h) : h \in Hulls}
  BY PartsInMesh
<1>2. PICK zs \in [1 .. hull.vertices -> Immersions] :
        LET i == Intersection(hull, zs)
        IN  /\ z = i.z /\ edges = i.edges /\ emerged = i.emerged /\ immersed = i.immersed
            /\ surfaceEdges = i.surfaceEdges
            /\ \A p \in 1 .. Len(i.facets) : facets[p] = i.facets[p]
  BY PartsInMesh
<1> DEFINE i == Intersection(hull, zs)
           a == hull.facets[f][k]
           b == hull.facets[f][NextPlace(k)]
           n == NodeAt(hull, zs, f, k)
           x == SignOf(hull, zs, f, k)
           y == SignOf(hull, zs, f, NextPlace(k))
           cut == {v \in hull.vertices + 1 .. Len(z) :
                     \E e \in DOMAIN edges : SameEdge(edges[e], <<a, v>>)
                        /\ \E d \in DOMAIN edges : SameEdge(edges[d], <<v, b>>)
                        /\ Crosses(Status(z[a], z[b]))
                        /\ e > Len(hull.edges) /\ d > Len(hull.edges)
                        /\ (e = d + 1 \/ d = e + 1)}
           halves == IF cut = {} THEN {<<a, b>>}
                     ELSE LET v == CHOOSE v \in cut : TRUE IN {<<a, v>>, <<v, b>>}
<1>3. Sides(hull.facets[f])[k] = <<a, b>>
  <2>1. Sides(hull.facets[f])[k] = Side(hull.facets, f, k)
    BY <1>1, BuiltFacets
  <2> QED
    BY <2>1 DEF Side
<1>4. /\ z = i.z /\ edges = i.edges /\ emerged = i.emerged /\ immersed = i.immersed
      /\ \A p \in 1 .. Len(i.facets) : facets[p] = i.facets[p]
  BY <1>2
<1>5. /\ NextPlace(k) \in 1 .. 3 /\ hull.vertices \in Nat
      /\ x \in {-1, 0, 1} /\ y \in {-1, 0, 1}
  <2>1. NextPlace(k) \in 1 .. 3
    BY DEF NextPlace
  <2>2. hull.vertices \in Nat
    BY <1>1, BuiltFacets
  <2> QED
    BY <1>1, <2>1, <2>2, SignsType
<1>6. \A j \in 1 .. 3 : z[hull.facets[f][j]] = SignOf(hull, zs, f, j)
  <2>1. \A j \in 1 .. 3 : i.z[hull.facets[f][j]] = SignOf(hull, zs, f, j)
    BY <1>1, SidesOnTheirSide
  <2> HIDE DEF i
  <2> QED
    BY <1>4, <2>1
<1>7. Crosses(Status(z[a], z[b])) <=> CutBetween(x, y)
  <2>1. z[a] = x /\ z[b] = y
    BY <1>5, <1>6
  <2> HIDE DEF a, b, x, y
  <2> QED
    BY <1>5, <2>1, StatusTable
<1>8. ASSUME CutBetween(x, y)
      PROVE  cut = {n}
  <2>1. /\ n \in hull.vertices + 1 .. Len(z)
        /\ \E e, d \in DOMAIN edges :
             /\ SameEdge(edges[e], <<a, n>>) /\ SameEdge(edges[d], <<n, b>>)
             /\ e > Len(hull.edges) /\ d > Len(hull.edges)
             /\ e = d + 1 \/ d = e + 1
    <3>1. /\ n \in hull.vertices + 1 .. Len(i.z)
          /\ \E e, d \in DOMAIN i.edges :
               /\ SameEdge(i.edges[e], <<a, n>>) /\ SameEdge(i.edges[d], <<n, b>>)
               /\ e > Len(hull.edges) /\ d > Len(hull.edges)
               /\ e = d + 1 \/ d = e + 1
      BY <1>1, <1>8, NodeOfCut
    <3> HIDE DEF i, a, b, n
    <3> QED
      BY <1>4, <3>1
  <2>2. \A v \in Int : \A e, d \in DOMAIN i.edges :
          /\ v > hull.vertices /\ e > Len(hull.edges) /\ d > Len(hull.edges)
          /\ SameEdge(i.edges[e], <<a, v>>) /\ SameEdge(i.edges[d], <<v, b>>)
          => v = n
    BY <1>1, <1>8, CutsOfSide
  <2> HIDE DEF i, a, b, n, x, y
  <2>3. n \in cut
    BY <1>7, <1>8, <2>1
  <2>4. ASSUME NEW v \in cut
        PROVE  v = n
    <3>1. v \in hull.vertices + 1 .. Len(z)
      OBVIOUS
    <3>2. v \in Int /\ v > hull.vertices
      BY <1>5, <3>1
    <3>3. PICK e \in DOMAIN edges, d \in DOMAIN edges :
            /\ SameEdge(edges[e], <<a, v>>) /\ SameEdge(edges[d], <<v, b>>)
            /\ e > Len(hull.edges) /\ d > Len(hull.edges)
      OBVIOUS
    <3> QED
      BY <1>4, <2>2, <3>2, <3>3
  <2> HIDE DEF cut
  <2> QED
    BY <2>3, <2>4
<1>9. ASSUME ~ CutBetween(x, y)
      PROVE  cut = {}
  <2> HIDE DEF a, b, x, y
  <2> QED
    BY <1>7, <1>9
<1>10. halves = HalvesAt(hull, zs, f, k)
  <2>1. HalvesAt(hull, zs, f, k) = IF CutBetween(x, y) THEN {<<a, n>>, <<n, b>>} ELSE {<<a, b>>}
    BY DEF HalvesAt
  <2> HIDE DEF cut, a, b, n, x, y
  <2>2. CASE CutBetween(x, y)
    <3>1. cut # {} /\ (CHOOSE v \in cut : TRUE) = n
      BY <1>8, <2>2
    <3> QED
      BY <2>1, <2>2, <3>1
  <2>3. CASE ~ CutBetween(x, y)
    BY <1>9, <2>1, <2>3
  <2> QED
    BY <2>2, <2>3
<1>11. \A p \in i.emerged \union i.immersed : SidesOf(p) = SidesIn(i.facets, p)
  <2>1. /\ \A p \in i.immersed : p \in 1 .. Len(i.facets)
        /\ \A p \in i.emerged : p \in 1 .. Len(i.facets)
    BY <1>1, PiecesOnTheirSide
  <2> SUFFICES ASSUME NEW p \in i.emerged \union i.immersed
               PROVE  SidesOf(p) = SidesIn(i.facets, p)
    OBVIOUS
  <2> HIDE DEF i
  <2>2. facets[p] = i.facets[p]
    BY <1>4, <2>1
  <2> QED
    BY <2>2, Zenon DEF SidesOf, SidesIn
<1>12. Flat(f) <=> Level(hull, zs, f)
  <2>1. DOMAIN hull.facets[f] = 1 .. 3
    BY <1>1, BuiltFacets
  <2>2. Flat(f) <=> \A j \in 1 .. 3 : SignOf(hull, zs, f, j) = 0
    BY <1>6, <2>1 DEF Flat
  <2>3. \A j \in 1 .. 3 : SignOf(hull, zs, f, j) \in {-1, 0, 1}
    BY <1>1, SignsType
  <2> QED
    BY <2>2, <2>3 DEF Level, AnyEmerged, AnyImmersed
<1>13. ASSUME NEW s \in HalvesAt(hull, zs, f, k)
       PROVE  Uses(immersed, s) + Uses(emerged, s) = IF Flat(f) THEN 2 ELSE 1
  <2>1. Cardinality({p \in i.immersed : s \in SidesIn(i.facets, p)})
          + Cardinality({p \in i.emerged : s \in SidesIn(i.facets, p)})
        = IF Level(hull, zs, f) THEN 2 ELSE 1
    BY <1>1, <1>13, SideUses
  <2> HIDE DEF i
  <2>2. /\ {p \in immersed : s \in SidesOf(p)} = {p \in i.immersed : s \in SidesIn(i.facets, p)}
        /\ {p \in emerged : s \in SidesOf(p)} = {p \in i.emerged : s \in SidesIn(i.facets, p)}
    BY <1>4, <1>11
  <2> QED
    BY <1>12, <2>1, <2>2 DEF Uses
<1>14. \A s \in halves : Uses(immersed, s) + Uses(emerged, s) = IF Flat(f) THEN 2 ELSE 1
  <2> HIDE DEF halves
  <2> QED
    BY <1>10, <1>13
<1> HIDE DEF a, b
<1> QED
  <2>1. <<a, b>>[1] = a /\ <<a, b>>[2] = b
    OBVIOUS
  <2> QED
    BY <1>3, <1>14, <2>1, Zenon

\* For all hulls of triangles with three vertices that run the same way round,
\* and any updates: the two parts are the hull again, every half of every side
\* of it used once, or twice when its facet lies in the surface
\* (split_partially_immersed_facet_and_classify, Mesh::add_edge).
THEOREM PartsAlwaysCoverTheHull ==
  ASSUME ProperHulls, OrientedHulls
  PROVE  MeshSpec => []PartsCoverTheHull
<1>1. MeshIInv => PartsCoverTheHull
  BY MeshPartsCoverTheHull
<1> QED
  BY <1>1, MeshInductive, PTL DEF MeshSpec

-----------------------------------------------------------------------------
(* The contour in the surface: edges that meet.                             *)

Ends(e) == {edges[e][1], edges[e][2]}

(* P, among the edges S, has all those that share a vertex with one of P. *)
ClosedIn(S, P) ==
  /\ P \subseteq S
  /\ \A p \in P : \A d \in S : Ends(p) \cap Ends(d) # {} => d \in P

(* The edges of S that share a vertex with one of P. *)
Met(S, P) == {d \in S : edges[d][1] \in NodesOf(P) \/ edges[d][2] \in NodesOf(P)}

\* An edge is met when it shares a vertex.
LEMMA MetShares ==
  ASSUME NEW S, NEW P
  PROVE  \A d : d \in Met(S, P) <=> d \in S /\ \E p \in P : Ends(p) \cap Ends(d) # {}
BY DEF Met, NodesOf, Ends

(* A component grows from an edge, n times. *)
Growth(S, e, n, g) ==
  /\ g[0] = {e}
  /\ \A k \in 1 .. n : g[k] = Met(S, g[k - 1])

\* What the recursion of a component computes.
LEMMA ComponentGrows ==
  ASSUME NEW S, NEW e, IsFiniteSet(S)
  PROVE  \E g : Growth(S, e, Cardinality(S), g) /\ Component(S, e) = g[Cardinality(S)]
<1> DEFINE n == Cardinality(S)
           Is(f, k) == f = [i \in 0 .. k |-> f[i]] /\ Growth(S, e, k, f)
           K == {k \in 0 .. n : \E f : Is(f, k)}
           Equation(g) == g = [k \in 0 .. n |-> IF k = 0 THEN {e} ELSE Met(S, g[k - 1])]
           grown == CHOOSE g : Equation(g)
<1>1. n \in Nat
  BY FS_CardinalityType
<1>2. Component(S, e) = grown[n]
  BY DEF Component, Met
<1> HIDE DEF n
<1>3. 0 \in K
  <2> DEFINE f == [i \in 0 .. 0 |-> {e}]
  <2>1. f = [i \in 0 .. 0 |-> f[i]] /\ f[0] = {e}
    OBVIOUS
  <2>2. 0 \in 0 .. n
    BY <1>1
  <2> HIDE DEF f
  <2>3. Is(f, 0)
    BY <2>1 DEF Growth
  <2> QED
    BY <2>2, <2>3
<1>4. ASSUME NEW k \in 0 .. n - 1, k \in K
      PROVE  k + 1 \in K
  <2>1. PICK f : Is(f, k)
    BY <1>4
  <2> DEFINE g == [i \in 0 .. k + 1 |-> IF i <= k THEN f[i] ELSE Met(S, f[k])]
  <2>2. k \in Nat /\ k + 1 \in 0 .. n
    BY <1>1
  <2>3. f[0] = {e} /\ \A i \in 1 .. k : f[i] = Met(S, f[i - 1])
    BY <2>1 DEF Growth
  <2>4. g = [i \in 0 .. k + 1 |-> g[i]]
    BY Zenon
  <2>5. (\A i \in 0 .. k : g[i] = f[i]) /\ g[k + 1] = Met(S, f[k])
    BY <2>2
  <2> HIDE DEF g
  <2>6. g[0] = {e}
    BY <2>2, <2>3, <2>5
  <2>7. ASSUME NEW i \in 1 .. k + 1
        PROVE  g[i] = Met(S, g[i - 1])
    <3>1. CASE i = k + 1
      BY <2>2, <2>5, <3>1
    <3>2. CASE i # k + 1
      <4>1. i \in 1 .. k /\ i \in 0 .. k /\ i - 1 \in 0 .. k
        BY <2>2, <3>2
      <4> QED
        BY <2>3, <2>5, <4>1
    <3> QED
      BY <3>1, <3>2
  <2>8. Is(g, k + 1)
    BY <2>4, <2>6, <2>7 DEF Growth
  <2> QED
    BY <2>2, <2>8
<1>5. PICK f : Is(f, n)
  <2>1. n \in K
    <3> HIDE DEF K
    <3>1. \A k \in 0 .. n : k \in K
      BY <1>1, <1>3, <1>4, IntervalInduction
    <3> QED
      BY <1>1, <3>1
  <2> QED
    BY <2>1
<1>6. Equation(f)
  <2>1. f = [k \in 0 .. n |-> f[k]] /\ f[0] = {e} /\ \A k \in 1 .. n : f[k] = Met(S, f[k - 1])
    BY <1>5 DEF Growth
  <2>2. \A k \in 0 .. n : f[k] = IF k = 0 THEN {e} ELSE Met(S, f[k - 1])
    BY <1>1, <2>1
  <2> QED
    BY <2>1, <2>2
<1>7. Equation(grown)
  <2> HIDE DEF Equation
  <2> QED
    BY <1>6
<1>8. Growth(S, e, n, grown)
  <2> HIDE DEF grown
  <2>1. \A k \in 0 .. n : grown[k] = IF k = 0 THEN {e} ELSE Met(S, grown[k - 1])
    BY <1>7
  <2> QED
    BY <1>1, <2>1 DEF Growth
<1> QED
  BY <1>2, <1>8 DEF n

\* A component is in every closed set of edges that has its first edge.
LEMMA ComponentLeast ==
  ASSUME NEW S, IsFiniteSet(S), NEW e, NEW P, ClosedIn(S, P), e \in P
  PROVE  Component(S, e) \subseteq P
<1> DEFINE n == Cardinality(S)
<1>1. n \in Nat
  BY FS_CardinalityType
<1>2. PICK g : Growth(S, e, n, g) /\ Component(S, e) = g[n]
  BY ComponentGrows
<1> HIDE DEF n
<1> DEFINE K == {k \in 0 .. n : g[k] \subseteq P}
<1>3. 0 \in K
  BY <1>1, <1>2 DEF Growth
<1>4. ASSUME NEW k \in 0 .. n - 1, k \in K
      PROVE  k + 1 \in K
  <2>1. k + 1 \in 1 .. n /\ k + 1 \in 0 .. n /\ (k + 1) - 1 = k
    BY <1>1
  <2>2. g[k + 1] = Met(S, g[k])
    BY <1>2, <2>1 DEF Growth
  <2>3. g[k + 1] \subseteq P
    BY <1>4, <2>2, MetShares DEF ClosedIn
  <2> QED
    BY <2>1, <2>3
<1> HIDE DEF K
<1>5. \A k \in 0 .. n : k \in K
  BY <1>1, <1>3, <1>4, IntervalInduction
<1> QED
  BY <1>1, <1>2, <1>5 DEF K

\* A component of some edges is closed among them: it has stopped growing.
LEMMA ComponentClosed ==
  ASSUME NEW S, IsFiniteSet(S), NEW e \in S
  PROVE  ClosedIn(S, Component(S, e)) /\ e \in Component(S, e)
<1> DEFINE n == Cardinality(S)
<1>1. n \in Nat
  BY FS_CardinalityType
<1>2. PICK g : Growth(S, e, n, g) /\ Component(S, e) = g[n]
  BY ComponentGrows
<1>3. ASSUME NEW P \in SUBSET S
      PROVE  P \subseteq Met(S, P)
  <2>1. \A p \in P : p \in S /\ Ends(p) \cap Ends(p) # {}
    BY DEF Ends
  <2> QED
    BY <2>1, MetShares
<1>4. \A P : Met(S, P) \subseteq S
  BY MetShares
<1>5. \A P \in SUBSET S : IsFiniteSet(P) /\ Cardinality(P) \in Nat /\ Cardinality(P) <= n
  BY FS_Subset, FS_CardinalityType
<1> DEFINE Done(P) == Met(S, P) \subseteq P
           K == {k \in 0 .. n : /\ g[k] \subseteq S /\ e \in g[k]
                                /\ Done(g[k]) \/ Cardinality(g[k]) > k}
<1>6. 0 \in K
  <2>1. g[0] = {e}
    BY <1>2 DEF Growth
  <2>2. Cardinality({e}) = 1
    BY FS_Singleton
  <2> HIDE DEF Done
  <2> QED
    BY <1>1, <2>1, <2>2
<1>7. ASSUME NEW k \in 0 .. n - 1, k \in K
      PROVE  k + 1 \in K
  <2> DEFINE P == g[k]
             Q == g[k + 1]
  <2>1. k + 1 \in 1 .. n /\ k + 1 \in 0 .. n /\ (k + 1) - 1 = k
    BY <1>1
  <2>2. Q = Met(S, P)
    BY <1>2, <2>1 DEF Growth
  <2>3. P \in SUBSET S /\ e \in P /\ (Done(P) \/ Cardinality(P) > k)
    BY <1>7
  <2> HIDE DEF P, Q
  <2>4. Q \in SUBSET S /\ P \subseteq Q
    BY <1>3, <1>4, <2>2, <2>3
  <2>5. Done(Q) \/ Cardinality(Q) > k + 1
    <3>1. CASE Done(P)
      <4>1. Q = P
        BY <2>2, <2>4, <3>1
      <4> QED
        BY <3>1, <4>1
    <3>2. CASE ~ Done(P)
      <4>1. Q # P
        BY <2>2, <3>2
      <4>2. Cardinality(P) <= Cardinality(Q) /\ Cardinality(P) # Cardinality(Q)
        BY <1>5, <2>4, <4>1, FS_Subset
      <4>3. Cardinality(P) \in Nat /\ Cardinality(Q) \in Nat /\ Cardinality(P) > k
        BY <1>5, <2>3, <2>4, <3>2
      <4> QED
        BY <4>2, <4>3
    <3> QED
      BY <3>1, <3>2
  <2> HIDE DEF Done
  <2> QED
    BY <2>1, <2>3, <2>4, <2>5 DEF P, Q
<1>8. n \in K
  <2> HIDE DEF K
  <2>1. \A k \in 0 .. n : k \in K
    BY <1>1, <1>6, <1>7, IntervalInduction
  <2> QED
    BY <1>1, <2>1
<1>9. g[n] \subseteq S /\ e \in g[n] /\ Done(g[n])
  <2>1. g[n] \in SUBSET S /\ e \in g[n] /\ (Done(g[n]) \/ Cardinality(g[n]) > n)
    BY <1>8
  <2>2. Cardinality(g[n]) <= n /\ Cardinality(g[n]) \in Nat
    BY <1>5, <2>1
  <2> HIDE DEF n, Done
  <2> QED
    BY <1>1, <2>1, <2>2
<1>10. ClosedIn(S, g[n])
  BY <1>9, MetShares DEF ClosedIn
<1> QED
  BY <1>2, <1>9, <1>10

\* Every edge of a component has that component.
LEMMA ComponentSame ==
  ASSUME NEW S, IsFiniteSet(S), NEW e \in S, NEW d \in Component(S, e)
  PROVE  Component(S, d) = Component(S, e)
<1>1. ClosedIn(S, Component(S, e)) /\ e \in Component(S, e) /\ d \in S
  BY ComponentClosed DEF ClosedIn
<1>2. Component(S, d) \subseteq Component(S, e)
  BY <1>1, ComponentLeast
<1>3. ClosedIn(S, Component(S, d)) /\ d \in Component(S, d)
  BY <1>1, ComponentClosed
<1>4. e \in Component(S, d)
  <2> SUFFICES ASSUME e \notin Component(S, d)
               PROVE  FALSE
    OBVIOUS
  <2> DEFINE P == S \ Component(S, d)
  <2>1. ClosedIn(S, P) /\ e \in P
    BY <1>3 DEF ClosedIn
  <2> HIDE DEF P
  <2>2. Component(S, e) \subseteq P
    BY <2>1, ComponentLeast
  <2> QED
    BY <1>3, <2>2 DEF P
<1>5. Component(S, e) \subseteq Component(S, d)
  BY <1>3, <1>4, ComponentLeast
<1> QED
  BY <1>2, <1>5

(* Edges among which no smaller set is closed. *)
Connected(E) == \A P : ClosedIn(E, P) /\ P # {} => P = E

\* The components: each is connected and has all edges at its vertices, and two
\* of them have no vertex in common.
LEMMA ComponentsApart ==
  ASSUME NEW n \in Nat, NEW S \in SUBSET (1 .. n)
  PROVE  LET parts == Components(S)
         IN  /\ \A k \in DOMAIN parts : parts[k] \subseteq S /\ parts[k] # {} /\ Connected(parts[k])
             /\ \A k \in DOMAIN parts : ClosedIn(S, parts[k])
             /\ \A j, k \in DOMAIN parts : j # k => NodesOf(parts[j]) \cap NodesOf(parts[k]) = {}
<1> DEFINE firsts == {e \in S : \A d \in Component(S, e) : e <= d}
           m == Cardinality(firsts)
           parts == Components(S)
<1>1. IsFiniteSet(S) /\ S \subseteq Nat
  <2>1. S \subseteq Nat
    OBVIOUS
  <2> QED
    BY <2>1, PlacesSubset
<1>2. parts = [k \in 1 .. m |-> Component(S, Nth(firsts, k))]
  BY DEF Components
<1>3. firsts \in SUBSET (1 .. n)
  OBVIOUS
<1>4. \A k \in 1 .. m : Nth(firsts, k) \in firsts /\ RankIn(firsts, Nth(firsts, k)) = k
  <2> HIDE DEF firsts
  <2> QED
    BY <1>3, Ranked
<1> HIDE DEF parts, m
<1>5. ASSUME NEW k \in DOMAIN parts
      PROVE  /\ Nth(firsts, k) \in firsts /\ RankIn(firsts, Nth(firsts, k)) = k
             /\ Nth(firsts, k) \in S
             /\ \A d \in Component(S, Nth(firsts, k)) : Nth(firsts, k) <= d
             /\ parts[k] = Component(S, Nth(firsts, k))
  <2>1. k \in 1 .. m /\ parts[k] = Component(S, Nth(firsts, k))
    BY <1>2
  <2>2. Nth(firsts, k) \in firsts /\ RankIn(firsts, Nth(firsts, k)) = k
    BY <1>4, <2>1
  <2> QED
    BY <2>1, <2>2
<1> HIDE DEF firsts
<1>6. ASSUME NEW k \in DOMAIN parts
      PROVE  parts[k] \subseteq S /\ parts[k] # {} /\ Connected(parts[k]) /\ ClosedIn(S, parts[k])
  <2> DEFINE e == Nth(firsts, k)
             C == Component(S, e)
  <2>1. parts[k] = C /\ e \in S
    BY <1>5, <1>6
  <2> HIDE DEF e
  <2>2. ClosedIn(S, C) /\ e \in C
    BY <1>1, <2>1, ComponentClosed
  <2>3. ASSUME NEW P, ClosedIn(C, P), P # {}
        PROVE  P = C
    <3>1. PICK p \in P : p \in C
      BY <2>3 DEF ClosedIn
    <3>2. Component(S, p) = C
      BY <1>1, <2>1, <3>1, ComponentSame
    <3> HIDE DEF C
    <3>3. ClosedIn(S, P)
      BY <2>2, <2>3 DEF ClosedIn
    <3>4. Component(S, p) \subseteq P
      BY <1>1, <3>1, <3>3, ComponentLeast
    <3> QED
      BY <2>3, <3>2, <3>4 DEF ClosedIn
  <2> HIDE DEF C
  <2> QED
    BY <2>1, <2>2, <2>3 DEF Connected, ClosedIn
<1>7. ASSUME NEW j \in DOMAIN parts, NEW k \in DOMAIN parts, j # k,
             NEW v \in NodesOf(parts[j]) \cap NodesOf(parts[k])
      PROVE  FALSE
  <2> DEFINE a == Nth(firsts, j)
             b == Nth(firsts, k)
  <2>1. /\ a \in S /\ parts[j] = Component(S, a) /\ RankIn(firsts, a) = j
        /\ \A d \in Component(S, a) : a <= d
    BY <1>5
  <2>2. /\ b \in S /\ parts[k] = Component(S, b) /\ RankIn(firsts, b) = k
        /\ \A d \in Component(S, b) : b <= d
    BY <1>5
  <2> HIDE DEF a, b
  <2>3. PICK p \in parts[j] : v \in Ends(p)
    BY DEF NodesOf, Ends
  <2>4. PICK q \in parts[k] : v \in Ends(q)
    BY DEF NodesOf, Ends
  <2>5. q \in parts[j]
    BY <1>6, <2>3, <2>4 DEF ClosedIn
  <2>6. Component(S, a) = Component(S, b)
    BY <1>1, <2>1, <2>2, <2>4, <2>5, ComponentSame
  <2>7. a \in Component(S, a) /\ b \in Component(S, b)
    BY <1>1, <2>1, <2>2, ComponentClosed
  <2>8. a <= b /\ b <= a /\ a \in Int /\ b \in Int
    BY <1>1, <2>1, <2>2, <2>6, <2>7
  <2>9. a = b
    BY <2>8
  <2> QED
    BY <1>7, <2>1, <2>2, <2>9
<1> QED
  BY <1>6, <1>7 DEF parts

-----------------------------------------------------------------------------
(* The paths that ClosingFacetComputer follows.                             *)

(* The path that has an edge only, in the edge's own direction. *)
StartPath(e) == <<[edge |-> e, reverse |-> FALSE]>>

(* The paths, with those of length m taken one edge further. *)
Longer(E, e, m, paths) ==
  paths \union
    UNION {{Append(p, o) : o \in {x \in Following(E, p) : x.edge # e}} : p \in {q \in paths : Len(q) = m}}

PathGrowth(E, e, n, g) ==
  /\ g[1] = {StartPath(e)}
  /\ \A k \in 2 .. n : g[k] = Longer(E, e, k - 1, g[k - 1])

(* The paths that cannot be continued, and those that are complete. *)
DeadEnds(E, all) == {p \in all : Following(E, p) = {} \/ HasTwin(E, p)}
Finished(E, all) == {p \in all \ DeadEnds(E, all) : Ended(E, p)}

\* What the recursion of the paths computes.
LEMMA PathsGrow ==
  ASSUME NEW E, NEW e \in E, IsFiniteSet(E)
  PROVE  \E g : /\ PathGrowth(E, e, Cardinality(E), g)
                /\ LET all == g[Cardinality(E)]
                   IN  PathsFrom(E, e) = Finished(E, all) \union (IF DeadEnds(E, all) = {} THEN {} ELSE {<<>>})
<1> DEFINE n == Cardinality(E)
           Is(f, k) == f = [i \in 1 .. k + 1 |-> f[i]] /\ PathGrowth(E, e, k + 1, f)
           K == {k \in 0 .. n - 1 : \E f : Is(f, k)}
           Equation(g) == g = [k \in 1 .. n |-> IF k = 1 THEN {StartPath(e)} ELSE Longer(E, e, k - 1, g[k - 1])]
           grown == CHOOSE g : Equation(g)
<1>1. n \in Nat /\ n > 0
  <2>1. n \in Nat /\ n # 0
    BY FS_CardinalityType, FS_EmptySet
  <2> QED
    BY <2>1
<1>2. PathsFrom(E, e) = Finished(E, grown[n]) \union (IF DeadEnds(E, grown[n]) = {} THEN {} ELSE {<<>>})
  BY DEF PathsFrom, Longer, StartPath, Finished, DeadEnds
<1> HIDE DEF n
<1>3. 0 \in K
  <2> DEFINE f == [i \in 1 .. 0 + 1 |-> {StartPath(e)}]
  <2>1. f = [i \in 1 .. 0 + 1 |-> f[i]] /\ f[1] = {StartPath(e)}
    OBVIOUS
  <2>2. 0 \in 0 .. n - 1
    BY <1>1
  <2> HIDE DEF f
  <2>3. Is(f, 0)
    BY <2>1 DEF PathGrowth
  <2> QED
    BY <2>2, <2>3
<1>4. ASSUME NEW k \in 0 .. n - 1 - 1, k \in K
      PROVE  k + 1 \in K
  <2> DEFINE m == k + 1
  <2>1. m \in Nat /\ m > 0 /\ m \in 0 .. n - 1
    BY <1>1
  <2>2. PICK f : f = [i \in 1 .. m |-> f[i]] /\ PathGrowth(E, e, m, f)
    BY <1>4
  <2> HIDE DEF m
  <2> DEFINE g == [i \in 1 .. m + 1 |-> IF i <= m THEN f[i] ELSE Longer(E, e, m, f[m])]
  <2>3. f[1] = {StartPath(e)} /\ \A i \in 2 .. m : f[i] = Longer(E, e, i - 1, f[i - 1])
    BY <2>2 DEF PathGrowth
  <2>4. g = [i \in 1 .. m + 1 |-> g[i]]
    BY Zenon
  <2>5. (\A i \in 1 .. m : g[i] = f[i]) /\ g[m + 1] = Longer(E, e, m, f[m])
    BY <2>1
  <2> HIDE DEF g
  <2>6. g[1] = {StartPath(e)}
    BY <2>1, <2>3, <2>5
  <2>7. ASSUME NEW i \in 2 .. m + 1
        PROVE  g[i] = Longer(E, e, i - 1, g[i - 1])
    <3>1. CASE i = m + 1
      <4>1. i - 1 = m /\ m \in 1 .. m
        BY <2>1, <3>1
      <4> QED
        BY <2>5, <3>1, <4>1
    <3>2. CASE i # m + 1
      <4>1. i \in 2 .. m /\ i \in 1 .. m /\ i - 1 \in 1 .. m
        BY <2>1, <3>2
      <4> QED
        BY <2>3, <2>5, <4>1
    <3> QED
      BY <3>1, <3>2
  <2>8. PathGrowth(E, e, m + 1, g)
    BY <2>6, <2>7 DEF PathGrowth
  <2>9. Is(g, m)
    BY <2>4, <2>8
  <2> HIDE DEF Is
  <2> QED
    BY <2>1, <2>9 DEF m
<1>5. PICK f : f = [k \in 1 .. n |-> f[k]] /\ PathGrowth(E, e, n, f)
  <2>1. n - 1 \in K
    <3> HIDE DEF K
    <3>1. n - 1 \in Nat
      BY <1>1
    <3>2. \A k \in 0 .. n - 1 : k \in K
      BY <3>1, <1>3, <1>4, IntervalInduction
    <3> QED
      BY <3>1, <3>2
  <2>2. (n - 1) + 1 = n
    BY <1>1
  <2>3. PICK f : Is(f, n - 1)
    BY <2>1
  <2> QED
    BY <2>2, <2>3
<1>6. Equation(f)
  <2>1. f[1] = {StartPath(e)} /\ \A k \in 2 .. n : f[k] = Longer(E, e, k - 1, f[k - 1])
    BY <1>5 DEF PathGrowth
  <2>2. \A k \in 1 .. n : f[k] = IF k = 1 THEN {StartPath(e)} ELSE Longer(E, e, k - 1, f[k - 1])
    BY <1>1, <2>1
  <2> QED
    BY <1>5, <2>2
<1>7. Equation(grown)
  <2> HIDE DEF Equation
  <2> QED
    BY <1>6
<1>8. PathGrowth(E, e, n, grown)
  <2> HIDE DEF grown
  <2>1. \A k \in 1 .. n : grown[k] = IF k = 1 THEN {StartPath(e)} ELSE Longer(E, e, k - 1, grown[k - 1])
    BY <1>7
  <2> QED
    BY <1>1, <2>1 DEF PathGrowth
<1> QED
  BY <1>2, <1>8 DEF n

\* What holds of the first path, and of a path taken further when it holds of
\* the path, holds of every path; one that is returned is complete, unless
\* there is a dead end.
LEMMA PathInduction ==
  ASSUME NEW E, NEW e \in E, IsFiniteSet(E), NEW Q, StartPath(e) \in Q,
         \A p \in Q : \A o \in Following(E, p) : o.edge # e => Append(p, o) \in Q
  PROVE  \A p \in PathsFrom(E, e) :
           \/ p = <<>> /\ \E q \in Q : Following(E, q) = {} \/ HasTwin(E, q)
           \/ p \in Q /\ Following(E, p) # {} /\ Ended(E, p)
<1> DEFINE n == Cardinality(E)
<1>1. n \in Nat /\ n > 0
  <2>1. n \in Nat /\ n # 0
    BY FS_CardinalityType, FS_EmptySet
  <2> QED
    BY <2>1
<1>2. PICK g : /\ PathGrowth(E, e, n, g)
               /\ PathsFrom(E, e) = Finished(E, g[n]) \union (IF DeadEnds(E, g[n]) = {} THEN {} ELSE {<<>>})
  BY PathsGrow
<1> HIDE DEF n
<1> DEFINE K == {k \in 0 .. n - 1 : g[k + 1] \subseteq Q}
<1>3. 0 \in K
  <2>1. g[0 + 1] = {StartPath(e)}
    BY <1>2 DEF PathGrowth
  <2> QED
    BY <1>1, <2>1
<1>4. ASSUME NEW k \in 0 .. n - 1 - 1, k \in K
      PROVE  k + 1 \in K
  <2> DEFINE m == k + 1
  <2>1. m + 1 \in 2 .. n /\ m \in 0 .. n - 1 /\ (m + 1) - 1 = m
    BY <1>1
  <2>2. g[m] \subseteq Q
    BY <1>4
  <2> HIDE DEF m
  <2>3. g[m + 1] = Longer(E, e, m, g[m])
    BY <1>2, <2>1 DEF PathGrowth
  <2>4. g[m + 1] \subseteq Q
    <3> DEFINE longer(p) == {Append(p, o) : o \in {x \in Following(E, p) : x.edge # e}}
    <3>1. \A p \in g[m] : longer(p) \subseteq Q
      BY <2>2
    <3>2. g[m + 1] = g[m] \union UNION {longer(p) : p \in {q \in g[m] : Len(q) = m}}
      BY <2>3 DEF Longer
    <3> HIDE DEF longer
    <3> QED
      BY <2>2, <3>1, <3>2
  <2>5. m \in K
    BY <2>1, <2>4
  <2> HIDE DEF K
  <2> QED
    BY <2>5 DEF m
<1>5. g[n] \subseteq Q
  <2> HIDE DEF K
  <2>1. n - 1 \in Nat /\ n - 1 \in 0 .. n - 1 /\ (n - 1) + 1 = n
    BY <1>1
  <2>2. \A k \in 0 .. n - 1 : k \in K
    BY <2>1, <1>3, <1>4, IntervalInduction
  <2>3. n - 1 \in K
    BY <2>1, <2>2
  <2> QED
    BY <2>1, <2>3 DEF K
<1>6. ASSUME NEW p \in Finished(E, g[n])
      PROVE  p \in Q /\ Following(E, p) # {} /\ Ended(E, p)
  BY <1>5, <1>6 DEF Finished, DeadEnds
<1>7. ASSUME DeadEnds(E, g[n]) # {}
      PROVE  \E q \in Q : Following(E, q) = {} \/ HasTwin(E, q)
  BY <1>5, <1>7 DEF DeadEnds
<1>8. \A p \in PathsFrom(E, e) :
        p \in Finished(E, g[n]) \/ (p = <<>> /\ DeadEnds(E, g[n]) # {})
  BY <1>2
<1> QED
  BY <1>6, <1>7, <1>8

(* The edges E, run along in either direction. *)
Legs(E) == [edge : E, reverse : BOOLEAN]

\* The paths that are taken further start where the one before ends.
LEMMA FollowingLegs ==
  ASSUME NEW E, NEW p, NEW o \in Following(E, p)
  PROVE  /\ o \in Legs(E) /\ o.edge # p[Len(p)].edge
         /\ FirstVertex(edges, o) = SecondVertex(edges, p[Len(p)])
         /\ SecondVertex(edges, p[Len(p)]) \in Ends(o.edge)
<1> DEFINE last == p[Len(p)]
           v == SecondVertex(edges, last)
<1>1. PICK d \in EdgesAt(E, v) \ {last.edge} : o = [edge |-> d, reverse |-> edges[d][1] # v]
  BY DEF Following
<1>2. d \in E /\ v \in {edges[d][1], edges[d][2]} /\ d # last.edge
  BY DEF EdgesAt
<1> HIDE DEF v, last
<1>3. o.edge = d /\ o.reverse = (edges[d][1] # v) /\ o \in Legs(E)
  BY <1>1, <1>2 DEF Legs
<1>4. FirstVertex(edges, o) = v
  BY <1>2, <1>3 DEF FirstVertex
<1> QED
  BY <1>2, <1>3, <1>4 DEF v, last, Ends

\* Paths are made of edges of the component.
LEMMA PathsType ==
  ASSUME NEW E, NEW e \in E, IsFiniteSet(E)
  PROVE  PathsFrom(E, e) \subseteq Seq(Legs(E))
<1> DEFINE Q == Seq(Legs(E))
<1>1. StartPath(e) \in Q
  BY DEF StartPath, Legs
<1>2. \A p \in Q : \A o \in Following(E, p) : Append(p, o) \in Q
  BY FollowingLegs, AppendProperties
<1>3. <<>> \in Q
  OBVIOUS
<1> HIDE DEF Q
<1>4. \A p \in PathsFrom(E, e) : p = <<>> \/ p \in Q
  BY <1>1, <1>2, PathInduction
<1> QED
  BY <1>3, <1>4 DEF Q

\* A path run along from its end has the same edges.
LEMMA FlippedPath ==
  ASSUME NEW S, NEW p \in Seq([edge : S, reverse : BOOLEAN])
  PROVE  /\ Flipped(p) \in Seq([edge : S, reverse : BOOLEAN]) /\ Len(Flipped(p)) = Len(p)
         /\ \A k \in 1 .. Len(p) :
              /\ Len(p) + 1 - k \in 1 .. Len(p)
              /\ Flipped(p)[k].edge = p[Len(p) + 1 - k].edge
              /\ FirstVertex(edges, Flipped(p)[k]) = SecondVertex(edges, p[Len(p) + 1 - k])
              /\ SecondVertex(edges, Flipped(p)[k]) = FirstVertex(edges, p[Len(p) + 1 - k])
<1> DEFINE L == [edge : S, reverse : BOOLEAN]
           n == Len(p)
           q == Flipped(p)
<1>1. n \in Nat /\ DOMAIN p = 1 .. n /\ \A k \in 1 .. n : p[k] \in L
  BY LenProperties, ElementOfSeq
<1>2. q = [k \in 1 .. n |-> [edge |-> p[n + 1 - k].edge, reverse |-> ~ p[n + 1 - k].reverse]]
  BY <1>1 DEF Flipped
<1> HIDE DEF n, q
<1>3. ASSUME NEW k \in 1 .. n
      PROVE  /\ n + 1 - k \in 1 .. n /\ q[k] \in L /\ q[k].edge = p[n + 1 - k].edge
             /\ q[k].reverse = ~ p[n + 1 - k].reverse
  <2> DEFINE j == n + 1 - k
  <2>1. j \in 1 .. n
    BY <1>1
  <2>2. q[k] = [edge |-> p[j].edge, reverse |-> ~ p[j].reverse]
    BY <1>2
  <2> HIDE DEF j
  <2>3. p[j].edge \in S /\ p[j].reverse \in BOOLEAN
    BY <1>1, <2>1
  <2>4. q[k].edge = p[j].edge /\ q[k].reverse = ~ p[j].reverse /\ q[k] \in L
    BY <2>2, <2>3
  <2> QED
    BY <2>1, <2>4 DEF j
<1>4. q \in Seq(L) /\ Len(q) = n
  <2>1. q \in [1 .. n -> L]
    BY <1>2, <1>3
  <2> HIDE DEF L
  <2>2. q \in Seq(L)
    BY <1>1, <2>1, SeqDef
  <2>3. Len(q) \in Nat /\ 1 .. Len(q) = 1 .. n
    BY <1>2, <2>2, LenProperties
  <2>4. Len(q) = n
    BY <1>1, <2>3
  <2> QED
    BY <2>2, <2>4
<1>5. ASSUME NEW k \in 1 .. n
      PROVE  /\ FirstVertex(edges, q[k]) = SecondVertex(edges, p[n + 1 - k])
             /\ SecondVertex(edges, q[k]) = FirstVertex(edges, p[n + 1 - k])
  <2>1. q[k].edge = p[n + 1 - k].edge /\ q[k].reverse = ~ p[n + 1 - k].reverse
    BY <1>3
  <2> QED
    BY <2>1 DEF FirstVertex, SecondVertex
<1> QED
  BY <1>3, <1>4, <1>5 DEF n, q

\* So are contours.
LEMMA ContoursType ==
  ASSUME NEW E, IsFiniteSet(E)
  PROVE  Contours(E) \subseteq Seq(Legs(E))
<1> DEFINE found == UNION {PathsFrom(E, e) : e \in E}
<1>1. found \subseteq Seq(Legs(E))
  BY PathsType
<1>2. \A p \in found : Flipped(p) \in Seq(Legs(E))
  BY <1>1, FlippedPath DEF Legs
<1>3. <<>> \in Seq(Legs(E))
  OBVIOUS
<1>4. \A c \in Contours(E) : c = <<>> \/ c \in found \/ \E p \in found : c = Flipped(p)
  BY DEF Contours
<1> HIDE DEF found
<1> QED
  BY <1>1, <1>2, <1>3, <1>4

-----------------------------------------------------------------------------
(* In a loop, a path never comes back but to its start.                     *)

(***************************************************************************)
(* Edges that can be told apart by their ends: two different ones each, and *)
(* never the same two.                                                      *)
(***************************************************************************)
Plain(S) ==
  /\ IsFiniteSet(S)
  /\ \A e \in S : edges[e] = <<edges[e][1], edges[e][2]>> /\ edges[e][1] # edges[e][2]
  /\ \A e, d \in S : SameEdge(edges[e], edges[d]) => e = d

\* A vertex of a loop has two edges: with two known there is no third, and
\* with one known there is another.
LEMMA TwoEdgesAt ==
  ASSUME NEW E, IsFiniteSet(E), IsLoop(E)
  PROVE  /\ \A v : \A a, b, c \in EdgesAt(E, v) : a # b => c = a \/ c = b
         /\ \A v : \A a \in EdgesAt(E, v) : \E b \in EdgesAt(E, v) : b # a
<1>1. ASSUME NEW v, NEW a \in EdgesAt(E, v)
      PROVE  IsFiniteSet(EdgesAt(E, v)) /\ Cardinality(EdgesAt(E, v)) = 2
  <2>1. v \in NodesOf(E)
    BY <1>1 DEF EdgesAt, NodesOf
  <2>2. EdgesAt(E, v) \in SUBSET E
    BY DEF EdgesAt
  <2> QED
    BY <2>1, <2>2, FS_Subset DEF IsLoop
<1>2. ASSUME NEW v, NEW a \in EdgesAt(E, v), NEW b \in EdgesAt(E, v), a # b,
             NEW c \in EdgesAt(E, v)
      PROVE  c = a \/ c = b
  <2> DEFINE X == EdgesAt(E, v)
  <2>1. IsFiniteSet(X) /\ Cardinality(X) = 2
    BY <1>1
  <2>2. {a, b} \in SUBSET X
    OBVIOUS
  <2>3. Cardinality({a, b}) = 2
    <3>1. IsFiniteSet({a}) /\ Cardinality({a}) = 1
      BY FS_Singleton
    <3>2. {a, b} = {a} \union {b} /\ b \notin {a}
      BY <1>2
    <3> DEFINE A == {a}
    <3> HIDE DEF A
    <3>3. IsFiniteSet(A \union {b}) /\ Cardinality(A \union {b}) = Cardinality(A) + 1
      BY <3>1, <3>2, FS_AddElement DEF A
    <3> QED
      BY <3>1, <3>2, <3>3 DEF A
  <2> HIDE DEF X
  <2>4. {a, b} = X
    BY <2>1, <2>2, <2>3, FS_Subset
  <2> QED
    BY <2>4 DEF X
<1>3. ASSUME NEW v, NEW a \in EdgesAt(E, v)
      PROVE  \E b \in EdgesAt(E, v) : b # a
  <2> SUFFICES ASSUME EdgesAt(E, v) = {a}
               PROVE  FALSE
    OBVIOUS
  <2>1. Cardinality({a}) = 1
    BY FS_Singleton
  <2>2. Cardinality({a}) = 2
    BY <1>1
  <2> QED
    BY <2>1, <2>2
<1> QED
  BY <1>2, <1>3

\* The ends of a leg.
LEMMA LegEnds ==
  ASSUME NEW E, Plain(E), NEW o \in Legs(E)
  PROVE  /\ o.edge \in E
         /\ Ends(o.edge) = {FirstVertex(edges, o), SecondVertex(edges, o)}
         /\ FirstVertex(edges, o) # SecondVertex(edges, o)
         /\ o.edge \in EdgesAt(E, FirstVertex(edges, o))
         /\ o.edge \in EdgesAt(E, SecondVertex(edges, o))
         /\ SameEdge(edges[o.edge], <<FirstVertex(edges, o), SecondVertex(edges, o)>>)
<1>1. o.edge \in E /\ o.reverse \in BOOLEAN
  BY DEF Legs
<1> DEFINE e == o.edge
           a == edges[e][1]
           b == edges[e][2]
<1>2. a # b /\ edges[e] = <<a, b>> /\ Ends(e) = {a, b}
  BY <1>1 DEF Plain, Ends
<1>3. \/ FirstVertex(edges, o) = a /\ SecondVertex(edges, o) = b
      \/ FirstVertex(edges, o) = b /\ SecondVertex(edges, o) = a
  BY <1>1 DEF FirstVertex, SecondVertex
<1>4. e \in EdgesAt(E, a) /\ e \in EdgesAt(E, b)
  BY <1>1 DEF EdgesAt
<1> HIDE DEF a, b
<1>5. SameEdge(<<a, b>>, <<a, b>>) /\ SameEdge(<<a, b>>, <<b, a>>)
  BY SameEdgePairs
<1> QED
  BY <1>1, <1>2, <1>3, <1>4, <1>5

(* A path whose legs follow each other, over different edges and vertices. *)
Trail(E, e, p) ==
  /\ p \in Seq(Legs(E)) /\ Len(p) > 0
  /\ p[1].edge = e
  /\ \A i \in 2 .. Len(p) : FirstVertex(edges, p[i]) = SecondVertex(edges, p[i - 1])
  /\ \A i, j \in 1 .. Len(p) :
       i # j => p[i].edge # p[j].edge /\ FirstVertex(edges, p[i]) # FirstVertex(edges, p[j])

\* A vertex of a trail where it ends is the one where it starts.
LEMMA BackToStart ==
  ASSUME NEW E, Plain(E), IsLoop(E), NEW e, NEW p, Trail(E, e, p), NEW j \in 1 .. Len(p),
         FirstVertex(edges, p[j]) = SecondVertex(edges, p[Len(p)])
  PROVE  j = 1
<1> DEFINE m == Len(p)
           v == SecondVertex(edges, p[m])
<1>1. /\ p \in Seq(Legs(E)) /\ m \in Nat /\ m > 0
      /\ \A i \in 1 .. m : p[i] \in Legs(E)
      /\ \A i \in 2 .. m : FirstVertex(edges, p[i]) = SecondVertex(edges, p[i - 1])
      /\ \A i, k \in 1 .. m : i # k => p[i].edge # p[k].edge
  BY LenProperties, ElementOfSeq DEF Trail
<1> HIDE DEF m
<1> SUFFICES ASSUME j # 1
             PROVE  FALSE
  OBVIOUS
<1>2. j \in 2 .. m /\ j - 1 \in 1 .. m /\ j \in 1 .. m /\ m \in 1 .. m /\ j - 1 # j /\ j - 1 # m
  BY <1>1 DEF m
<1>3. FirstVertex(edges, p[j]) = v
  BY DEF m
<1>4. /\ p[j].edge \in EdgesAt(E, FirstVertex(edges, p[j]))
      /\ p[j - 1].edge \in EdgesAt(E, SecondVertex(edges, p[j - 1]))
      /\ p[m].edge \in EdgesAt(E, v)
      /\ FirstVertex(edges, p[m]) # v
  BY <1>1, <1>2, LegEnds
<1>5. SecondVertex(edges, p[j - 1]) = v
  BY <1>1, <1>2, <1>3
<1>6. p[j].edge # p[j - 1].edge /\ p[j - 1].edge # p[m].edge
  BY <1>1, <1>2
<1>7. j # m
  BY <1>3, <1>4
<1>8. p[j].edge # p[m].edge
  BY <1>1, <1>2, <1>7
<1>9. IsFiniteSet(E)
  BY DEF Plain
<1> HIDE DEF v
<1> QED
  BY <1>3, <1>4, <1>5, <1>6, <1>8, <1>9, TwoEdgesAt

\* An edge at the end of a trail that is on the trail, and not the last one,
\* is the first one, and the trail ends where it starts.
LEMMA EdgeMetAgain ==
  ASSUME NEW E, Plain(E), IsLoop(E), NEW e, NEW p, Trail(E, e, p), NEW j \in 1 .. Len(p),
         SecondVertex(edges, p[Len(p)]) \in Ends(p[j].edge), p[j].edge # p[Len(p)].edge
  PROVE  p[j].edge = e /\ FirstVertex(edges, p[1]) = SecondVertex(edges, p[Len(p)])
<1> DEFINE m == Len(p)
           v == SecondVertex(edges, p[m])
<1>1. /\ p \in Seq(Legs(E)) /\ m \in Nat /\ m > 0
      /\ \A i \in 1 .. m : p[i] \in Legs(E)
      /\ \A i \in 2 .. m : FirstVertex(edges, p[i]) = SecondVertex(edges, p[i - 1])
      /\ p[1].edge = e
  BY LenProperties, ElementOfSeq DEF Trail
<1>2. v \in {FirstVertex(edges, p[j]), SecondVertex(edges, p[j])}
  BY <1>1, LegEnds
<1>3. j # m
  OBVIOUS
<1> HIDE DEF m
<1>4. j \in 1 .. m /\ j + 1 \in 2 .. m /\ j + 1 \in 1 .. m /\ (j + 1) - 1 = j /\ 1 \in 1 .. m
  BY <1>1, <1>3 DEF m
<1>5. ASSUME SecondVertex(edges, p[j]) = v
      PROVE  FALSE
  <2>1. FirstVertex(edges, p[j + 1]) = v
    BY <1>1, <1>4, <1>5
  <2>2. j + 1 = 1
    BY <1>4, <2>1, BackToStart DEF m
  <2> QED
    BY <1>4, <2>2
<1>6. FirstVertex(edges, p[j]) = v
  BY <1>2, <1>5
<1>7. j = 1
  BY <1>4, <1>6, BackToStart DEF m
<1> QED
  BY <1>1, <1>6, <1>7 DEF m

\* A trail taken further, but not along its first edge, is a trail.
LEMMA TrailLonger ==
  ASSUME NEW E, Plain(E), IsLoop(E), NEW e, NEW p, Trail(E, e, p),
         NEW o \in Following(E, p), o.edge # e
  PROVE  Trail(E, e, Append(p, o))
<1> DEFINE m == Len(p)
           v == SecondVertex(edges, p[m])
           q == Append(p, o)
<1>1. /\ p \in Seq(Legs(E)) /\ m \in Nat /\ m > 0
      /\ \A i \in 1 .. m : p[i] \in Legs(E)
      /\ p[1].edge = e
      /\ \A i \in 2 .. m : FirstVertex(edges, p[i]) = SecondVertex(edges, p[i - 1])
      /\ \A i, j \in 1 .. m :
           i # j => p[i].edge # p[j].edge /\ FirstVertex(edges, p[i]) # FirstVertex(edges, p[j])
  BY LenProperties, ElementOfSeq DEF Trail
<1>2. /\ o \in Legs(E) /\ o.edge # p[m].edge /\ FirstVertex(edges, o) = v /\ v \in Ends(o.edge)
  BY FollowingLegs
<1>3. q \in Seq(Legs(E)) /\ Len(q) = m + 1 /\ q[m + 1] = o /\ \A i \in 1 .. m : q[i] = p[i]
  BY <1>1, <1>2, AppendProperties
<1> HIDE DEF m, q
<1>4. ASSUME NEW j \in 1 .. m
      PROVE  o.edge # p[j].edge
  <2> SUFFICES ASSUME o.edge = p[j].edge
               PROVE  FALSE
    OBVIOUS
  <2>1. v \in Ends(p[j].edge) /\ p[j].edge # p[m].edge
    BY <1>2
  <2>2. p[j].edge = e
    BY <2>1, EdgeMetAgain DEF m
  <2> QED
    BY <2>2
<1>5. ASSUME NEW j \in 1 .. m
      PROVE  FirstVertex(edges, o) # FirstVertex(edges, p[j])
  <2> SUFFICES ASSUME FirstVertex(edges, p[j]) = v
               PROVE  FALSE
    BY <1>2
  <2>1. j = 1
    BY BackToStart DEF m
  <2>2. e \in EdgesAt(E, v) /\ p[m].edge \in EdgesAt(E, v) /\ FirstVertex(edges, p[m]) # v
    <3>1. m \in 1 .. m /\ 1 \in 1 .. m
      BY <1>1
    <3> QED
      BY <1>1, <2>1, <3>1, LegEnds
  <2>3. m # 1
    BY <2>1, <2>2
  <2>4. e # p[m].edge
    <3>1. m \in 1 .. m /\ 1 \in 1 .. m
      BY <1>1
    <3> QED
      BY <1>1, <2>3, <3>1
  <2>5. o.edge \in EdgesAt(E, v)
    BY <1>2, LegEnds
  <2>6. IsFiniteSet(E)
    BY DEF Plain
  <2> HIDE DEF v
  <2> QED
    BY <1>2, <2>2, <2>4, <2>5, <2>6, TwoEdgesAt
<1>6. ASSUME NEW i \in 2 .. m + 1
      PROVE  FirstVertex(edges, q[i]) = SecondVertex(edges, q[i - 1])
  <2>1. CASE i = m + 1
    <3>1. i - 1 = m /\ m \in 1 .. m
      BY <1>1, <2>1
    <3> QED
      BY <1>2, <1>3, <2>1, <3>1
  <2>2. CASE i # m + 1
    <3>1. i \in 2 .. m /\ i \in 1 .. m /\ i - 1 \in 1 .. m
      BY <1>1, <2>2
    <3> QED
      BY <1>1, <1>3, <3>1
  <2> QED
    BY <2>1, <2>2
<1>7. ASSUME NEW i \in 1 .. m + 1, NEW j \in 1 .. m + 1, i # j
      PROVE  q[i].edge # q[j].edge /\ FirstVertex(edges, q[i]) # FirstVertex(edges, q[j])
  <2>1. \A k \in 1 .. m + 1 : k \in 1 .. m \/ k = m + 1
    BY <1>1
  <2>2. CASE i \in 1 .. m /\ j \in 1 .. m
    BY <1>1, <1>3, <1>7, <2>2
  <2>3. CASE i \in 1 .. m /\ j = m + 1
    BY <1>3, <1>4, <1>5, <2>3
  <2>4. CASE i = m + 1 /\ j \in 1 .. m
    BY <1>3, <1>4, <1>5, <2>4
  <2> QED
    BY <1>7, <2>1, <2>2, <2>3, <2>4
<1>8. m + 1 > 0 /\ q[1].edge = e
  BY <1>1, <1>3
<1> QED
  BY <1>3, <1>6, <1>7, <1>8 DEF Trail, q

\* There is no dead end in a loop.
LEMMA TrailGoesOn ==
  ASSUME NEW E, Plain(E), IsLoop(E), NEW e, NEW p, Trail(E, e, p)
  PROVE  Following(E, p) # {} /\ ~ HasTwin(E, p)
<1> DEFINE m == Len(p)
           o == p[m]
           v == SecondVertex(edges, o)
<1>1. o \in Legs(E)
  BY LenProperties, ElementOfSeq DEF Trail
<1>2. o.edge \in EdgesAt(E, v) /\ o.edge \in E
  BY <1>1, LegEnds
<1> HIDE DEF v
<1>3. PICK b \in EdgesAt(E, v) : b # o.edge
  BY <1>2, TwoEdgesAt DEF Plain
<1>4. [edge |-> b, reverse |-> edges[b][1] # v] \in Following(E, p)
  BY <1>3 DEF Following, v
<1>5. ~ HasTwin(E, p)
  BY <1>2 DEF HasTwin, Plain
<1> QED
  BY <1>4, <1>5

\* The path that has one edge only.
LEMMA TrailStarts ==
  ASSUME NEW E, NEW e \in E
  PROVE  Trail(E, e, StartPath(e))
<1> DEFINE o == [edge |-> e, reverse |-> FALSE]
<1>1. o \in Legs(E) /\ o.edge = e
  BY DEF Legs
<1> HIDE DEF o
<1>2. <<o>> \in Seq(Legs(E)) /\ Len(<<o>>) = 1 /\ <<o>>[1] = o
  BY <1>1
<1>3. Trail(E, e, <<o>>)
  BY <1>1, <1>2 DEF Trail
<1> QED
  BY <1>3 DEF StartPath, o

(* The place after i, on a path of m edges that is closed. *)
After(m, i) == (i % m) + 1

(***************************************************************************)
(* A path that goes over all edges of E and comes back to where it starts, *)
(* after as many different vertices as it has edges.                       *)
(***************************************************************************)
ClosedPath(E, p) ==
  /\ p \in Seq(Legs(E)) /\ Len(p) > 0
  /\ EdgeSet(p) = E
  /\ \A i \in 1 .. Len(p) : FirstVertex(edges, p[After(Len(p), i)]) = SecondVertex(edges, p[i])
  /\ \A i, j \in 1 .. Len(p) : i # j => SecondVertex(edges, p[i]) # SecondVertex(edges, p[j])

\* The place after a place.
LEMMA PlaceAfter ==
  ASSUME NEW m \in Nat, m > 0, NEW i \in 1 .. m
  PROVE  /\ After(m, i) \in 1 .. m
         /\ After(m, i) = IF i = m THEN 1 ELSE i + 1
<1>1. CASE i = m
  <2>1. m % m = 0
    OBVIOUS
  <2> QED
    BY <1>1, <2>1 DEF After
<1>2. CASE i # m
  <2>1. i \in 0 .. m - 1
    BY <1>2
  <2>2. i % m = i
    BY <2>1
  <2> QED
    BY <1>2, <2>1, <2>2 DEF After
<1> QED
  BY <1>1, <1>2

\* A trail that comes back to its start has two of the edges at each of its
\* vertices, so that it has all the edges of a loop that is connected.
LEMMA TrailCloses ==
  ASSUME NEW E, Plain(E), IsLoop(E), Connected(E), NEW e, NEW p, Trail(E, e, p),
         FirstVertex(edges, p[1]) = SecondVertex(edges, p[Len(p)])
  PROVE  ClosedPath(E, p)
<1> DEFINE m == Len(p)
           first(i) == FirstVertex(edges, p[i])
           second(i) == SecondVertex(edges, p[i])
<1>1. /\ p \in Seq(Legs(E)) /\ m \in Nat /\ m > 0 /\ DOMAIN p = 1 .. m
      /\ \A i \in 1 .. m : p[i] \in Legs(E)
      /\ \A i \in 2 .. m : first(i) = second(i - 1)
      /\ \A i, j \in 1 .. m : i # j => p[i].edge # p[j].edge /\ first(i) # first(j)
      /\ first(1) = second(m)
  BY LenProperties, ElementOfSeq DEF Trail
<1> HIDE DEF m
<1>2. \A i \in 1 .. m : /\ p[i].edge \in E /\ Ends(p[i].edge) = {first(i), second(i)} /\ first(i) # second(i)
                        /\ p[i].edge \in EdgesAt(E, first(i)) /\ p[i].edge \in EdgesAt(E, second(i))
  BY <1>1, LegEnds
<1> HIDE DEF first, second
<1>3. ASSUME NEW i \in 1 .. m
      PROVE  first(After(m, i)) = second(i) /\ After(m, i) \in 1 .. m
  <2>1. CASE i = m
    BY <1>1, <2>1, PlaceAfter
  <2>2. CASE i # m
    <3>1. After(m, i) = i + 1 /\ After(m, i) \in 1 .. m /\ i + 1 \in 2 .. m /\ (i + 1) - 1 = i
      BY <1>1, <2>2, PlaceAfter
    <3> QED
      BY <1>1, <3>1
  <2> QED
    BY <2>1, <2>2
<1>4. \A i \in 1 .. m : After(m, i) # i
  BY <1>2, <1>3
<1>5. ASSUME NEW i \in 1 .. m, NEW j \in 1 .. m, i # j, second(i) = second(j)
      PROVE  FALSE
  <2>1. first(After(m, i)) = first(After(m, j)) /\ After(m, i) \in 1 .. m /\ After(m, j) \in 1 .. m
    BY <1>3, <1>5
  <2>2. After(m, i) = After(m, j)
    BY <1>1, <2>1
  <2>3. After(m, i) = (IF i = m THEN 1 ELSE i + 1) /\ After(m, j) = (IF j = m THEN 1 ELSE j + 1)
    BY <1>1, PlaceAfter
  <2> QED
    BY <1>1, <1>5, <2>2, <2>3
<1>6. \A d : d \in EdgeSet(p) <=> \E i \in 1 .. m : d = p[i].edge
  BY <1>1 DEF EdgeSet
<1>7. IsFiniteSet(E)
  BY DEF Plain
<1>8. ASSUME NEW i \in 1 .. m, NEW d \in EdgesAt(E, second(i))
      PROVE  d \in EdgeSet(p)
  <2>1. /\ p[i].edge \in EdgesAt(E, second(i)) /\ p[After(m, i)].edge \in EdgesAt(E, second(i))
        /\ After(m, i) \in 1 .. m
    BY <1>2, <1>3
  <2>2. p[i].edge # p[After(m, i)].edge
    BY <1>1, <1>4, <2>1
  <2>3. d = p[i].edge \/ d = p[After(m, i)].edge
    BY <1>7, <1>8, <2>1, <2>2, TwoEdgesAt
  <2> QED
    BY <1>6, <2>1, <2>3
<1>9. ASSUME NEW i \in 1 .. m
      PROVE  \E j \in 1 .. m : first(i) = second(j)
  <2>1. CASE i = 1
    <3>1. m \in 1 .. m
      BY <1>1
    <3> QED
      BY <1>1, <2>1, <3>1
  <2>2. CASE i # 1
    <3>1. i \in 2 .. m /\ i - 1 \in 1 .. m
      BY <1>1, <2>2
    <3> QED
      BY <1>1, <3>1
  <2> QED
    BY <2>1, <2>2
<1>10. ClosedIn(E, EdgeSet(p))
  <2>1. EdgeSet(p) \subseteq E
    BY <1>2, <1>6
  <2>2. ASSUME NEW q \in EdgeSet(p), NEW d \in E, NEW v \in Ends(q) \cap Ends(d)
        PROVE  d \in EdgeSet(p)
    <3>1. PICK i \in 1 .. m : q = p[i].edge
      BY <1>6
    <3>2. v = first(i) \/ v = second(i)
      BY <1>2, <3>1
    <3>3. PICK j \in 1 .. m : v = second(j)
      BY <1>9, <3>2
    <3>4. d \in EdgesAt(E, v)
      BY DEF EdgesAt, Ends
    <3> QED
      BY <1>8, <3>3, <3>4
  <2> QED
    BY <2>1, <2>2 DEF ClosedIn
<1>11. EdgeSet(p) = E
  <2>1. p[1].edge \in EdgeSet(p)
    <3>1. 1 \in 1 .. m
      BY <1>1
    <3> QED
      BY <1>6, <3>1
  <2> QED
    BY <1>10, <2>1 DEF Connected
<1> QED
  BY <1>1, <1>3, <1>5, <1>11 DEF ClosedPath, first, second, m

\* A path that stops has come back to its start.
LEMMA EndedTrailCloses ==
  ASSUME NEW E, Plain(E), IsLoop(E), Connected(E), NEW e, NEW p, Trail(E, e, p), Ended(E, p)
  PROVE  ClosedPath(E, p)
<1> DEFINE m == Len(p)
           v == SecondVertex(edges, p[m])
<1>1. /\ p \in Seq(Legs(E)) /\ m \in Nat /\ m > 0 /\ DOMAIN p = 1 .. m
      /\ \A i \in 1 .. m : p[i] \in Legs(E)
      /\ \A i, j \in 1 .. m : i # j => p[i].edge # p[j].edge
  BY LenProperties, ElementOfSeq DEF Trail
<1>2. p # <<>>
  BY <1>1
<1>3. PICK o \in Following(E, p) : o.edge = p[1].edge \/ m = Cardinality(E)
  BY <1>2 DEF Ended
<1>4. o \in Legs(E) /\ o.edge # p[m].edge /\ v \in Ends(o.edge)
  BY FollowingLegs
<1> HIDE DEF m
<1>5. \E j \in 1 .. m : o.edge = p[j].edge
  <2>1. CASE o.edge = p[1].edge
    <3>1. 1 \in 1 .. m
      BY <1>1
    <3> QED
      BY <2>1, <3>1
  <2>2. CASE m = Cardinality(E)
    <3> DEFINE f == [i \in 1 .. m |-> p[i].edge]
    <3>1. \A i \in 1 .. m : p[i].edge \in E
      BY <1>1 DEF Legs
    <3>2. f \in Injection(1 .. m, E)
      BY <1>1, <3>1 DEF Injection, IsInjective
    <3>3. IsFiniteSet(E) /\ IsFiniteSet(1 .. m) /\ Cardinality(1 .. m) = m
      BY <1>1, FS_Interval, CountPlaces DEF Plain
    <3> HIDE DEF f
    <3>4. f \in Surjection(1 .. m, E)
      BY <2>2, <3>2, <3>3, FS_Injection
    <3>5. o.edge \in E
      BY <1>4 DEF Legs
    <3>6. \E j \in 1 .. m : f[j] = o.edge
      BY <3>4, <3>5 DEF Surjection
    <3> QED
      BY <3>6 DEF f
  <2> QED
    BY <1>3, <2>1, <2>2
<1>6. PICK j \in 1 .. m : o.edge = p[j].edge
  BY <1>5
<1>7. FirstVertex(edges, p[1]) = v
  BY <1>4, <1>6, EdgeMetAgain DEF m
<1> QED
  BY <1>7, TrailCloses DEF m

\* All paths found in a loop are closed.
LEMMA PathsClose ==
  ASSUME NEW E, Plain(E), IsLoop(E), Connected(E), NEW e \in E, NEW p \in PathsFrom(E, e)
  PROVE  ClosedPath(E, p)
<1> DEFINE Q == {q \in Seq(Legs(E)) : Trail(E, e, q)}
<1>1. \A q : q \in Q <=> Trail(E, e, q)
  BY DEF Trail
<1> HIDE DEF Q
<1>2. StartPath(e) \in Q
  BY <1>1, TrailStarts
<1>3. \A q \in Q : \A o \in Following(E, q) : o.edge # e => Append(q, o) \in Q
  BY <1>1, TrailLonger
<1>4. \A q \in Q : Following(E, q) # {} /\ ~ HasTwin(E, q)
  BY <1>1, TrailGoesOn
<1>5. IsFiniteSet(E)
  BY DEF Plain
<1>6. \/ p = <<>> /\ \E q \in Q : Following(E, q) = {} \/ HasTwin(E, q)
      \/ p \in Q /\ Following(E, p) # {} /\ Ended(E, p)
  BY <1>2, <1>3, <1>5, PathInduction
<1>7. p \in Q /\ Ended(E, p)
  BY <1>4, <1>6
<1> QED
  BY <1>1, <1>7, EndedTrailCloses

\* A closed path is still closed when it is run along backwards.
LEMMA FlippedCloses ==
  ASSUME NEW E, Plain(E), NEW p, ClosedPath(E, p)
  PROVE  ClosedPath(E, Flipped(p))
<1> DEFINE m == Len(p)
           q == Flipped(p)
           back(k) == m + 1 - k
           first(i) == FirstVertex(edges, p[i])
           second(i) == SecondVertex(edges, p[i])
<1>1. /\ p \in Seq(Legs(E)) /\ m \in Nat /\ m > 0 /\ EdgeSet(p) = E /\ DOMAIN p = 1 .. m
      /\ \A i \in 1 .. m : first(After(m, i)) = second(i)
      /\ \A i, j \in 1 .. m : i # j => second(i) # second(j)
  BY LenProperties DEF ClosedPath
<1>2. /\ q \in Seq(Legs(E)) /\ Len(q) = m /\ DOMAIN q = 1 .. m
      /\ \A k \in 1 .. m : /\ back(k) \in 1 .. m /\ q[k].edge = p[back(k)].edge
                           /\ FirstVertex(edges, q[k]) = second(back(k))
                           /\ SecondVertex(edges, q[k]) = first(back(k))
  <2>1. /\ q \in Seq(Legs(E)) /\ Len(q) = m
        /\ \A k \in 1 .. m : /\ back(k) \in 1 .. m /\ q[k].edge = p[back(k)].edge
                             /\ FirstVertex(edges, q[k]) = second(back(k))
                             /\ SecondVertex(edges, q[k]) = first(back(k))
    BY <1>1, FlippedPath DEF Legs
  <2> HIDE DEF q, m
  <2> QED
    BY <2>1, LenProperties
<1> HIDE DEF m, q, first, second
<1>3. \A k \in 1 .. m : back(k) \in 1 .. m /\ back(back(k)) = k
  BY <1>1
<1>4. ASSUME NEW k \in 1 .. m
      PROVE  first(back(k)) = second(back(After(m, k)))
  <2> DEFINE j == back(After(m, k))
  <2>1. After(m, k) \in 1 .. m /\ After(m, k) = IF k = m THEN 1 ELSE k + 1
    BY <1>1, PlaceAfter
  <2>2. j \in 1 .. m
    BY <1>3, <2>1
  <2>3. j = IF k = m THEN m ELSE m - k
    BY <1>1, <2>1
  <2> HIDE DEF j
  <2>4. After(m, j) = IF j = m THEN 1 ELSE j + 1
    BY <1>1, <2>2, PlaceAfter
  <2>5. After(m, j) = back(k)
    BY <1>1, <2>3, <2>4
  <2>6. first(After(m, j)) = second(j)
    BY <1>1, <2>2
  <2> QED
    BY <2>5, <2>6 DEF j
<1>5. ASSUME NEW i \in 1 .. m
      PROVE  \E k \in 1 .. m : first(i) = second(k) /\ After(m, k) = i
  <2> DEFINE k == IF i = 1 THEN m ELSE i - 1
  <2>1. k \in 1 .. m /\ i = IF k = m THEN 1 ELSE k + 1
    BY <1>1
  <2> HIDE DEF k
  <2>2. After(m, k) = i
    BY <1>1, <2>1, PlaceAfter
  <2>3. first(i) = second(k)
    BY <1>1, <2>1, <2>2
  <2> QED
    BY <2>1, <2>2, <2>3
<1>6. ASSUME NEW i \in 1 .. m, NEW j \in 1 .. m, i # j
      PROVE  first(i) # first(j)
  <2>1. PICK k \in 1 .. m : first(i) = second(k) /\ After(m, k) = i
    BY <1>5
  <2>2. PICK l \in 1 .. m : first(j) = second(l) /\ After(m, l) = j
    BY <1>5
  <2>3. k # l
    BY <1>6, <2>1, <2>2
  <2> QED
    BY <1>1, <2>1, <2>2, <2>3
<1>7. EdgeSet(q) = E
  <2>1. \A d : d \in EdgeSet(q) <=> \E k \in 1 .. m : d = q[k].edge
    BY <1>2 DEF EdgeSet
  <2>2. \A d : d \in EdgeSet(p) <=> \E k \in 1 .. m : d = p[k].edge
    BY <1>1 DEF EdgeSet
  <2> HIDE DEF back
  <2>3. \A d : d \in EdgeSet(q) <=> d \in EdgeSet(p)
    <3>1. \A k \in 1 .. m : q[k].edge = p[back(k)].edge /\ q[back(k)].edge = p[k].edge
      BY <1>2, <1>3
    <3> QED
      BY <1>3, <2>1, <2>2, <3>1
  <2> QED
    BY <1>1, <2>3
<1>8. ASSUME NEW i \in 1 .. m
      PROVE  FirstVertex(edges, q[After(m, i)]) = SecondVertex(edges, q[i])
  <2>1. After(m, i) \in 1 .. m
    BY <1>1, PlaceAfter
  <2> HIDE DEF back
  <2> QED
    BY <1>2, <1>4, <2>1
<1>9. ASSUME NEW i \in 1 .. m, NEW j \in 1 .. m, i # j
      PROVE  SecondVertex(edges, q[i]) # SecondVertex(edges, q[j])
  <2>1. back(i) # back(j)
    BY <1>1, <1>9
  <2> HIDE DEF back
  <2> QED
    BY <1>2, <1>6, <2>1
<1> HIDE DEF back
<1> QED
  BY <1>1, <1>2, <1>7, <1>8, <1>9 DEF ClosedPath, q

\* All contours found in a loop are closed.
LEMMA ContoursClose ==
  ASSUME NEW E, E # {}, Plain(E), IsLoop(E), Connected(E), NEW c \in Contours(E)
  PROVE  ClosedPath(E, c)
<1> DEFINE found == UNION {PathsFrom(E, e) : e \in E}
<1>1. \A p \in found : ClosedPath(E, p)
  BY PathsClose
<1>2. \A p \in found : ClosedPath(E, Flipped(p))
  BY <1>1, FlippedCloses
<1>3. Cardinality(E) # 1
  <2>1. PICK e \in E : TRUE
    OBVIOUS
  <2> DEFINE v == edges[e][1]
  <2>2. e \in EdgesAt(E, v)
    BY DEF EdgesAt
  <2>3. PICK b \in EdgesAt(E, v) : b # e
    BY <2>2, TwoEdgesAt DEF Plain
  <2>4. b \in E /\ e \in E /\ b # e
    BY <2>3 DEF EdgesAt
  <2>5. IsFiniteSet(E) /\ IsFiniteSet({e}) /\ Cardinality({e}) = 1
    BY FS_Singleton DEF Plain
  <2>6. {e} \in SUBSET E /\ {e} # E
    BY <2>4
  <2> QED
    BY <2>5, <2>6, FS_Subset
<1>4. c \in found \/ \E p \in found : c = Flipped(p)
  BY <1>3 DEF Contours
<1> HIDE DEF found
<1> QED
  BY <1>1, <1>2, <1>4

-----------------------------------------------------------------------------
(* The facets that close the contour.                                       *)

(* A polygon with the vertices and the edges of E, each once. *)
Closes(f, E) ==
  /\ {f[j] : j \in DOMAIN f} = NodesOf(E)
  /\ IsInjective(f)
  /\ \A k \in DOMAIN Sides(f) : \E e \in E : SameEdge(edges[e], Sides(f)[k])

\* The facet of a closed path goes over its edges.
LEMMA ClosedPathCloses ==
  ASSUME NEW E, Plain(E), NEW p, ClosedPath(E, p)
  PROVE  Closes(FacetVertices(edges, p), E)
<1> DEFINE m == Len(p)
           first(i) == FirstVertex(edges, p[i])
           second(i) == SecondVertex(edges, p[i])
           new == {k \in DOMAIN p : \A i \in 1 .. k - 1 : second(i) # second(k)}
           f == FacetVertices(edges, p)
<1>1. /\ p \in Seq(Legs(E)) /\ m \in Nat /\ m > 0 /\ DOMAIN p = 1 .. m
      /\ \A i \in 1 .. m : p[i] \in Legs(E)
      /\ \A i \in 1 .. m : first(After(m, i)) = second(i)
      /\ \A i, j \in 1 .. m : i # j => second(i) # second(j)
      /\ EdgeSet(p) = E
  BY LenProperties, ElementOfSeq DEF ClosedPath
<1>2. new = 1 .. m
  <2> HIDE DEF m
  <2>1. \A k \in 1 .. m : \A i \in 1 .. k - 1 : i \in 1 .. m /\ i # k
    BY <1>1
  <2> QED
    BY <1>1, <2>1
<1>3. f = [k \in 1 .. Cardinality(new) |-> IF k \in new THEN second(k) ELSE 1]
  BY DEF FacetVertices
<1>4. \A i \in 1 .. m : /\ p[i].edge \in E /\ Ends(p[i].edge) = {first(i), second(i)}
                        /\ SameEdge(edges[p[i].edge], <<first(i), second(i)>>)
  BY <1>1, LegEnds
<1> HIDE DEF f, new, m, second, first
<1>5. f = [k \in 1 .. m |-> second(k)] /\ DOMAIN f = 1 .. m
  <2>1. Cardinality(new) = m
    BY <1>1, <1>2, CountPlaces
  <2> QED
    BY <1>2, <1>3, <2>1
<1>6. f = [k \in 1 .. m |-> f[k]] /\ \A k \in 1 .. m : f[k] = second(k)
  BY <1>5
<1>7. Len(f) = m
  BY <1>1, <1>6, ListOfLength
<1>8. ASSUME NEW i \in 1 .. m
      PROVE  After(m, i) \in 1 .. m /\ \E j \in 1 .. m : first(i) = second(j)
  <2>1. After(m, i) \in 1 .. m
    BY <1>1, PlaceAfter
  <2> DEFINE j == IF i = 1 THEN m ELSE i - 1
  <2>2. j \in 1 .. m /\ i = IF j = m THEN 1 ELSE j + 1
    BY <1>1
  <2> HIDE DEF j
  <2>3. After(m, j) = i
    BY <1>1, <2>2, PlaceAfter
  <2> QED
    BY <1>1, <2>1, <2>2, <2>3
<1>9. \A d : d \in E <=> \E i \in 1 .. m : d = p[i].edge
  BY <1>1 DEF EdgeSet
<1>10. \A v : v \in NodesOf(E) <=> \E k \in 1 .. m : v = second(k)
  <2>1. \A v : v \in NodesOf(E) <=> \E d \in E : v \in Ends(d)
    BY DEF NodesOf, Ends
  <2>2. ASSUME NEW v, NEW d \in E, v \in Ends(d)
        PROVE  \E k \in 1 .. m : v = second(k)
    <3>1. PICK i \in 1 .. m : d = p[i].edge
      BY <1>9
    <3>2. v = first(i) \/ v = second(i)
      BY <1>4, <2>2, <3>1
    <3> QED
      BY <1>8, <3>2
  <2>3. ASSUME NEW k \in 1 .. m
        PROVE  \E d \in E : second(k) \in Ends(d)
    BY <1>4
  <2> QED
    BY <2>1, <2>2, <2>3
<1>11. {f[j] : j \in DOMAIN f} = NodesOf(E)
  BY <1>5, <1>6, <1>10
<1>12. IsInjective(f)
  BY <1>1, <1>5, <1>6 DEF IsInjective
<1>13. ASSUME NEW k \in DOMAIN Sides(f)
       PROVE  \E e \in E : SameEdge(edges[e], Sides(f)[k])
  <2>1. k \in 1 .. m /\ Sides(f)[k] = <<f[k], f[After(m, k)]>>
    BY <1>5, <1>7, <1>13 DEF Sides, After
  <2>2. Sides(f)[k] = <<first(After(m, k)), second(After(m, k))>>
    BY <1>1, <1>6, <1>8, <2>1
  <2> QED
    BY <1>4, <1>8, <2>1, <2>2
<1> QED
  BY <1>11, <1>12, <1>13 DEF Closes, f

\* A facet made of a path has a vertex of the edges of the path.
LEMMA FacetTouches ==
  ASSUME NEW E, NEW p \in Seq(Legs(E)), p # <<>>
  PROVE  \E j \in DOMAIN FacetVertices(edges, p) : FacetVertices(edges, p)[j] \in NodesOf(E)
<1> DEFINE m == Len(p)
           second(i) == SecondVertex(edges, p[i])
           new == {k \in DOMAIN p : \A i \in 1 .. k - 1 : second(i) # second(k)}
           f == FacetVertices(edges, p)
<1>1. m \in Nat /\ m > 0 /\ DOMAIN p = 1 .. m
  BY LenProperties, EmptySeq
<1>2. p[1] \in Legs(E)
  BY <1>1, ElementOfSeq
<1>3. second(1) \in NodesOf(E)
  <2>1. p[1].edge \in E
    BY <1>2 DEF Legs
  <2> QED
    BY <2>1 DEF NodesOf, SecondVertex
<1>4. 1 \in new /\ new \in SUBSET (1 .. m)
  BY <1>1
<1>5. f = [k \in 1 .. Cardinality(new) |-> IF k \in new THEN second(k) ELSE 1]
  BY DEF FacetVertices
<1> HIDE DEF new, m, f, second
<1>6. Cardinality(new) \in Nat /\ Cardinality(new) # 0
  <2>1. IsFiniteSet(new) /\ Cardinality(new) \in Nat
    BY <1>1, <1>4, PlacesSubset
  <2>2. new # {}
    BY <1>4
  <2> QED
    BY <2>1, <2>2, FS_EmptySet
<1>7. 1 \in DOMAIN f /\ f[1] = second(1)
  BY <1>4, <1>5, <1>6
<1> QED
  BY <1>3, <1>7 DEF f

\* build_closing_edge: each loop gets a facet of its own.
LEMMA LoopsGetFacets ==
  ASSUME NEW n \in Nat, surfaceEdges \in SUBSET (1 .. n), Plain(surfaceEdges),
         IsList(facets), surface = <<>>,
         NEW contours,
         \A k \in DOMAIN Components(surfaceEdges) : contours[k] \in Contours(Components(surfaceEdges)[k]),
         AddFacets(contours, Len(Components(surfaceEdges))),
         NEW k \in DOMAIN Components(surfaceEdges), IsLoop(Components(surfaceEdges)[k])
  PROVE  Cardinality({j \in DOMAIN surface' : Closes(facets'[surface'[j]], Components(surfaceEdges)[k])}) = 1
<1> DEFINE parts == Components(surfaceEdges)
           N == Len(parts)
           some == {i \in 1 .. N : contours[i] # <<>>}
           m == Cardinality(some)
           added == [i \in 1 .. m |-> FacetVertices(edges, contours[Nth(some, i)])]
           places == [i \in 1 .. m |-> Len(facets) + i]
           E == parts[k]
<1>1. N \in Nat /\ DOMAIN parts = 1 .. N
  <2>1. IsFiniteSet(surfaceEdges)
    BY DEF Plain
  <2> QED
    BY <2>1, ComponentsList
<1>2. /\ \A i \in 1 .. N : parts[i] \subseteq surfaceEdges /\ parts[i] # {} /\ Connected(parts[i])
      /\ \A i, j \in 1 .. N : i # j => NodesOf(parts[i]) \cap NodesOf(parts[j]) = {}
  BY <1>1, ComponentsApart
<1>3. facets' = facets \o added /\ surface' = surface \o places
  BY DEF AddFacets
<1>4. some \in SUBSET (1 .. N)
  OBVIOUS
<1>5. k \in 1 .. N /\ IsLoop(E) /\ \A i \in 1 .. N : contours[i] \in Contours(parts[i])
  BY <1>1
<1>6. \A i \in 1 .. N : Plain(parts[i]) /\ IsFiniteSet(parts[i])
  <2>1. \A P \in SUBSET surfaceEdges : IsFiniteSet(P)
    BY FS_Subset DEF Plain
  <2> HIDE DEF parts, N
  <2> QED
    BY <1>2, <2>1 DEF Plain
<1>7. added = [i \in 1 .. m |-> added[i]] /\ places = [i \in 1 .. m |-> places[i]]
  BY Zenon
<1>8. \A i \in some : i \in 1 .. N /\ contours[i] # <<>>
  OBVIOUS
<1>9. contours[k] # <<>> => k \in some
  BY <1>5
<1> HIDE DEF parts, N, some
<1>10. m \in Nat
  BY <1>1, <1>4, PlacesSubset, Zenon
<1>11. /\ \A i \in 1 .. m : Nth(some, i) \in some /\ RankIn(some, Nth(some, i)) = i
       /\ \A i \in some : RankIn(some, i) \in 1 .. m /\ Nth(some, RankIn(some, i)) = i
  BY <1>1, <1>4, Ranked
<1>12. \A i \in 1 .. m : added[i] = FacetVertices(edges, contours[Nth(some, i)]) /\ places[i] = Len(facets) + i
  OBVIOUS
<1> HIDE DEF added, places, m
<1>13. /\ IsList(added) /\ Len(added) = m /\ IsList(places) /\ Len(places) = m
  BY <1>7, <1>10, ListOfLength
<1>14. DOMAIN surface' = 1 .. m /\ \A j \in 1 .. m : surface'[j] = Len(facets) + j
  <2>1. <<>> = [i \in 1 .. 0 |-> i]
    OBVIOUS
  <2>2. IsList(<<>>) /\ Len(<<>>) = 0
    BY DEF IsList
  <2>3. /\ DOMAIN (<<>> \o places) = 1 .. Len(<<>>) + Len(places)
        /\ \A j \in 1 .. Len(<<>>) + Len(places) :
             (<<>> \o places)[j] = IF j <= Len(<<>>) THEN <<>>[j] ELSE places[j - Len(<<>>)]
    BY <1>13, <2>2, Joined
  <2>4. surface' = <<>> \o places
    BY <1>3
  <2>5. DOMAIN surface' = 1 .. 0 + m
    BY <1>13, <2>2, <2>3, <2>4
  <2>6. ASSUME NEW j \in 1 .. m
        PROVE  surface'[j] = places[j]
    <3>1. j \in 1 .. 0 + m /\ ~ (j <= 0) /\ j - 0 = j
      BY <1>10
    <3> QED
      BY <1>13, <2>2, <2>3, <2>4, <3>1
  <2> QED
    BY <1>10, <1>12, <2>5, <2>6
<1>15. ASSUME NEW j \in 1 .. m
       PROVE  facets'[surface'[j]] = FacetVertices(edges, contours[Nth(some, j)])
  <2> DEFINE l == Len(facets)
  <2>1. l \in Nat
    BY DEF IsList
  <2> HIDE DEF l
  <2>2. l + j \in 1 .. l + m /\ ~ (l + j <= l) /\ (l + j) - l = j
    BY <1>10, <2>1
  <2>3. (facets \o added)[l + j] = IF l + j <= l THEN facets[l + j] ELSE added[(l + j) - l]
    BY <1>13, <2>2, Joined DEF l
  <2>4. facets'[l + j] = added[j]
    BY <1>3, <2>2, <2>3
  <2> QED
    BY <1>12, <1>14, <2>4 DEF l
<1> DEFINE J == {j \in DOMAIN surface' : Closes(facets'[surface'[j]], E)}
           r == RankIn(some, k)
<1>16. ClosedPath(E, contours[k])
  BY <1>2, <1>5, <1>6, ContoursClose
<1>17. contours[k] # <<>>
  <2>1. contours[k] \in Seq(Legs(E)) /\ Len(contours[k]) > 0
    BY <1>16 DEF ClosedPath
  <2> QED
    BY <2>1, EmptySeq
<1>18. r \in 1 .. m /\ Nth(some, r) = k
  BY <1>9, <1>11, <1>17
<1> HIDE DEF r
<1>19. r \in J
  <2>1. Closes(FacetVertices(edges, contours[k]), E)
    BY <1>5, <1>6, <1>16, ClosedPathCloses
  <2> QED
    BY <1>14, <1>15, <1>18, <2>1
<1>20. ASSUME NEW j \in J
       PROVE  j = r
  <2> DEFINE i == Nth(some, j)
             f == FacetVertices(edges, contours[i])
  <2>1. j \in 1 .. m /\ Closes(facets'[surface'[j]], E)
    BY <1>14
  <2>2. i \in some /\ RankIn(some, i) = j /\ Closes(f, E)
    BY <1>11, <1>15, <2>1
  <2> HIDE DEF i
  <2>3. i \in 1 .. N /\ contours[i] # <<>>
    BY <1>8, <2>2
  <2>4. contours[i] \in Seq(Legs(parts[i]))
    BY <1>5, <1>6, <2>3, ContoursType
  <2>5. PICK x \in DOMAIN f : f[x] \in NodesOf(parts[i])
    BY <2>3, <2>4, FacetTouches
  <2>6. f[x] \in NodesOf(E)
    BY <2>2, <2>5 DEF Closes
  <2>7. i = k
    BY <1>2, <1>5, <2>3, <2>5, <2>6
  <2> QED
    BY <2>2, <2>7 DEF r
<1>21. J = {r}
  BY <1>19, <1>20
<1>22. Cardinality({r}) = 1
  BY FS_Singleton
<1> QED
  BY <1>21, <1>22 DEF parts

-----------------------------------------------------------------------------
(* The edges in the surface can be told apart by their ends.                *)

(* The vertices of a facet. *)
Corners(list, f) == {list[f][k] : k \in 1 .. 3}

(***************************************************************************)
(* Hulls no two facets of which have the same vertices: with two facets    *)
(* back to back, the edges that close the pieces of both have the same     *)
(* ends, and the contour goes from one to the other and back.              *)
(***************************************************************************)
SimpleHulls ==
  \A g \in Hulls : \A f, e \in DOMAIN g.facets : Corners(g.facets, f) = Corners(g.facets, e) => f = e

(* The vertices of the hull a vertex of the mesh is or is between. *)
Behind(h, zs, w) ==
  IF w <= h.vertices THEN {w}
  ELSE UNION {{h.edges[e][1], h.edges[e][2]} : e \in {d \in Crossing(h, zs) : NodeOf(h, zs, d) = w}}

\* The vertices behind the nodes of a facet and behind its ends in the surface.
LEMMA BehindNodes ==
  ASSUME NEW h \in {Build(g) : g \in Hulls}, ProperHulls,
         NEW zs \in [1 .. h.vertices -> Immersions], NEW f \in DOMAIN h.facets, NEW w
  PROVE  /\ w \in CutNodes(h, zs, f) =>
              \E k \in 1 .. 3 :
                /\ SignOf(h, zs, f, k) # 0 /\ SignOf(h, zs, f, NextPlace(k)) # 0
                /\ w = NodeAt(h, zs, f, k)
                /\ Behind(h, zs, w) = {h.facets[f][k], h.facets[f][NextPlace(k)]}
         /\ w \in SurfaceEnds(h, zs, f) =>
              \E k \in 1 .. 3 :
                /\ SignOf(h, zs, f, k) = 0
                /\ Behind(h, zs, w) = {h.facets[f][k]}
<1>1. ASSUME NEW k \in 1 .. 3, w \in NodesAt(h, zs, f, k)
      PROVE  /\ SignOf(h, zs, f, k) # 0 /\ SignOf(h, zs, f, NextPlace(k)) # 0
             /\ w = NodeAt(h, zs, f, k)
             /\ Behind(h, zs, w) = {h.facets[f][k], h.facets[f][NextPlace(k)]}
  <2> DEFINE e == h.oriented[f][k].edge
             a == h.facets[f][k]
             b == h.facets[f][NextPlace(k)]
             x == SignOf(h, zs, f, k)
             y == SignOf(h, zs, f, NextPlace(k))
  <2>1. w = NodeAt(h, zs, f, k) /\ CutBetween(x, y)
    BY <1>1 DEF NodesAt, NodesOn
  <2>2. e \in Crossing(h, zs) /\ w = NodeOf(h, zs, e)
    BY <2>1, NodesApart DEF NodeAt
  <2>3. w > h.vertices /\ w \in Int /\ h.vertices \in Nat
    <3>1. HalvesOf(h, zs, CutEdges(h, zs), e)
      BY <2>2, CutEffect
    <3> HIDE DEF e
    <3>2. w \in Int /\ w > h.vertices
      BY <2>2, <3>1, Zenon DEF HalvesOf
    <3> QED
      BY <3>2, SideEnds
  <2>4. {h.edges[e][1], h.edges[e][2]} = {a, b}
    <3>1. Runs(h.edges, h.oriented[f][k], a, b)
      BY SideEnds
    <3> HIDE DEF a, b
    <3>2. h.edges[e] = <<a, b>> \/ h.edges[e] = <<b, a>>
      BY <3>1 DEF Runs
    <3> HIDE DEF e
    <3> QED
      BY <3>2
  <2>5. {d \in Crossing(h, zs) : NodeOf(h, zs, d) = w} = {e}
    <3>1. \A d, c \in Crossing(h, zs) : NodeOf(h, zs, d) = NodeOf(h, zs, c) => d = c
      BY CutEffect
    <3> HIDE DEF e
    <3> QED
      BY <2>2, <3>1
  <2> HIDE DEF e, a, b, x, y
  <2>6. Behind(h, zs, w) = {h.edges[e][1], h.edges[e][2]}
    <3>1. ~ (w <= h.vertices)
      BY <2>3
    <3>2. Behind(h, zs, w) =
            UNION {{h.edges[c][1], h.edges[c][2]} : c \in {d \in Crossing(h, zs) : NodeOf(h, zs, d) = w}}
      BY <3>1 DEF Behind
    <3>3. Behind(h, zs, w) = UNION {{h.edges[c][1], h.edges[c][2]} : c \in {e}}
      BY <2>5, <3>2
    <3> QED
      BY <3>3
  <2>7. x # 0 /\ y # 0
    BY <2>1 DEF CutBetween
  <2> QED
    BY <2>1, <2>4, <2>6, <2>7 DEF a, b, x, y
<1>2. ASSUME NEW k \in 1 .. 3, w \in EndsAt(h, zs, f, k)
      PROVE  SignOf(h, zs, f, k) = 0 /\ Behind(h, zs, w) = {h.facets[f][k]}
  <2>1. SignOf(h, zs, f, k) = 0 /\ w = h.facets[f][k]
    BY <1>2 DEF EndsAt, EndsInSurface
  <2>2. w \in 1 .. h.vertices /\ h.vertices \in Nat
    BY <2>1, SideEnds
  <2> QED
    BY <2>1, <2>2 DEF Behind
<1>3. w \in CutNodes(h, zs, f) => \E k \in 1 .. 3 : w \in NodesAt(h, zs, f, k)
  BY DEF CutNodes
<1>4. w \in SurfaceEnds(h, zs, f) => \E k \in 1 .. 3 : w \in EndsAt(h, zs, f, k)
  BY DEF SurfaceEnds
<1> QED
  BY <1>1, <1>2, <1>3, <1>4, Zenon

\* The edge along which a facet is cut tells the vertices of the facet.
LEMMA ClosingEdgeCorners ==
  ASSUME NEW h \in {Build(g) : g \in Hulls}, ProperHulls,
         NEW zs \in [1 .. h.vertices -> Immersions], NEW f \in DOMAIN h.facets,
         AnyEmerged(h, zs, f), AnyImmersed(h, zs, f)
  PROVE  Behind(h, zs, ClosingStart(h, zs, f)) \union Behind(h, zs, ClosingEnd(h, zs, f))
           = Corners(h.facets, f)
<1> DEFINE p == ClosingStart(h, zs, f)
           q == ClosingEnd(h, zs, f)
           v(k) == h.facets[f][k]
           x(k) == SignOf(h, zs, f, k)
           n(k) == NodeAt(h, zs, f, k)
           IsNode(w, k) == /\ x(k) # 0 /\ x(NextPlace(k)) # 0 /\ w = n(k)
                           /\ Behind(h, zs, w) = {v(k), v(NextPlace(k))}
           IsEnd(w, k) == x(k) = 0 /\ Behind(h, zs, w) = {v(k)}
<1>1. /\ p # q /\ {p, q} \subseteq CutNodes(h, zs, f) \union SurfaceEnds(h, zs, f)
      /\ p \in CutNodes(h, zs, f) \/ q \in CutNodes(h, zs, f)
  BY PieceShapes
<1>2. \A w : /\ w \in CutNodes(h, zs, f) => \E k \in 1 .. 3 : IsNode(w, k)
             /\ w \in SurfaceEnds(h, zs, f) => \E k \in 1 .. 3 : IsEnd(w, k)
  BY BehindNodes
<1>3. Corners(h.facets, f) = {v(1), v(2), v(3)}
  BY DEF Corners
<1>4. NextPlace(1) = 2 /\ NextPlace(2) = 3 /\ NextPlace(3) = 1 /\ 1 .. 3 = {1, 2, 3}
  BY DEF NextPlace
<1> HIDE DEF p, q, v, x, n
<1>5. ASSUME NEW w, NEW u, NEW k \in 1 .. 3, NEW j \in 1 .. 3, w # u, IsNode(w, k), IsNode(u, j)
      PROVE  Behind(h, zs, w) \union Behind(h, zs, u) = {v(1), v(2), v(3)}
  <2>1. k # j
    BY <1>5
  <2>2. (k = 1 \/ k = 2 \/ k = 3) /\ (j = 1 \/ j = 2 \/ j = 3)
    BY <1>4
  <2>3. /\ Behind(h, zs, w) = {v(k), v(NextPlace(k))}
        /\ Behind(h, zs, u) = {v(j), v(NextPlace(j))}
    BY <1>5
  <2> QED
    BY <1>4, <2>1, <2>2, <2>3
<1>6. ASSUME NEW w, NEW u, NEW k \in 1 .. 3, NEW j \in 1 .. 3, IsNode(w, k), IsEnd(u, j)
      PROVE  Behind(h, zs, w) \union Behind(h, zs, u) = {v(1), v(2), v(3)}
  <2>1. k # j /\ NextPlace(k) # j
    BY <1>6
  <2>2. (k = 1 \/ k = 2 \/ k = 3) /\ (j = 1 \/ j = 2 \/ j = 3)
    BY <1>4
  <2>3. /\ Behind(h, zs, w) = {v(k), v(NextPlace(k))}
        /\ Behind(h, zs, u) = {v(j)}
    BY <1>6
  <2> QED
    BY <1>4, <2>1, <2>2, <2>3
<1>7. \/ \E k, j \in 1 .. 3 : IsNode(p, k) /\ IsNode(q, j)
      \/ \E k, j \in 1 .. 3 : IsNode(p, k) /\ IsEnd(q, j)
      \/ \E k, j \in 1 .. 3 : IsNode(q, k) /\ IsEnd(p, j)
  <2> HIDE DEF IsNode, IsEnd
  <2> QED
    BY <1>1, <1>2
<1> HIDE DEF IsNode, IsEnd
<1>8. Behind(h, zs, p) \union Behind(h, zs, q) = {v(1), v(2), v(3)}
  BY <1>1, <1>5, <1>6, <1>7
<1> QED
  BY <1>3, <1>8 DEF p, q

\* The edges in the surface: some of the hull, and those that close a piece.
LEMMA SurfaceEdgesFrom ==
  ASSUME NEW h \in {Build(g) : g \in Hulls}, ProperHulls,
         NEW zs \in [1 .. h.vertices -> Immersions]
  PROVE  LET i == Intersection(h, zs)
         IN  /\ \E n \in Nat : i.surfaceEdges \in SUBSET (1 .. n)
             /\ \A e \in i.surfaceEdges :
                  \/ /\ e \in Touching(h, CutEdges(h, zs).status)
                     /\ e \in DOMAIN h.edges /\ i.edges[e] = h.edges[e]
                  \/ \E f \in DOMAIN h.facets :
                       /\ e = ClosingEdge(h, zs, f)
                       /\ AnyEmerged(h, zs, f) /\ AnyImmersed(h, zs, f)
                       /\ i.edges[e] = <<ClosingStart(h, zs, f), ClosingEnd(h, zs, f)>>
<1> DEFINE i == Intersection(h, zs)
           cut == CutEdges(h, zs)
           dealt == DealtFacets(h, cut)
           closing == ClosingEdges(cut, dealt)
           S == Split(h, zs)
           m == Cardinality(S)
           n == Len(cut.edges)
           start(f) == ClosingStart(h, zs, f)
           end(f) == ClosingEnd(h, zs, f)
           drawn == {k \in 1 .. Cardinality(SplitFacets(dealt)) : closing[k][1] # closing[k][2]}
<1>1. i.surfaceEdges = Touching(h, cut.status) \union {n + k : k \in drawn}
  BY DEF Intersection, Divided
<1>2. SplitFacets(dealt) = S /\ \A f \in S : dealt[f] = AllDealt(h, zs, f)
  BY DealtFacetsBySigns
<1>3. /\ m \in Nat
      /\ \A k \in 1 .. m : Nth(S, k) \in S /\ RankIn(S, Nth(S, k)) = k
      /\ \A f \in S : f \in DOMAIN h.facets
  BY SplitRanks
<1>4. n \in Nat /\ DOMAIN h.edges \subseteq 1 .. n /\ DOMAIN cut.edges = 1 .. n
      /\ \A e \in DOMAIN h.edges : cut.edges[e] = h.edges[e]
  <2>1. IsList(cut.edges) /\ DOMAIN h.edges \subseteq DOMAIN cut.edges
        /\ \A e \in DOMAIN h.edges : cut.edges[e] = h.edges[e]
    BY CutEffect
  <2> HIDE DEF cut
  <2> QED
    BY <2>1 DEF IsList
<1>5. ASSUME NEW k \in drawn
      PROVE  \E f \in S : start(f) # end(f) /\ n + k = ClosingEdge(h, zs, f) /\ k \in 1 .. m
  <2> DEFINE f == Nth(S, k)
  <2>1. k \in 1 .. m /\ closing[k][1] # closing[k][2]
    BY <1>2
  <2>2. f \in S /\ RankIn(S, f) = k
    BY <1>3, <2>1
  <2>3. closing[k] = <<FirstVertex(cut.edges, dealt[f].immersed[dealt[f].firstImmersed + 1]),
                       FirstVertex(cut.edges, dealt[f].emerged[dealt[f].firstEmerged + 1])>>
    <3> HIDE DEF cut, dealt, S, drawn
    <3> QED
      BY <1>2, <2>1 DEF ClosingEdges
  <2> HIDE DEF f, closing, S, drawn
  <2>4. closing[k] = <<start(f), end(f)>>
    BY <1>2, <2>2, <2>3 DEF ClosingStart, ClosingEnd
  <2> HIDE DEF cut, dealt, start, end, m
  <2>5. n + k = ClosingEdge(h, zs, f)
    BY <2>2 DEF ClosingEdge, S, cut
  <2> QED
    BY <2>1, <2>2, <2>4, <2>5
<1> HIDE DEF drawn, closing, dealt
<1>6. Touching(h, cut.status) \subseteq DOMAIN h.edges
  BY DEF Touching
<1>7. i.surfaceEdges \in SUBSET (1 .. n + m)
  <2> HIDE DEF cut, i, S, m, n
  <2>1. \A k \in 1 .. m : n + k \in 1 .. n + m
    BY <1>3, <1>4
  <2>2. 1 .. n \subseteq 1 .. n + m
    BY <1>3, <1>4
  <2>3. \A k \in drawn : n + k \in 1 .. n + m
    BY <1>5, <2>1
  <2> QED
    BY <1>1, <1>4, <1>6, <2>2, <2>3
<1>8. n + m \in Nat
  BY <1>3, <1>4
<1>9. ASSUME NEW e \in DOMAIN h.edges
      PROVE  i.edges[e] = h.edges[e]
  <2>1. Within(cut.edges, i.edges)
    BY IntersectionEdges
  <2> HIDE DEF cut, i, n
  <2> QED
    BY <1>4, <2>1 DEF Within
<1>10. ASSUME NEW f \in S, start(f) # end(f)
       PROVE  /\ f \in DOMAIN h.facets /\ AnyEmerged(h, zs, f) /\ AnyImmersed(h, zs, f)
              /\ i.edges[ClosingEdge(h, zs, f)] = <<start(f), end(f)>>
  <2> DEFINE o == [edge |-> ClosingEdge(h, zs, f), reverse |-> FALSE]
             all == i.edges
  <2>1. f \in DOMAIN h.facets
    BY <1>3
  <2>2. /\ Within(cut.edges, all) /\ ClosingEdge(h, zs, f) \in DOMAIN all
        /\ all[ClosingEdge(h, zs, f)] = <<start(f), end(f)>>
    BY IntersectionEdges
  <2>3. AnyEmerged(h, zs, f) <=> AnyImmersed(h, zs, f)
    BY DEF Split
  <2> HIDE DEF all, start, end, S
  <2>4. Runs(all, o, start(f), end(f))
    <3>1. o.edge = ClosingEdge(h, zs, f) /\ o.reverse = FALSE
      OBVIOUS
    <3> HIDE DEF o
    <3> QED
      BY <2>2, <3>1 DEF Runs
  <2> HIDE DEF o
  <2>5. ~ AnyEmerged(h, zs, f) /\ ~ AnyImmersed(h, zs, f) => start(f) = end(f)
    BY <2>1, <2>2, <2>4, LevelFacet DEF start, end
  <2> QED
    BY <1>10, <2>1, <2>2, <2>3, <2>5 DEF all
<1>11. ASSUME NEW e \in i.surfaceEdges
       PROVE  \/ e \in Touching(h, cut.status) /\ e \in DOMAIN h.edges /\ i.edges[e] = h.edges[e]
              \/ \E f \in DOMAIN h.facets :
                   /\ e = ClosingEdge(h, zs, f)
                   /\ AnyEmerged(h, zs, f) /\ AnyImmersed(h, zs, f)
                   /\ i.edges[e] = <<start(f), end(f)>>
  <2>1. CASE e \in Touching(h, cut.status)
    BY <1>6, <1>9, <2>1
  <2>2. CASE e \notin Touching(h, cut.status)
    <3> HIDE DEF cut, i, S, m, n
    <3>1. PICK k \in drawn : e = n + k
      BY <1>1, <2>2
    <3>2. PICK f \in S : start(f) # end(f) /\ n + k = ClosingEdge(h, zs, f)
      BY <1>5
    <3> QED
      BY <1>10, <3>1, <3>2
  <2> QED
    BY <2>1, <2>2
<1> QED
  BY <1>7, <1>8, <1>11 DEF i

\* Two edges in the surface are not between the same two vertices, nor is one
\* between a vertex and itself.
LEMMA SurfaceEdgesPlain ==
  ASSUME NEW h \in {Build(g) : g \in Hulls}, ProperHulls, SimpleHulls,
         NEW zs \in [1 .. h.vertices -> Immersions]
  PROVE  LET i == Intersection(h, zs)
         IN  /\ \A e \in i.surfaceEdges :
                  i.edges[e] = <<i.edges[e][1], i.edges[e][2]>> /\ i.edges[e][1] # i.edges[e][2]
             /\ \A e, d \in i.surfaceEdges : SameEdge(i.edges[e], i.edges[d]) => e = d
<1> DEFINE i == Intersection(h, zs)
           start(f) == ClosingStart(h, zs, f)
           end(f) == ClosingEnd(h, zs, f)
           Own(e) == e \in DOMAIN h.edges /\ i.edges[e] = h.edges[e]
           Closing(e, f) == /\ f \in DOMAIN h.facets /\ e = ClosingEdge(h, zs, f)
                            /\ AnyEmerged(h, zs, f) /\ AnyImmersed(h, zs, f)
                            /\ i.edges[e] = <<start(f), end(f)>>
<1>1. \A e \in i.surfaceEdges : Own(e) \/ \E f : Closing(e, f)
  BY SurfaceEdgesFrom
<1>2. PICK g \in Hulls : h = Build(g)
  OBVIOUS
<1>3. h.facets = g.facets /\ h.edges = EdgesOf(g.facets)
  BY <1>2 DEF Build
<1>4. /\ \A e \in DOMAIN h.edges :
           \E f \in DOMAIN h.facets : \E k \in 1 .. 3 : h.edges[e] = Side(h.facets, f, k)
      /\ \A e, d \in DOMAIN h.edges : SameEdge(h.edges[e], h.edges[d]) => e = d
  <2> DEFINE list == EdgesOf(g.facets)
  <2>1. /\ \A e \in DOMAIN list :
             \E f \in DOMAIN g.facets : \E k \in 1 .. 3 : list[e] = Side(g.facets, f, k)
        /\ \A e, d \in DOMAIN list : SameEdge(list[e], list[d]) => e = d
    BY EdgesList
  <2> HIDE DEF list
  <2>2. h.facets = g.facets /\ h.edges = list
    BY <1>3 DEF list
  <2> QED
    BY <2>1, <2>2
<1>5. \A f, e \in DOMAIN h.facets : Corners(h.facets, f) = Corners(h.facets, e) => f = e
  BY <1>3 DEF SimpleHulls
<1>6. h.vertices \in Nat
  BY BuiltFacets
<1> HIDE DEF i, start, end
<1>7. ASSUME NEW e, Own(e)
      PROVE  \E a, b \in 1 .. h.vertices : i.edges[e] = <<a, b>> /\ a # b
  <2>1. PICK f \in DOMAIN h.facets, k \in 1 .. 3 : h.edges[e] = Side(h.facets, f, k)
    BY <1>4, <1>7
  <2>2. /\ h.facets[f][k] \in 1 .. h.vertices /\ h.facets[f][NextPlace(k)] \in 1 .. h.vertices
        /\ h.facets[f][k] # h.facets[f][NextPlace(k)]
    BY SideEnds
  <2> QED
    BY <1>7, <2>1, <2>2 DEF Side
<1>8. ASSUME NEW e, NEW f, Closing(e, f)
      PROVE  /\ start(f) # end(f) /\ (start(f) > h.vertices \/ end(f) > h.vertices)
             /\ Behind(h, zs, start(f)) \union Behind(h, zs, end(f)) = Corners(h.facets, f)
  <2>1. start(f) # end(f) /\ (start(f) \in CutNodes(h, zs, f) \/ end(f) \in CutNodes(h, zs, f))
    BY <1>8, PieceShapes DEF start, end
  <2>2. \A v \in CutNodes(h, zs, f) : v > h.vertices
    BY <1>8, SidesOnTheirSide
  <2>3. Behind(h, zs, start(f)) \union Behind(h, zs, end(f)) = Corners(h.facets, f)
    BY <1>8, ClosingEdgeCorners DEF start, end
  <2> QED
    BY <2>1, <2>2, <2>3
<1>9. ASSUME NEW e \in i.surfaceEdges
      PROVE  i.edges[e] = <<i.edges[e][1], i.edges[e][2]>> /\ i.edges[e][1] # i.edges[e][2]
  <2>1. CASE Own(e)
    BY <1>7, <2>1
  <2>2. CASE ~ Own(e)
    <3>1. PICK f : Closing(e, f)
      BY <1>1, <2>2
    <3> QED
      BY <1>8, <3>1
  <2> QED
    BY <2>1, <2>2
<1>10. ASSUME NEW e, NEW d, NEW f, Own(e), Closing(d, f)
       PROVE  ~ SameEdge(i.edges[e], i.edges[d]) /\ ~ SameEdge(i.edges[d], i.edges[e])
  <2>1. PICK a \in 1 .. h.vertices, b \in 1 .. h.vertices : i.edges[e] = <<a, b>>
    BY <1>7, <1>10
  <2>2. i.edges[d] = <<start(f), end(f)>>
    BY <1>10
  <2>3. start(f) > h.vertices \/ end(f) > h.vertices
    BY <1>8, <1>10
  <2>4. ~ (a > h.vertices) /\ ~ (b > h.vertices)
    BY <1>6
  <2> QED
    BY <2>1, <2>2, <2>3, <2>4, SameEdgePairs
<1>11. ASSUME NEW e, NEW d, NEW f, NEW c, Closing(e, f), Closing(d, c), SameEdge(i.edges[e], i.edges[d])
       PROVE  e = d
  <2>1. \/ start(f) = start(c) /\ end(f) = end(c)
        \/ start(f) = end(c) /\ end(f) = start(c)
    BY <1>11, SameEdgePairs
  <2>2. Corners(h.facets, f) = Corners(h.facets, c)
    <3>1. /\ Behind(h, zs, start(f)) \union Behind(h, zs, end(f)) = Corners(h.facets, f)
          /\ Behind(h, zs, start(c)) \union Behind(h, zs, end(c)) = Corners(h.facets, c)
      BY <1>8, <1>11
    <3> QED
      BY <2>1, <3>1
  <2>3. f = c
    BY <1>5, <1>11, <2>2
  <2> QED
    BY <1>11, <2>3
<1>12. ASSUME NEW e \in i.surfaceEdges, NEW d \in i.surfaceEdges, SameEdge(i.edges[e], i.edges[d])
       PROVE  e = d
  <2>1. CASE Own(e) /\ Own(d)
    BY <1>4, <1>12, <2>1
  <2>2. CASE Own(e) /\ ~ Own(d)
    BY <1>1, <1>10, <1>12, <2>2
  <2>3. CASE ~ Own(e) /\ Own(d)
    BY <1>1, <1>10, <1>12, <2>3
  <2>4. CASE ~ Own(e) /\ ~ Own(d)
    BY <1>1, <1>11, <1>12, <2>4
  <2> QED
    BY <2>1, <2>2, <2>3, <2>4
<1> QED
  BY <1>9, <1>12 DEF i

\* What is in the surface, as computed from immersions.
LEMMA MeshSurfacePlain ==
  ASSUME ProperHulls, SimpleHulls, hull \in {Build(h) : h \in Hulls},
         NEW zs \in [1 .. hull.vertices -> Immersions], ComputedFrom(zs)
  PROVE  Plain(surfaceEdges) /\ \E n \in Nat : surfaceEdges \in SUBSET (1 .. n)
<1> DEFINE i == Intersection(hull, zs)
<1>1. edges = i.edges /\ surfaceEdges = i.surfaceEdges
  BY DEF ComputedFrom
<1>2. IsFiniteSet(i.surfaceEdges)
  BY IntersectionShape
<1>3. \E n \in Nat : i.surfaceEdges \in SUBSET (1 .. n)
  BY SurfaceEdgesFrom
<1>4. /\ \A e \in i.surfaceEdges :
           i.edges[e] = <<i.edges[e][1], i.edges[e][2]>> /\ i.edges[e][1] # i.edges[e][2]
      /\ \A e, d \in i.surfaceEdges : SameEdge(i.edges[e], i.edges[d]) => e = d
  BY SurfaceEdgesPlain
<1> HIDE DEF i
<1>5. Plain(surfaceEdges)
  <2>1. /\ \A e \in surfaceEdges :
             edges[e] = <<edges[e][1], edges[e][2]>> /\ edges[e][1] # edges[e][2]
        /\ \A e, d \in surfaceEdges : SameEdge(edges[e], edges[d]) => e = d
    BY <1>1, <1>4
  <2> QED
    BY <1>1, <1>2, <2>1 DEF Plain
<1> QED
  BY <1>1, <1>3, <1>5

\* A loop of the contour is closed by one facet, in the words of the property.
LEMMA LoopsAreClosedBy ==
  LoopsAreClosed <=>
    (Updated /\ ~ raised /\ ~ needClosing =>
       \A k \in DOMAIN Components(surfaceEdges) :
         IsLoop(Components(surfaceEdges)[k]) =>
           Cardinality({j \in DOMAIN surface : Closes(facets[surface[j]], Components(surfaceEdges)[k])}) = 1)
<1> DEFINE parts == Components(surfaceEdges)
           closes(f, E) ==
             /\ {facets[f][j] : j \in DOMAIN facets[f]} = NodesOf(E)
             /\ IsInjective(facets[f])
             /\ \A s \in SidesOf(f) : \E e \in E : SameEdge(edges[e], s)
<1>1. \A f, E : closes(f, E) <=> Closes(facets[f], E)
  BY DEF Closes, SidesOf
<1>2. LoopsAreClosed <=>
        (Updated /\ ~ raised /\ ~ needClosing =>
           \A k \in DOMAIN parts :
             IsLoop(parts[k]) => Cardinality({j \in DOMAIN surface : closes(surface[j], parts[k])}) = 1)
  BY DEF LoopsAreClosed
<1> HIDE DEF closes, parts
<1>3. \A E : {j \in DOMAIN surface : closes(surface[j], E)}
               = {j \in DOMAIN surface : Closes(facets[surface[j]], E)}
  BY <1>1
<1> QED
  BY <1>2, <1>3, Zenon DEF parts

\* The same after a step that leaves the edges alone.
LEMMA LoopsAreClosedAfter ==
  ASSUME edges' = edges, surfaceEdges' = surfaceEdges
  PROVE  LoopsAreClosed' <=>
           (Updated' /\ ~ raised' /\ ~ needClosing' =>
              \A k \in DOMAIN Components(surfaceEdges) :
                IsLoop(Components(surfaceEdges)[k]) =>
                  Cardinality({j \in DOMAIN surface' :
                                 Closes(facets'[surface'[j]], Components(surfaceEdges)[k])}) = 1)
<1> DEFINE parts == Components(surfaceEdges)
           closes(f, E) ==
             /\ {facets[f][j] : j \in DOMAIN facets[f]} = NodesOf(E)
             /\ IsInjective(facets[f])
             /\ \A s \in SidesOf(f) : \E e \in E : SameEdge(edges[e], s)
<1>1. parts' = parts
  BY DEF Components, Component, NodesOf
<1>2. \A E : IsLoop(E)' <=> IsLoop(E)
  BY DEF IsLoop, NodesOf, EdgesAt
<1>3. \A f, E : closes(f, E)' <=> Closes(facets'[f], E)
  BY DEF Closes, SidesOf, NodesOf
<1>4. LoopsAreClosed' <=>
        (Updated' /\ ~ raised' /\ ~ needClosing' =>
           \A k \in DOMAIN parts' :
             IsLoop(parts[k])' => Cardinality({j \in DOMAIN surface' : closes(surface[j], parts[k])'}) = 1)
  BY DEF LoopsAreClosed
<1> HIDE DEF closes, parts
<1>5. \A E : {j \in DOMAIN surface' : closes(surface[j], E)'}
               = {j \in DOMAIN surface' : Closes(facets'[surface'[j]], E)}
  BY <1>3
<1> QED
  BY <1>1, <1>2, <1>4, <1>5 DEF parts

\* Every loop stays closed by one facet until the mesh is cut again.
LEMMA LoopsInductive ==
  ASSUME ProperHulls, SimpleHulls
  PROVE  /\ MeshInit => LoopsAreClosed
         /\ MeshIInv /\ LoopsAreClosed /\ [MeshNext]_meshVars => LoopsAreClosed'
<1>1. MeshInit => LoopsAreClosed
  BY DEF MeshInit, LoopsAreClosed
<1>2. ASSUME MeshIInv, LoopsAreClosed, [MeshNext]_meshVars
      PROVE  LoopsAreClosed'
  <2>1. ASSUME NEW zs \in GivenImmersions, Update(zs) PROVE LoopsAreClosed'
    <3>1. needClosing'
      BY <2>1 DEF Update, Recompute
    <3> QED
      BY <3>1 DEF LoopsAreClosed
  <2>2. ASSUME UpdateWithNaN PROVE LoopsAreClosed'
    <3>1. raised'
      BY <2>2 DEF UpdateWithNaN
    <3> QED
      BY <3>1 DEF LoopsAreClosed
  <2>3. ASSUME BuildClosing PROVE LoopsAreClosed'
    <3> DEFINE parts == Components(surfaceEdges)
    <3>1. needClosing /\ z' = z /\ edges' = edges /\ surfaceEdges' = surfaceEdges
      BY <2>3 DEF BuildClosing
    <3>6. raised' \/ \E contours :
            /\ \A k \in DOMAIN parts : contours[k] \in Contours(parts[k])
            /\ AddFacets(contours, Len(parts)) /\ raised' = raised
      BY <2>3, Zenon DEF BuildClosing
    <3> SUFFICES ASSUME Updated', ~ raised' PROVE LoopsAreClosed'
      BY DEF LoopsAreClosed
    <3>9. ~ raised /\ z # <<>>
      <4>1. z' # <<>>
        BY DEF Updated, NaNImmersions
      <4> QED
        BY <3>1, <3>6, <4>1
    <3>2. hull \in {Build(h) : h \in Hulls} /\ surface = <<>>
      BY <1>2, <3>1, <3>9 DEF MeshIInv
    <3>3. PICK zs \in [1 .. hull.vertices -> Immersions] : ComputedFrom(zs)
      BY <1>2, <3>9 DEF MeshIInv
    <3>4. IsList(facets)
      BY <3>3 DEF ComputedFrom, Begins
    <3>5. PICK n \in Nat : surfaceEdges \in SUBSET (1 .. n) /\ Plain(surfaceEdges)
      BY <3>2, <3>3, MeshSurfacePlain
    <3>7. PICK contours : /\ \A k \in DOMAIN parts : contours[k] \in Contours(parts[k])
                          /\ AddFacets(contours, Len(parts))
      BY <3>6
    <3>8. \A k \in DOMAIN parts : IsLoop(parts[k]) =>
            Cardinality({j \in DOMAIN surface' : Closes(facets'[surface'[j]], parts[k])}) = 1
      BY <3>2, <3>4, <3>5, <3>7, LoopsGetFacets
    <3> QED
      BY <3>1, <3>8, LoopsAreClosedAfter
  <2>4. ASSUME UNCHANGED meshVars PROVE LoopsAreClosed'
    <3>1. /\ edges' = edges /\ surfaceEdges' = surfaceEdges /\ surface' = surface /\ facets' = facets
          /\ raised' = raised /\ needClosing' = needClosing /\ z' = z
      BY <2>4 DEF meshVars
    <3>2. Updated' <=> Updated
      BY <3>1 DEF Updated
    <3> QED
      BY <1>2, <3>1, <3>2, LoopsAreClosedBy, LoopsAreClosedAfter
  <2> QED
    BY <1>2, <2>1, <2>2, <2>3, <2>4, Zenon DEF MeshNext, MeshIdle
<1> QED
  BY <1>1, <1>2

\* For all hulls whose facets are triangles and different from each other, and
\* for any immersions, each loop of the contour in the surface is closed by one
\* polygon that has its vertices and its edges, each once, whichever edge the
\* contour is followed from and in whichever direction
\* (ClosingFacetComputer::contour, MeshIntersector::build_closing_edge).
THEOREM LoopsAlwaysClosed ==
  ASSUME ProperHulls, SimpleHulls
  PROVE  MeshSpec => []LoopsAreClosed
<1> QED
  BY MeshInductive, LoopsInductive, PTL DEF MeshSpec

-----------------------------------------------------------------------------
(* A closed hull with no vertex in the surface is cut along loops.          *)

\* A facet that is cut between its vertices is cut from one of its nodes to the
\* other.
LEMMA NodesAreClosingEnds ==
  ASSUME NEW h \in {Build(g) : g \in Hulls}, ProperHulls,
         NEW zs \in [1 .. h.vertices -> Immersions], NEW f \in DOMAIN h.facets,
         AnyEmerged(h, zs, f), AnyImmersed(h, zs, f), \A v \in 1 .. h.vertices : zs[v] # 0
  PROVE  \A w : w \in {ClosingStart(h, zs, f), ClosingEnd(h, zs, f)} <=>
           \E k \in 1 .. 3 : /\ CutBetween(SignOf(h, zs, f, k), SignOf(h, zs, f, NextPlace(k)))
                             /\ w = NodeAt(h, zs, f, k)
<1> DEFINE p == ClosingStart(h, zs, f)
           q == ClosingEnd(h, zs, f)
           x(k) == SignOf(h, zs, f, k)
           n(k) == NodeAt(h, zs, f, k)
           cut(k) == CutBetween(x(k), x(NextPlace(k)))
<1>1. p # q /\ {p, q} \subseteq CutNodes(h, zs, f) \union SurfaceEnds(h, zs, f)
  BY PieceShapes
<1>2. \A w : w \in CutNodes(h, zs, f) <=> \E k \in 1 .. 3 : cut(k) /\ w = n(k)
  <2>1. \A k : \A w : w \in NodesAt(h, zs, f, k) <=> cut(k) /\ w = n(k)
    BY DEF NodesAt, NodesOn
  <2> HIDE DEF cut, n
  <2>2. \A w : w \in CutNodes(h, zs, f) <=> \E k \in 1 .. 3 : w \in NodesAt(h, zs, f, k)
    BY DEF CutNodes
  <2> QED
    BY <2>1, <2>2
<1>3. \A k \in 1 .. 3 : x(k) \in {-1, 1}
  <2>1. \A k \in 1 .. 3 : x(k) \in {-1, 0, 1} /\ h.facets[f][k] \in 1 .. h.vertices
    BY SignsType, SideEnds
  <2> QED
    BY <2>1 DEF SignOf
<1>4. SurfaceEnds(h, zs, f) = {}
  <2>1. \A k \in 1 .. 3 : EndsAt(h, zs, f, k) = {}
    BY <1>3 DEF EndsAt, EndsInSurface
  <2> QED
    BY <2>1 DEF SurfaceEnds
<1>5. NextPlace(1) = 2 /\ NextPlace(2) = 3 /\ NextPlace(3) = 1 /\ 1 .. 3 = {1, 2, 3}
  BY DEF NextPlace
<1> HIDE DEF p, q, x, n
<1>6. ~ (cut(1) /\ cut(2) /\ cut(3))
  <2>1. x(1) \in {-1, 1} /\ x(2) \in {-1, 1} /\ x(3) \in {-1, 1}
    BY <1>3
  <2> QED
    BY <1>5, <2>1 DEF CutBetween
<1> HIDE DEF cut
<1>7. ASSUME NEW k \in 1 .. 3, cut(k)
      PROVE  n(k) \in {p, q}
  <2>1. PICK i \in 1 .. 3 : cut(i) /\ p = n(i)
    BY <1>1, <1>2, <1>4
  <2>2. PICK j \in 1 .. 3 : cut(j) /\ q = n(j)
    BY <1>1, <1>2, <1>4
  <2>3. i # j
    BY <1>1, <2>1, <2>2
  <2>4. k = i \/ k = j
    BY <1>5, <1>6, <1>7, <2>1, <2>2, <2>3
  <2> QED
    BY <2>1, <2>2, <2>4
<1>8. \A w \in {p, q} : \E k \in 1 .. 3 : cut(k) /\ w = n(k)
  BY <1>1, <1>2, <1>4
<1>9. \A w : w \in {p, q} <=> \E k \in 1 .. 3 : cut(k) /\ w = n(k)
  BY <1>7, <1>8
<1> QED
  BY <1>9 DEF p, q, cut, n, x

\* Sides cut at the same node run along each other.
LEMMA SameNodeSides ==
  ASSUME NEW h \in {Build(g) : g \in Hulls}, ProperHulls,
         NEW zs \in [1 .. h.vertices -> Immersions],
         NEW f \in DOMAIN h.facets, NEW k \in 1 .. 3, NEW e \in DOMAIN h.facets, NEW j \in 1 .. 3,
         CutBetween(SignOf(h, zs, f, k), SignOf(h, zs, f, NextPlace(k))),
         CutBetween(SignOf(h, zs, e, j), SignOf(h, zs, e, NextPlace(j))),
         NodeAt(h, zs, f, k) = NodeAt(h, zs, e, j)
  PROVE  \/ Side(h.facets, e, j) = Side(h.facets, f, k)
         \/ Side(h.facets, e, j) = Reversed(Side(h.facets, f, k))
<1> DEFINE o == h.oriented[f][k]
           p == h.oriented[e][j]
           a == h.facets[f][k]
           b == h.facets[f][NextPlace(k)]
           c == h.facets[e][j]
           d == h.facets[e][NextPlace(j)]
<1>1. o.edge \in Crossing(h, zs) /\ p.edge \in Crossing(h, zs)
  BY NodesApart
<1>2. o.edge = p.edge
  BY <1>1, CutEffect DEF NodeAt
<1>3. Runs(h.edges, o, a, b) /\ Runs(h.edges, p, c, d)
  BY SideEnds
<1> HIDE DEF o, p, a, b, c, d
<1>4. (a = c /\ b = d) \/ (a = d /\ b = c)
  BY <1>2, <1>3 DEF Runs
<1> QED
  BY <1>4 DEF Side, Reversed, a, b, c, d

\* A triangle does not run along a side of its own backwards.
LEMMA NotOwnReverse ==
  ASSUME NEW h \in {Build(g) : g \in Hulls}, ProperHulls,
         NEW f \in DOMAIN h.facets, NEW k \in 1 .. 3, NEW j \in 1 .. 3
  PROVE  Side(h.facets, f, j) # Reversed(Side(h.facets, f, k))
<1> DEFINE v(l) == h.facets[f][l]
<1>1. \A l \in 1 .. 3 : v(l) # v(NextPlace(l))
  BY SideEnds
<1>2. NextPlace(1) = 2 /\ NextPlace(2) = 3 /\ NextPlace(3) = 1 /\ 1 .. 3 = {1, 2, 3}
  BY DEF NextPlace
<1> HIDE DEF v
<1>3. v(1) # v(2) /\ v(2) # v(3) /\ v(3) # v(1)
  BY <1>1, <1>2
<1>4. ~ (v(j) = v(NextPlace(k)) /\ v(NextPlace(j)) = v(k))
  <2>1. (k = 1 \/ k = 2 \/ k = 3) /\ (j = 1 \/ j = 2 \/ j = 3)
    BY <1>2
  <2> QED
    BY <1>2, <1>3, <2>1
<1> QED
  BY <1>4 DEF Side, Reversed, v

(* No vertex of the hull is in the surface. *)
Between(h, zs) == \A v \in 1 .. h.vertices : zs[v] # 0

\* Then every edge in the surface closes the pieces of a facet.
LEMMA ClosingEdgesOnly ==
  ASSUME NEW h \in {Build(g) : g \in Hulls}, ProperHulls,
         NEW zs \in [1 .. h.vertices -> Immersions], Between(h, zs),
         NEW e \in Intersection(h, zs).surfaceEdges
  PROVE  \E f \in DOMAIN h.facets :
           /\ e = ClosingEdge(h, zs, f)
           /\ AnyEmerged(h, zs, f) /\ AnyImmersed(h, zs, f)
           /\ Intersection(h, zs).edges[e] = <<ClosingStart(h, zs, f), ClosingEnd(h, zs, f)>>
<1> DEFINE cut == CutEdges(h, zs)
<1> SUFFICES ASSUME e \in Touching(h, cut.status)
             PROVE  FALSE
  BY SurfaceEdgesFrom
<1>1. e \in DOMAIN h.edges /\ BothEndsTouch(cut.status[e])
  BY DEF Touching
<1>2. \E f \in DOMAIN h.facets : \E k \in 1 .. 3 : h.edges[e] = Side(h.facets, f, k)
  <2>1. PICK g \in Hulls : h = Build(g)
    OBVIOUS
  <2>2. h.facets = g.facets /\ h.edges = EdgesOf(g.facets)
    BY <2>1 DEF Build
  <2> DEFINE list == EdgesOf(g.facets)
  <2>3. \A d \in DOMAIN list :
          \E f \in DOMAIN g.facets : \E k \in 1 .. 3 : list[d] = Side(g.facets, f, k)
    BY EdgesList
  <2> HIDE DEF list
  <2>4. h.facets = g.facets /\ h.edges = list
    BY <2>2 DEF list
  <2> QED
    BY <1>1, <2>3, <2>4
<1>3. PICK f \in DOMAIN h.facets, k \in 1 .. 3 : h.edges[e] = Side(h.facets, f, k)
  BY <1>2
<1> DEFINE x == zs[h.edges[e][1]]
           y == zs[h.edges[e][2]]
<1>4. h.edges[e][1] \in 1 .. h.vertices /\ h.edges[e][2] \in 1 .. h.vertices
  BY <1>3, SideEnds DEF Side
<1>5. x # 0
  BY <1>4 DEF Between
<1>6. x \in {-1, 0, 1} /\ y \in {-1, 0, 1}
  BY <1>4, HullAssumption
<1>7. cut.status[e] = Status(x, y)
  <2>1. \A d \in DOMAIN h.edges : cut.status[d] = StatusOf(h, zs, d)
    BY CutEffect
  <2> HIDE DEF cut
  <2> QED
    BY <1>1, <2>1 DEF StatusOf
<1> HIDE DEF x, y, cut
<1>8. BothEndsTouch(Status(x, y)) => x = 0
  BY <1>6, StatusTable
<1> QED
  BY <1>1, <1>5, <1>7, <1>8

\* Every node is on the edges that cut the two facets on either side of it.
LEMMA TwoEdgesOfNode ==
  ASSUME NEW h \in {Build(g) : g \in Hulls}, ProperHulls, ClosedHulls, OrientedHulls,
         NEW zs \in [1 .. h.vertices -> Immersions], Between(h, zs), NEW w,
         NEW e \in Intersection(h, zs).surfaceEdges,
         w \in {Intersection(h, zs).edges[e][1], Intersection(h, zs).edges[e][2]}
  PROVE  LET i == Intersection(h, zs)
         IN  Cardinality({d \in i.surfaceEdges : w \in {i.edges[d][1], i.edges[d][2]}}) = 2
<1> DEFINE i == Intersection(h, zs)
           at == {d \in i.surfaceEdges : w \in {i.edges[d][1], i.edges[d][2]}}
           Cut(f, k) == CutBetween(SignOf(h, zs, f, k), SignOf(h, zs, f, NextPlace(k)))
           Mixed(f) == AnyEmerged(h, zs, f) /\ AnyImmersed(h, zs, f)
           edge(f) == ClosingEdge(h, zs, f)
           start(f) == ClosingStart(h, zs, f)
           end(f) == ClosingEnd(h, zs, f)
           node(f, k) == NodeAt(h, zs, f, k)
<1>1. ASSUME NEW d \in i.surfaceEdges
      PROVE  \E f \in DOMAIN h.facets : d = edge(f) /\ Mixed(f) /\ i.edges[d] = <<start(f), end(f)>>
  BY ClosingEdgesOnly
<1>2. ASSUME NEW f \in DOMAIN h.facets, Mixed(f)
      PROVE  edge(f) \in i.surfaceEdges /\ i.edges[edge(f)] = <<start(f), end(f)>>
  <2>1. f \in Split(h, zs)
    BY <1>2 DEF Split
  <2>2. start(f) # end(f)
    BY <1>2, PieceShapes
  <2> QED
    BY <2>1, <2>2, IntersectionEdges
<1>3. ASSUME NEW f \in DOMAIN h.facets, Mixed(f)
      PROVE  \A v : v \in {start(f), end(f)} <=> \E k \in 1 .. 3 : Cut(f, k) /\ v = node(f, k)
  <2>1. \A v \in 1 .. h.vertices : zs[v] # 0
    BY DEF Between
  <2>2. AnyEmerged(h, zs, f) /\ AnyImmersed(h, zs, f)
    BY <1>3
  <2> QED
    BY <2>1, <2>2, NodesAreClosingEnds, Zenon
<1>4. ASSUME NEW f \in DOMAIN h.facets, NEW k \in 1 .. 3, Cut(f, k)
      PROVE  Mixed(f)
  <2>1. NextPlace(k) \in 1 .. 3
    BY BuiltFacets
  <2> QED
    BY <1>4, <2>1 DEF CutBetween, AnyEmerged, AnyImmersed
<1>5. ASSUME NEW f \in DOMAIN h.facets, NEW g \in DOMAIN h.facets, Mixed(f), Mixed(g), edge(f) = edge(g)
      PROVE  f = g
  <2> DEFINE S == Split(h, zs)
             l == Len(CutEdges(h, zs).edges)
  <2>1. f \in S /\ g \in S
    BY <1>5 DEF Split
  <2>2. /\ RankIn(S, f) \in Nat /\ Nth(S, RankIn(S, f)) = f
        /\ RankIn(S, g) \in Nat /\ Nth(S, RankIn(S, g)) = g
    BY <2>1, SplitRanks
  <2>3. l + RankIn(S, f) = l + RankIn(S, g)
    BY <1>5 DEF ClosingEdge
  <2>4. l \in Nat
    BY CutEffect DEF IsList
  <2> HIDE DEF l, S
  <2>5. RankIn(S, f) = RankIn(S, g)
    BY <2>2, <2>3, <2>4
  <2> QED
    BY <2>2, <2>5
<1>6. /\ \A f \in DOMAIN h.facets : \A k \in 1 .. 3 : \E g \in DOMAIN h.facets : \E j \in 1 .. 3 :
           Side(h.facets, g, j) = Reversed(Side(h.facets, f, k))
      /\ \A f, g \in DOMAIN h.facets : \A k, j \in 1 .. 3 :
           Side(h.facets, g, j) = Side(h.facets, f, k) => g = f /\ j = k
  <2>1. PICK g \in Hulls : h = Build(g)
    OBVIOUS
  <2>2. h.facets = g.facets
    BY <2>1 DEF Build
  <2> DEFINE list == g.facets
  <2>3. \A a \in DOMAIN list : \A k \in 1 .. 3 : \E b \in DOMAIN list : \E j \in 1 .. 3 :
           Side(list, b, j) = Reversed(Side(list, a, k))
    BY DEF ClosedHulls
  <2>4. \A a, b \in DOMAIN list : \A k, j \in 1 .. 3 :
           Side(list, b, j) = Side(list, a, k) => b = a /\ j = k
    BY DEF OrientedHulls
  <2>5. h.facets = list
    BY <2>2
  <2> HIDE DEF list
  <2> QED
    <3> DEFINE hl == h.facets
    <3>1. hl = list
      BY <2>5
    <3> HIDE DEF hl
    <3>2. \A a \in DOMAIN hl : \A k \in 1 .. 3 : \E b \in DOMAIN hl : \E j \in 1 .. 3 :
             Side(hl, b, j) = Reversed(Side(hl, a, k))
      BY <2>3, <3>1
    <3>3. \A a, b \in DOMAIN hl : \A k, j \in 1 .. 3 : Side(hl, b, j) = Side(hl, a, k) => b = a /\ j = k
      BY <2>4, <3>1
    <3> QED
      BY <3>2, <3>3 DEF hl
<1> HIDE DEF i, start, end, edge, Mixed, node
<1>7. PICK f \in DOMAIN h.facets : e = edge(f) /\ Mixed(f) /\ i.edges[e] = <<start(f), end(f)>>
  BY <1>1 DEF i
<1>8. w \in {start(f), end(f)}
  BY <1>7 DEF i
<1>9. PICK k \in 1 .. 3 : Cut(f, k) /\ w = node(f, k)
  BY <1>3, <1>7, <1>8
<1>10. PICK g \in DOMAIN h.facets, j \in 1 .. 3 : Side(h.facets, g, j) = Reversed(Side(h.facets, f, k))
  BY <1>6
<1>11. Cut(g, j) /\ w = node(g, j)
  <2>1. node(g, j) = node(f, k)
    BY <1>10, FacingSides DEF node
  <2>2. /\ SignOf(h, zs, g, j) = SignOf(h, zs, f, NextPlace(k))
        /\ SignOf(h, zs, g, NextPlace(j)) = SignOf(h, zs, f, k)
    BY <1>10, FacingWays
  <2>3. Cut(g, j)
    BY <1>9, <2>2 DEF CutBetween
  <2> QED
    BY <1>9, <2>1, <2>3
<1>12. Mixed(g) /\ f # g
  <2>1. Mixed(g)
    BY <1>4, <1>11
  <2>2. f # g
    BY <1>10, NotOwnReverse
  <2> QED
    BY <2>1, <2>2
<1>13. edge(f) # edge(g)
  BY <1>5, <1>7, <1>12
<1>14. edge(f) \in at /\ edge(g) \in at
  <2>1. w \in {start(g), end(g)}
    BY <1>3, <1>11, <1>12
  <2> QED
    <3>1. /\ edge(f) \in i.surfaceEdges /\ i.edges[edge(f)] = <<start(f), end(f)>>
          /\ edge(g) \in i.surfaceEdges /\ i.edges[edge(g)] = <<start(g), end(g)>>
      BY <1>2, <1>7, <1>12
    <3>2. \A d \in i.surfaceEdges : w \in {i.edges[d][1], i.edges[d][2]} => d \in at
      OBVIOUS
    <3> HIDE DEF at, Cut
    <3>3. w \in {i.edges[edge(f)][1], i.edges[edge(f)][2]}
      BY <1>8, <3>1
    <3>4. w \in {i.edges[edge(g)][1], i.edges[edge(g)][2]}
      BY <2>1, <3>1
    <3> QED
      BY <3>1, <3>2, <3>3, <3>4
<1>15. ASSUME NEW d \in at
       PROVE  d = edge(f) \/ d = edge(g)
  <2>1. PICK c \in DOMAIN h.facets : d = edge(c) /\ Mixed(c) /\ i.edges[d] = <<start(c), end(c)>>
    BY <1>1
  <2>2. w \in {start(c), end(c)}
    <3>1. w \in {i.edges[d][1], i.edges[d][2]}
      BY <1>15
    <3> HIDE DEF at
    <3> QED
      BY <2>1, <3>1
  <2>3. PICK l \in 1 .. 3 : Cut(c, l) /\ w = node(c, l)
    BY <1>3, <2>1, <2>2
  <2>4. \/ Side(h.facets, c, l) = Side(h.facets, f, k)
        \/ Side(h.facets, c, l) = Reversed(Side(h.facets, f, k))
    <3>1. NodeAt(h, zs, f, k) = NodeAt(h, zs, c, l)
      BY <1>9, <2>3 DEF node
    <3> HIDE DEF at, node
    <3> QED
      BY <1>9, <2>3, <3>1, SameNodeSides
  <2>5. c = f \/ c = g
    <3> HIDE DEF at, Cut
    <3>1. CASE Side(h.facets, c, l) = Side(h.facets, f, k)
      BY <1>6, <3>1, Zenon
    <3>2. CASE Side(h.facets, c, l) = Reversed(Side(h.facets, f, k))
      <4>1. Side(h.facets, c, l) = Side(h.facets, g, j)
        BY <1>10, <3>2
      <4> QED
        BY <1>6, <4>1, Zenon
    <3> QED
      BY <2>4, <3>1, <3>2
  <2> QED
    BY <2>1, <2>5
<1> HIDE DEF at
<1>16. at = {edge(f), edge(g)}
  BY <1>14, <1>15
<1>17. Cardinality({edge(f), edge(g)}) = 2
  <2> DEFINE A == {edge(f)}
  <2>1. IsFiniteSet(A) /\ Cardinality(A) = 1 /\ edge(g) \notin A
    BY <1>13, FS_Singleton
  <2> HIDE DEF A
  <2>2. Cardinality(A \union {edge(g)}) = Cardinality(A) + 1
    BY <2>1, FS_AddElement
  <2>3. {edge(f), edge(g)} = A \union {edge(g)}
    BY DEF A
  <2>4. Cardinality(A \union {edge(g)}) = 2
    BY <2>1, <2>2
  <2> QED
    BY <2>3, <2>4
<1>18. Cardinality(at) = 2
  BY <1>16, <1>17
<1> QED
  BY <1>18 DEF at, i

\* All components of the contour are loops then.
LEMMA RoundContours ==
  ASSUME ProperHulls, ClosedHulls, OrientedHulls, hull \in {Build(h) : h \in Hulls},
         NEW zs \in [1 .. hull.vertices -> Immersions], ComputedFrom(zs), Between(hull, zs),
         NEW k \in DOMAIN Components(surfaceEdges)
  PROVE  IsLoop(Components(surfaceEdges)[k])
<1> DEFINE i == Intersection(hull, zs)
           E == Components(surfaceEdges)[k]
<1>1. edges = i.edges /\ surfaceEdges = i.surfaceEdges
  BY DEF ComputedFrom
<1>2. \E n \in Nat : i.surfaceEdges \in SUBSET (1 .. n)
  BY SurfaceEdgesFrom
<1>3. ASSUME NEW w, NEW e \in i.surfaceEdges, w \in {i.edges[e][1], i.edges[e][2]}
      PROVE  Cardinality({d \in i.surfaceEdges : w \in {i.edges[d][1], i.edges[d][2]}}) = 2
  BY <1>3, TwoEdgesOfNode
<1> HIDE DEF i
<1>4. ASSUME NEW w, NEW e \in surfaceEdges, w \in Ends(e)
      PROVE  Cardinality(EdgesAt(surfaceEdges, w)) = 2
  BY <1>1, <1>3, <1>4 DEF Ends, EdgesAt
<1>5. ClosedIn(surfaceEdges, E)
  BY <1>1, <1>2, ComponentsApart
<1> HIDE DEF E
<1>6. ASSUME NEW v \in NodesOf(E)
      PROVE  Cardinality(EdgesAt(E, v)) = 2
  <2>1. PICK e \in E : v \in Ends(e)
    BY DEF NodesOf, Ends
  <2>2. e \in surfaceEdges
    BY <1>5 DEF ClosedIn
  <2>3. \A d \in surfaceEdges : v \in Ends(d) => d \in E
    BY <1>5, <2>1 DEF ClosedIn
  <2>4. EdgesAt(E, v) = EdgesAt(surfaceEdges, v)
    BY <1>5, <2>3 DEF EdgesAt, Ends, ClosedIn
  <2> QED
    BY <1>4, <2>1, <2>2, <2>4
<1> QED
  BY <1>6 DEF IsLoop, E

\* The contours of a loop have the same edges, whichever edge they start from.
LEMMA LoopsAgree ==
  ASSUME NEW E, E # {}, Plain(E), IsLoop(E), Connected(E)
  PROVE  ~ MayDisagree(E)
<1> DEFINE sets == {EdgeSet(p) : p \in Contours(E)}
<1>1. \A c \in Contours(E) : EdgeSet(c) = E
  BY ContoursClose DEF ClosedPath
<1>2. sets = {} \/ sets = {E}
  BY <1>1
<1> HIDE DEF sets
<1>3. Cardinality(sets) = 0 \/ Cardinality(sets) = 1
  BY <1>2, FS_EmptySet, FS_Singleton
<1>4. ~ (Cardinality(sets) > 1)
  BY <1>3
<1> QED
  BY <1>4 DEF MayDisagree, sets

(***************************************************************************)
(* The surface passes between the vertices of the hull: closing what it    *)
(* leaves open then raises no exception, and every component of the        *)
(* contour gets a polygon of its own.                                      *)
(***************************************************************************)
NoVertexInSurface == \A v \in 1 .. hull.vertices : z[v] # 0

CutsAreClosed ==
  Updated /\ NoVertexInSurface =>
    /\ ~ raised
    /\ ~ needClosing =>
         \A k \in DOMAIN Components(surfaceEdges) :
           Cardinality({j \in DOMAIN surface :
                          Closes(facets[surface[j]], Components(surfaceEdges)[k])}) = 1

\* The vertices the mesh says are not in the surface were not given there.
LEMMA BetweenVertices ==
  ASSUME hull \in {Build(h) : h \in Hulls}, NEW zs \in [1 .. hull.vertices -> Immersions],
         ComputedFrom(zs), NoVertexInSurface
  PROVE  Between(hull, zs)
<1> DEFINE i == Intersection(hull, zs)
<1>1. z = i.z /\ SubSeq(i.z, 1, hull.vertices) = zs
  BY IntersectionShape DEF ComputedFrom
<1>2. hull.vertices \in Nat
  BY BuiltHull
<1> HIDE DEF i
<1>3. \A v \in 1 .. hull.vertices : zs[v] = z[v]
  BY <1>1, <1>2
<1> QED
  BY <1>3 DEF Between, NoVertexInSurface

\* The contour as it is after an update.
LEMMA ContourParts ==
  ASSUME ProperHulls, SimpleHulls, ClosedHulls, OrientedHulls, hull \in {Build(h) : h \in Hulls},
         NEW zs \in [1 .. hull.vertices -> Immersions], ComputedFrom(zs), NoVertexInSurface,
         NEW k \in DOMAIN Components(surfaceEdges)
  PROVE  LET E == Components(surfaceEdges)[k]
         IN  E # {} /\ Plain(E) /\ IsLoop(E) /\ Connected(E)
<1> DEFINE E == Components(surfaceEdges)[k]
<1>1. PICK n \in Nat : surfaceEdges \in SUBSET (1 .. n) /\ Plain(surfaceEdges)
  BY MeshSurfacePlain
<1>2. E \subseteq surfaceEdges /\ E # {} /\ Connected(E)
  BY <1>1, ComponentsApart
<1>3. IsLoop(E)
  BY BetweenVertices, RoundContours
<1> HIDE DEF E
<1>4. IsFiniteSet(E)
  BY <1>1, <1>2, FS_Subset DEF Plain
<1>5. Plain(E)
  BY <1>1, <1>2, <1>4 DEF Plain
<1> QED
  BY <1>2, <1>3, <1>5 DEF E

\* The same after a step that leaves the edges alone.
LEMMA CutsAreClosedAfter ==
  ASSUME edges' = edges, surfaceEdges' = surfaceEdges, hull' = hull, z' = z
  PROVE  CutsAreClosed' <=>
           (Updated /\ NoVertexInSurface =>
              /\ ~ raised'
              /\ ~ needClosing' =>
                   \A k \in DOMAIN Components(surfaceEdges) :
                     Cardinality({j \in DOMAIN surface' :
                                    Closes(facets'[surface'[j]], Components(surfaceEdges)[k])}) = 1)
<1>1. Components(surfaceEdges)' = Components(surfaceEdges)
  BY DEF Components, Component, NodesOf
<1>2. \A f, E : Closes(f, E)' <=> Closes(f, E)
  BY DEF Closes, NodesOf
<1>3. (Updated' <=> Updated) /\ (NoVertexInSurface' <=> NoVertexInSurface)
  BY DEF Updated, NoVertexInSurface
<1> QED
  BY <1>1, <1>2, <1>3 DEF CutsAreClosed

\* It holds from the start and no step leaves it.
LEMMA CutsInductive ==
  ASSUME ProperHulls, SimpleHulls, ClosedHulls, OrientedHulls
  PROVE  /\ MeshInit => CutsAreClosed
         /\ MeshIInv /\ CutsAreClosed /\ [MeshNext]_meshVars => CutsAreClosed'
<1>1. MeshInit => CutsAreClosed
  BY DEF MeshInit, CutsAreClosed, Updated, NaNImmersions
<1>2. ASSUME MeshIInv, CutsAreClosed, [MeshNext]_meshVars
      PROVE  CutsAreClosed'
  <2>1. ASSUME NEW zs \in GivenImmersions, Update(zs) PROVE CutsAreClosed'
    <3>1. needClosing' /\ ~ raised'
      BY <2>1 DEF Update, Recompute
    <3> QED
      BY <3>1 DEF CutsAreClosed
  <2>2. ASSUME UpdateWithNaN PROVE CutsAreClosed'
    <3>1. z' = NaNImmersions
      BY <2>2 DEF UpdateWithNaN
    <3>2. ~ Updated'
      BY <3>1 DEF Updated
    <3> QED
      BY <3>2 DEF CutsAreClosed
  <2>3. ASSUME BuildClosing, NoVertexInSurface PROVE CutsAreClosed'
    <3> DEFINE parts == Components(surfaceEdges)
    <3>1. /\ needClosing /\ edges' = edges
          /\ surfaceEdges' = surfaceEdges /\ hull' = hull /\ z' = z
      BY <2>3 DEF BuildClosing
    <3>2. hull \in {Build(h) : h \in Hulls}
      BY <1>2 DEF MeshIInv
    <3> SUFFICES ASSUME Updated PROVE CutsAreClosed'
      BY <3>1, CutsAreClosedAfter
    <3>9. ~ raised /\ z # <<>>
      BY <1>2, <2>3 DEF CutsAreClosed, Updated, NaNImmersions
    <3>3. PICK zs \in [1 .. hull.vertices -> Immersions] : ComputedFrom(zs)
      BY <1>2, <3>9 DEF MeshIInv
    <3>4. PICK n \in Nat : surfaceEdges \in SUBSET (1 .. n) /\ Plain(surfaceEdges)
      BY <3>2, <3>3, MeshSurfacePlain
    <3>5. \A k \in DOMAIN parts : IsLoop(parts[k]) /\ ~ MayDisagree(parts[k])
      BY <2>3, <3>2, <3>3, ContourParts, LoopsAgree
    <3>6. IsList(facets) /\ surface = <<>>
      BY <1>2, <3>1, <3>3, <3>9 DEF MeshIInv, ComputedFrom, Begins
    <3>7. PICK contours :
            /\ \A k \in DOMAIN parts : contours[k] \in Contours(parts[k])
            /\ AddFacets(contours, Len(parts)) /\ needClosing' = FALSE /\ raised' = raised
      BY <2>3, <3>5, Zenon DEF BuildClosing
    <3>8. \A k \in DOMAIN parts :
            Cardinality({j \in DOMAIN surface' : Closes(facets'[surface'[j]], parts[k])}) = 1
      BY <3>4, <3>5, <3>6, <3>7, LoopsGetFacets
    <3> QED
      BY <3>1, <3>7, <3>8, <3>9, CutsAreClosedAfter
  <2>4. ASSUME BuildClosing, ~ NoVertexInSurface PROVE CutsAreClosed'
    <3>1. hull' = hull /\ z' = z
      BY <2>4 DEF BuildClosing
    <3>2. ~ NoVertexInSurface'
      BY <2>4, <3>1 DEF NoVertexInSurface
    <3> QED
      BY <3>2 DEF CutsAreClosed
  <2>5. ASSUME UNCHANGED meshVars PROVE CutsAreClosed'
    <3>1. /\ edges' = edges /\ surfaceEdges' = surfaceEdges /\ surface' = surface /\ facets' = facets
          /\ raised' = raised /\ needClosing' = needClosing /\ z' = z /\ hull' = hull
      BY <2>5 DEF meshVars
    <3> QED
      BY <1>2, <3>1, CutsAreClosedAfter DEF CutsAreClosed
  <2> QED
    BY <1>2, <2>1, <2>2, <2>3, <2>4, <2>5, Zenon DEF MeshNext, MeshIdle
<1> QED
  BY <1>1, <1>2

\* For all closed and oriented hulls of triangles different from each other,
\* whenever the surface passes between the vertices: contours found from two
\* edges never disagree, so that closing the cut raises nothing, and each
\* component of the contour, forks and dead ends being impossible, is closed by
\* one polygon (MeshIntersector::build_closing_edge, ClosingFacetComputer).
THEOREM CutsAlwaysClosed ==
  ASSUME ProperHulls, SimpleHulls, ClosedHulls, OrientedHulls
  PROVE  MeshSpec => []CutsAreClosed
<1> QED
  BY MeshInductive, CutsInductive, PTL DEF MeshSpec
=============================================================================
