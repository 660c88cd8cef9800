---------------------------- MODULE EvaluationProofs ----------------------------
(***************************************************************************)
(* What a published generation and what is concluded from it keep, for any *)
(* facts, any policies, any number of publishers, readers and generations. *)
(* First the index: whatever the compiler accepts to build can be routed,  *)
(* by induction over its levels. Then the invariant of Retrieval, and what *)
(* follows for receipts and for the verdicts of Evaluation.                *)
(***************************************************************************)
EXTENDS Evaluation, TLAPS, FiniteSetTheorems, WellFoundedInduction

-------------------------------------------------------------------------------
(* Numbers                                                                   *)

\* Induction for a set of numbers, from the well-foundedness of <.
LEMMA Induction == ASSUME NEW T \in SUBSET Nat, 0 \in T, \A n \in T : n + 1 \in T
                   PROVE  T = Nat
<1>. SUFFICES ASSUME Nat \ T # {} PROVE FALSE
     OBVIOUS
<1>1. PICK x \in Nat \ T : \A y \in Nat \ T : ~ (<<y, x>> \in OpToRel(<, Nat))
      BY WFMin, NatLessThanWellFounded, Zenon
<1>2. x \in Nat /\ x \notin T /\ \A y \in Nat \ T : ~ (y < x)
      BY <1>1, Zenon DEF OpToRel
<1> HIDE <1>1
<1>3. x # 0 /\ x - 1 \in Nat /\ x - 1 < x /\ x = (x - 1) + 1
      BY <1>2
<1>. QED  BY <1>2, <1>3

\* A finite set of numbers that is not empty has a largest and a smallest.
LEMMA HasExtremes == ASSUME NEW S \in SUBSET Nat, IsFiniteSet(S), S # {}
                     PROVE  /\ \E m \in S : \A k \in S : k <= m
                            /\ \E m \in S : \A k \in S : m <= k
<1> DEFINE T == {n \in Nat : \A R \in SUBSET S : Cardinality(R) = n /\ R # {} =>
                    /\ \E m \in R : \A k \in R : k <= m
                    /\ \E m \in R : \A k \in R : m <= k}
<1>1. 0 \in T
  <2>1. \A R \in SUBSET S : Cardinality(R) = 0 => R = {}
        BY FS_Subset, FS_EmptySet
  <2>. QED  BY <2>1
<1>2. ASSUME NEW n \in T PROVE n + 1 \in T
  <2>. SUFFICES ASSUME NEW R \in SUBSET S, Cardinality(R) = n + 1, R # {}
                PROVE  /\ \E m \in R : \A k \in R : k <= m
                       /\ \E m \in R : \A k \in R : m <= k
       OBVIOUS
  <2>1. PICK x \in R : TRUE
        OBVIOUS
  <2>2. IsFiniteSet(R) /\ Cardinality(R \ {x}) = n
    <3>1. IsFiniteSet(R)
          BY FS_Subset
    <3>2. Cardinality(R \ {x}) = Cardinality(R) - 1
          BY <3>1, FS_RemoveElement
    <3>. QED  BY <3>1, <3>2
  <2>3. CASE R \ {x} = {}
        BY <2>3
  <2>4. CASE R \ {x} # {}
    <3>1. PICK m \in R \ {x} : \A k \in R \ {x} : k <= m
          BY <2>2, <2>4
    <3>2. PICK l \in R \ {x} : \A k \in R \ {x} : l <= k
          BY <2>2, <2>4
    <3>3. CASE x <= m /\ l <= x  BY <3>1, <3>2, <3>3
    <3>4. CASE x <= m /\ x < l  BY <3>1, <3>2, <3>4
    <3>5. CASE x > m /\ l <= x  BY <3>1, <3>2, <3>5
    <3>6. CASE x > m /\ x < l  BY <3>1, <3>2, <3>6
    <3>. QED  BY <3>3, <3>4, <3>5, <3>6
  <2>. QED  BY <2>3, <2>4
<1>3. T = Nat
  <2>. HIDE DEF T
  <2>1. T \subseteq Nat  BY DEF T
  <2>. QED  BY <1>1, <1>2, <2>1, Induction
<1>4. S \in SUBSET S /\ Cardinality(S) \in Nat
      BY FS_CardinalityType
<1>. QED  BY <1>3, <1>4

-------------------------------------------------------------------------------
(* The index: what is split, and the calls for the parts. An induction over  *)
(* the levels that are left shows that the recursive function exists.        *)

Entries(all) == /\ IsFiniteSet(all)
                /\ \A e \in all : e.ref[1] \in DOMAIN IdOf
                /\ \A e, f \in all : e.ref = f.ref => e = f

LEMMA LongestOk == ASSUME NEW all, Entries(all), NEW E \in SUBSET all, E # {}
                   PROVE  LongestId(E) \in Nat
<1> DEFINE lengths == {Len(IdOf[e.ref[1]]) : e \in E}
<1>1. IsFiniteSet(E)
      BY FS_Subset DEF Entries
<1>2. IsFiniteSet(lengths)
  <2>. DEFINE g == [e \in E |-> Len(IdOf[e.ref[1]])]
  <2>1. g \in Surjection(E, lengths)
        BY DEF Surjection
  <2>. HIDE DEF lengths
  <2>. QED  BY <1>1, <2>1, FS_Surjection
<1>3. \A e \in E : Len(IdOf[e.ref[1]]) \in Nat
  <2>. TAKE e \in E
  <2>1. IdOf[e.ref[1]] \in Seq(STRING)
        BY IndexAssumption DEF Entries
  <2>. QED  BY <2>1
<1>4. lengths \in SUBSET Nat /\ lengths # {}
      BY <1>3
<1>5. \E m \in lengths : \A k \in lengths : k <= m
  <2>. HIDE DEF lengths
  <2>. QED  BY <1>2, <1>4, HasExtremes
<1>. QED  BY <1>4, <1>5 DEF LongestId

LEMMA UsedOk == ASSUME NEW all, Entries(all), NEW E \in SUBSET all, E # {}, NEW dim, NEW n \in Nat
                PROVE  UsedPrefix(E, dim, n) \in Nat
<1> DEFINE longer == {k \in n..LongestId(E) : Cardinality(Buckets(E, dim, k + 1)) > 1}
<1>1. LongestId(E) \in Nat
      BY LongestOk
<1>2. ASSUME longer # {} PROVE (CHOOSE k \in longer : \A j \in longer : k <= j) \in Nat
  <2>1. longer \in SUBSET Nat /\ IsFiniteSet(longer)
    <3>1. longer \in SUBSET (n..LongestId(E)) /\ IsFiniteSet(n..LongestId(E))
          BY <1>1, FS_Interval
    <3>. QED  BY <1>1, <3>1, FS_Subset
  <2>. HIDE DEF longer
  <2>. QED  BY <1>2, <2>1, HasExtremes
<1>. QED  BY <1>1, <1>2 DEF UsedPrefix

\* The first split that can be used.
LEMMA FirstOk == ASSUME NEW E, NEW c \in Nat, NEW n, Usable(E, c, n) # {}
                 PROVE  (CHOOSE i \in Usable(E, c, n) : \A k \in Usable(E, c, n) : i <= k)
                             \in Usable(E, c, n)
<1>1. Usable(E, c, n) \in SUBSET (c..Len(SplitOrder)) /\ Len(SplitOrder) \in Nat
      BY IndexAssumption DEF Usable
<1>2. IsFiniteSet(Usable(E, c, n)) /\ Usable(E, c, n) \in SUBSET Nat
  <2>1. IsFiniteSet(c..Len(SplitOrder))
        BY <1>1, FS_Interval
  <2>2. Usable(E, c, n) \in SUBSET Nat
        BY <1>1
  <2>. QED  BY <1>1, <2>1, <2>2, FS_Subset
<1>. QED  BY <1>2, HasExtremes


\* The split that a call makes, and the calls for its parts.
Splitting(a) == Usable(a.entries, a.cursor, a.prefix)
FirstSplit(a) == CHOOSE i \in Splitting(a) : \A k \in Splitting(a) : i <= k
Dim(a) == SplitOrder[FirstSplit(a)]
Used(a) == UsedPrefix(a.entries, Dim(a), a.prefix) + 1
Values(a) == Buckets(a.entries, Dim(a), Used(a))
Part(a, v) == InBucket(a.entries, Dim(a), Used(a), v)
SubCall(a, v) == [entries |-> Part(a, v), depth |-> a.depth + 1,
                  cursor |-> IF Dim(a) = "stable_id_prefix" THEN FirstSplit(a) ELSE FirstSplit(a) + 1,
                  prefix |-> Used(a)]
Fits(a) == Cardinality(a.entries) <= MaxEntriesPerPage
Stops(a) == a.depth >= MaxShardDepth \/ Splitting(a) = {}
Fails(node, a) == Cardinality(Values(a)) > MaxEntriesPerPage \/ \E v \in Values(a) : node[SubCall(a, v)] = {}
Root(a) == Page(<<>>, a.entries, {Route(<<Dim(a), v>>, Part(a, v)) : v \in Values(a)})
Parts(node, a) == UNION {Below(<<Dim(a), v>>, node[SubCall(a, v)]) : v \in Values(a)}

LEMMA NodeCases ==
    ASSUME NEW node, NEW a
    PROVE  CompileIndexNode(node, a) =
               IF Fits(a) THEN {Page(<<>>, a.entries, {})}
               ELSE IF Stops(a) THEN {}
               ELSE IF Fails(node, a) THEN {}
               ELSE {Root(a)} \cup Parts(node, a)
BY Zenon DEF CompileIndexNode, Splitting, FirstSplit, Dim, Used, Values, Part, SubCall, Fits,
   Stops, Fails, Root, Parts

LEMMA SplitOk ==
    ASSUME NEW all, Entries(all), NEW a \in Call(all), ~ Fits(a), ~ Stops(a)
    PROVE  /\ a.entries # {} /\ a.depth < MaxShardDepth
           /\ FirstSplit(a) \in 1..Len(SplitOrder) /\ Used(a) \in Nat
           /\ \A v : SubCall(a, v) \in Call(all)
<1>0. a.entries \in SUBSET all /\ a.depth \in Nat /\ a.cursor \in Nat \ {0} /\ a.prefix \in Nat
      BY DEF Call
<1>1. a.entries # {}
  <2>1. Cardinality({}) = 0 /\ 0 <= MaxEntriesPerPage
        BY FS_EmptySet, IndexAssumption
  <2>. QED  BY <2>1 DEF Fits
<1>2. Used(a) \in Nat
      BY <1>0, <1>1, UsedOk DEF Used
<1>3. FirstSplit(a) \in Splitting(a)
      BY <1>0, FirstOk, Zenon DEF FirstSplit, Splitting, Stops
<1>4. FirstSplit(a) \in 1..Len(SplitOrder) /\ FirstSplit(a) \in Nat \ {0}
  <2>1. \A i \in Splitting(a) : i \in 1..Len(SplitOrder) /\ i \in Nat \ {0}
        BY <1>0, IndexAssumption DEF Usable, Splitting
  <2>. QED  BY <1>3, <2>1
<1>5. a.depth < MaxShardDepth
      BY <1>0, IndexAssumption DEF Stops
<1>6. ASSUME NEW v PROVE SubCall(a, v) \in Call(all)
  <2>1. Part(a, v) \in SUBSET all
        BY <1>0 DEF Part, InBucket
  <2>. QED  BY <1>0, <1>2, <1>4, <2>1 DEF SubCall, Call
<1>. QED  BY <1>1, <1>2, <1>3, <1>4, <1>5, <1>6

\* What a call returns depends on what deeper calls return, and on none beyond the policy.
LEMMA NodeLocal ==
    ASSUME NEW all, Entries(all), NEW a \in Call(all), NEW f, NEW g,
           \A b \in Call(all) : a.depth < MaxShardDepth /\ b.depth = a.depth + 1 => f[b] = g[b]
    PROVE  CompileIndexNode(f, a) = CompileIndexNode(g, a)
<1>1. CASE Fits(a) \/ Stops(a)
      BY <1>1, NodeCases, Zenon
<1>2. CASE ~ Fits(a) /\ ~ Stops(a)
  <2>1. \A v : f[SubCall(a, v)] = g[SubCall(a, v)]
    <3>. TAKE v
    <3>1. SubCall(a, v).depth = a.depth + 1
          BY DEF SubCall
    <3>. QED  BY <1>2, <3>1, SplitOk
  <2>2. Fails(f, a) <=> Fails(g, a)
        BY <2>1 DEF Fails
  <2>3. Parts(f, a) = Parts(g, a)
        BY <2>1 DEF Parts
  <2>. QED  BY <2>2, <2>3, NodeCases, Zenon
<1>. QED  BY <1>1, <1>2

IsNode(all, f) == f = [a \in Call(all) |-> CompileIndexNode(f, a)]

LEMMA NodeExists == ASSUME NEW all, Entries(all) PROVE \E f : IsNode(all, f)
<1> DEFINE From(f, k) == /\ f = [a \in Call(all) |-> f[a]]
                         /\ \A a \in Call(all) : a.depth + k >= MaxShardDepth => f[a] = CompileIndexNode(f, a)
           T == {k \in Nat : \E f : From(f, k)}
<1>1. 0 \in T
  <2> DEFINE f == [a \in Call(all) |-> CompileIndexNode(0, a)]
  <2>1. ASSUME NEW a \in Call(all), a.depth >= MaxShardDepth
        PROVE  f[a] = CompileIndexNode(f, a)
    <3>1. ~ (a.depth < MaxShardDepth)
          BY <2>1, IndexAssumption DEF Call
    <3>2. CompileIndexNode(0, a) = CompileIndexNode(f, a)
          BY <3>1, NodeLocal
    <3>. QED  BY <3>2
  <2>2. \A a \in Call(all) : a.depth + 0 = a.depth
        BY DEF Call
  <2>3. From(f, 0)
        BY <2>1, <2>2
  <2>. QED  BY <2>3
<1>2. ASSUME NEW k \in T PROVE k + 1 \in T
  <2>1. PICK f : From(f, k)
        OBVIOUS
  <2>2. PICK g : g = [a \in Call(all) |-> CompileIndexNode(f, a)]
        OBVIOUS
  <2>3. ASSUME NEW a \in Call(all), a.depth + (k + 1) >= MaxShardDepth
        PROVE  g[a] = CompileIndexNode(g, a)
    <3>1. ASSUME NEW b \in Call(all), b.depth = a.depth + 1 PROVE f[b] = g[b]
      <4>1. b.depth + k >= MaxShardDepth
            BY <2>3, <3>1, IndexAssumption DEF Call
      <4>. QED  BY <2>1, <2>2, <4>1
    <3>2. CompileIndexNode(f, a) = CompileIndexNode(g, a)
          BY <3>1, NodeLocal
    <3>. QED  BY <2>2, <3>2
  <2>4. From(g, k + 1)
        BY <2>2, <2>3
  <2>. QED  BY <2>4
<1>3. T = Nat
  <2>1. T \subseteq Nat
        OBVIOUS
  <2>. HIDE DEF T
  <2>. QED  BY <1>1, <1>2, <2>1, Induction
<1>4. PICK f : From(f, MaxShardDepth)
      BY <1>3, IndexAssumption
<1>5. \A a \in Call(all) : a.depth + MaxShardDepth >= MaxShardDepth
      BY IndexAssumption DEF Call
<1>6. f = [a \in Call(all) |-> CompileIndexNode(f, a)]
      BY <1>4, <1>5
<1>. QED  BY <1>6 DEF IsNode

\* So the compiler's node is what its definition says.
LEMMA TreeOfNode == ASSUME NEW all, Entries(all)
                    PROVE  \E f : /\ \A a \in Call(all) : f[a] = CompileIndexNode(f, a)
                                 /\ CompileIndexTree(all) = f[[entries |-> all, depth |-> 0, cursor |-> 1, prefix |-> 0]]
<1> DEFINE node == CHOOSE f : f = [a \in Call(all) |-> CompileIndexNode(f, a)]
<1>1. node = [a \in Call(all) |-> CompileIndexNode(node, a)]
      BY NodeExists, Zenon DEF IsNode
<1>2. CompileIndexTree(all) = node[[entries |-> all, depth |-> 0, cursor |-> 1, prefix |-> 0]]
      BY Zenon DEF CompileIndexTree
<1>. HIDE DEF node
<1>3. \A a \in Call(all) : node[a] = CompileIndexNode(node, a)
      BY <1>1
<1>. QED  BY <1>2, <1>3

LEMMA Under ==
    ASSUME NEW S, NEW s \in S, NEW p \in Seq(S)
    PROVE  /\ <<s>> \o p \in Seq(S) /\ <<s>> \o p # <<>>
           /\ Len(<<s>> \o p) = Len(p) + 1
           /\ (<<s>> \o p)[1] = s
           /\ \A i \in 1..Len(p) : (<<s>> \o p)[i + 1] = p[i]
           /\ \A r \in S : Append(<<s>> \o p, r) = <<s>> \o Append(p, r)
<1>1. <<s>> \in Seq(S) /\ Len(<<s>>) = 1
      OBVIOUS
<1>2. <<s>> \o p \in Seq(S) /\ Len(<<s>> \o p) = Len(p) + 1
      BY <1>1
<1>3. (<<s>> \o p)[1] = s /\ \A i \in 1..Len(p) : (<<s>> \o p)[i + 1] = p[i]
      BY <1>1
<1>4. ASSUME NEW r \in S PROVE Append(<<s>> \o p, r) = <<s>> \o Append(p, r)
  <2>1. Append(<<s>> \o p, r) \in Seq(S) /\ Append(p, r) \in Seq(S)
        BY <1>2
  <2>2. <<s>> \o Append(p, r) \in Seq(S)
        BY <1>1, <2>1
  <2>3. Len(Append(<<s>> \o p, r)) = Len(p) + 2 /\ Len(<<s>> \o Append(p, r)) = Len(p) + 2
        BY <1>1, <1>2, <2>1
  <2>4. \A i \in 1..Len(p) + 2 : Append(<<s>> \o p, r)[i] = (<<s>> \o Append(p, r))[i]
        BY <1>1, <1>2, <2>1, <2>2, <2>3
  <2>. QED  BY <2>1, <2>2, <2>3, <2>4
<1>5. <<s>> \o p # <<>>
      BY <1>2
<1>. QED  BY <1>2, <1>3, <1>4, <1>5

LEMMA UnderInjective ==
    ASSUME NEW S, NEW s \in S, NEW t \in S, NEW p \in Seq(S), NEW q \in Seq(S),
   <<s>> \o p = <<t>> \o q
    PROVE  s = t /\ p = q
<1>1. s = t
      BY Under
<1>2. Len(p) = Len(q)
  <2>1. Len(p) + 1 = Len(q) + 1
        BY Under
  <2>. QED  BY <2>1
<1>3. \A i \in 1..Len(p) : p[i] = q[i]
      BY <1>2, Under
<1>. QED  BY <1>1, <1>2, <1>3

-------------------------------------------------------------------------------
(* The index: the shape of the tree of a call.                               *)

Step(all) == {<<SplitOrder[i], Bucket(e, SplitOrder[i], n)>> : i \in 1..Len(SplitOrder), e \in all, n \in Nat}

PageType(all) == [path : Seq(Step(all)), count : Nat, entries : SUBSET all,
                  routes : SUBSET [step : Step(all), count : Nat]]

PageOK(p) == /\ Cardinality(p.entries) <= MaxEntriesPerPage
             /\ Cardinality(p.routes) <= MaxEntriesPerPage
             /\ p.count # 0 => (p.entries = {}) # (p.routes = {})
             /\ p.entries # {} => p.count = Cardinality(p.entries)

RouteOK(tree, p) == \A route \in p.routes :
    \E child \in tree : child.path = Append(p.path, route.step) /\ child.count = route.count

Reached(tree, p) == \E parent \in tree : \E route \in parent.routes : Append(parent.path, route.step) = p.path

\* The pages of a tree for E of at most k levels of routes.
Shape(all, tree, E, k) ==
    /\ tree \subseteq PageType(all)
    /\ \E root \in tree : root.path = <<>> /\ root.count = Cardinality(E)
    /\ \A p, q \in tree : p.path = q.path => p = q
    /\ \A p \in tree : PageOK(p) /\ Len(p.path) <= k /\ p.entries \subseteq E
    /\ \A p \in tree : RouteOK(tree, p) /\ (p.path = <<>> \/ Reached(tree, p))
    /\ \A p, q \in tree : p.entries \cap q.entries # {} => p = q
    /\ \A e \in E : \E p \in tree : e \in p.entries

LEMMA LeafShape == ASSUME NEW all, Entries(all), NEW a \in Call(all), Fits(a), NEW k \in Nat
                   PROVE  Shape(all, {Page(<<>>, a.entries, {})}, a.entries, k)
<1> DEFINE E == a.entries
           p == Page(<<>>, E, {})
<1>1. E \in SUBSET all /\ IsFiniteSet(E) /\ Cardinality(E) \in Nat
  <2>1. E \in SUBSET all
        BY DEF Call
  <2>2. IsFiniteSet(E)
        BY <2>1, FS_Subset DEF Entries
  <2>. QED  BY <2>1, <2>2, FS_CardinalityType
<1>2. p = [path |-> <<>>, count |-> Cardinality(E), entries |-> E, routes |-> {}]
      BY DEF Page
<1>3. p \in PageType(all)
  <2>1. <<>> \in Seq(Step(all)) /\ {} \in SUBSET [step : Step(all), count : Nat]
        OBVIOUS
  <2>. HIDE DEF E, p
  <2>. QED  BY <1>1, <1>2, <2>1 DEF PageType
<1>4. Cardinality({}) = 0 /\ (Cardinality(E) = 0 <=> E = {})
      BY <1>1, FS_EmptySet
<1>. HIDE DEF E
<1>5. PageOK(p) /\ p.entries = E /\ p.count = Cardinality(E) /\ p.path = <<>> /\ p.routes = {}
  <2>. HIDE DEF p
  <2>1. p.entries = E /\ p.count = Cardinality(E) /\ p.path = <<>> /\ p.routes = {}
        BY <1>2
  <2>. QED  BY <2>1, <1>1, <1>4, IndexAssumption DEF PageOK, Fits, E
<1>. HIDE DEF p
<1>6. Len(p.path) <= k
      BY <1>5
<1>. QED  BY <1>3, <1>5, <1>6 DEF Shape, RouteOK, E, p

LEMMA PartsOk ==
    ASSUME NEW all, Entries(all), NEW a \in Call(all), ~ Fits(a), ~ Stops(a)
    PROVE  /\ IsFiniteSet(Values(a)) /\ Values(a) # {}
           /\ \A v \in Values(a) : Part(a, v) \subseteq a.entries /\ <<Dim(a), v>> \in Step(all)
           /\ \A v, w : Part(a, v) \cap Part(a, w) # {} => v = w
           /\ \A e \in a.entries : \E v \in Values(a) : e \in Part(a, v)
           /\ IsFiniteSet(a.entries)
<1> DEFINE E == a.entries
<1>1. E \in SUBSET all /\ IsFiniteSet(E)
  <2>1. E \in SUBSET all
        BY DEF Call
  <2>. QED  BY <2>1, FS_Subset DEF Entries
<1>2. E # {} /\ Used(a) \in Nat /\ FirstSplit(a) \in 1..Len(SplitOrder)
      BY SplitOk
<1>3. IsFiniteSet(Values(a))
  <2> DEFINE g == [e \in E |-> Bucket(e, Dim(a), Used(a))]
  <2>1. g \in Surjection(E, Values(a))
        BY DEF Surjection, Values, Buckets
  <2>. HIDE DEF g
  <2>. QED  BY <1>1, <2>1, FS_Surjection
<1>4. \A e \in E : /\ Bucket(e, Dim(a), Used(a)) \in Values(a)
                   /\ e \in Part(a, Bucket(e, Dim(a), Used(a)))
      BY DEF Values, Buckets, Part, InBucket
<1>5. \A v \in Values(a) : <<Dim(a), v>> \in Step(all)
      BY <1>1, <1>2 DEF Values, Buckets, Step, Dim
<1>6. \A v : Part(a, v) = {e \in E : Bucket(e, Dim(a), Used(a)) = v}
      BY DEF Part, InBucket
<1>. HIDE DEF E
<1>. QED  BY <1>1, <1>2, <1>3, <1>4, <1>5, <1>6 DEF E

Lift(s, p) == [p EXCEPT !.path = <<s>> \o @]

LEMMA LiftOk ==
    ASSUME NEW all, NEW s \in Step(all), NEW p \in PageType(all)
    PROVE  /\ Lift(s, p) \in PageType(all)
           /\ Lift(s, p).path = <<s>> \o p.path /\ Lift(s, p).path # <<>>
           /\ Len(Lift(s, p).path) = Len(p.path) + 1
           /\ Lift(s, p).count = p.count /\ Lift(s, p).entries = p.entries
           /\ Lift(s, p).routes = p.routes
<1>1. p.path \in Seq(Step(all))
      BY DEF PageType
<1>2. <<s>> \o p.path \in Seq(Step(all)) /\ <<s>> \o p.path # <<>> /\ Len(<<s>> \o p.path) = Len(p.path) + 1
      BY <1>1, Under
<1>3. Lift(s, p) \in PageType(all) /\ Lift(s, p).path = <<s>> \o p.path
      BY <1>2 DEF Lift, PageType
<1>4. Lift(s, p).count = p.count /\ Lift(s, p).entries = p.entries /\ Lift(s, p).routes = p.routes
      BY DEF Lift, PageType
<1>. QED  BY <1>2, <1>3, <1>4

\* The page of a call that splits its entries.
LEMMA RootOk ==
    ASSUME NEW all, Entries(all), NEW a \in Call(all), ~ Fits(a), ~ Stops(a),
           Cardinality(Values(a)) <= MaxEntriesPerPage
    PROVE  /\ Root(a) \in PageType(all) /\ PageOK(Root(a))
           /\ Root(a).path = <<>> /\ Root(a).count = Cardinality(a.entries) /\ Root(a).entries = {}
           /\ \A r \in Root(a).routes : \E v \in Values(a) : r = Route(<<Dim(a), v>>, Part(a, v))
           /\ \A v \in Values(a) : Route(<<Dim(a), v>>, Part(a, v)) \in Root(a).routes
<1> DEFINE routes == {Route(<<Dim(a), v>>, Part(a, v)) : v \in Values(a)}
<1>1. routes # {}
  <2>1. PICK v \in Values(a) : TRUE
        BY PartsOk
  <2>. QED  BY <2>1
<1>2. Root(a) = [path |-> <<>>, count |-> Cardinality(a.entries), entries |-> {}, routes |-> routes]
      BY <1>1 DEF Root, Page
<1>3. Cardinality(a.entries) \in Nat
      BY PartsOk, FS_CardinalityType
<1>4. routes \in SUBSET [step : Step(all), count : Nat]
  <2>. SUFFICES ASSUME NEW v \in Values(a)
                PROVE  Route(<<Dim(a), v>>, Part(a, v)) \in [step : Step(all), count : Nat]
       OBVIOUS
  <2>1. <<Dim(a), v>> \in Step(all) /\ Part(a, v) \in SUBSET a.entries /\ IsFiniteSet(a.entries)
        BY PartsOk
  <2>2. Cardinality(Part(a, v)) \in Nat
        BY <2>1, FS_Subset, FS_CardinalityType
  <2>. QED  BY <2>1, <2>2 DEF Route
<1>5. Cardinality(routes) <= MaxEntriesPerPage
  <2> DEFINE g == [v \in Values(a) |-> Route(<<Dim(a), v>>, Part(a, v))]
  <2>1. g \in Surjection(Values(a), routes)
        BY DEF Surjection
  <2>. HIDE DEF g, routes
  <2>2. IsFiniteSet(Values(a)) /\ IsFiniteSet(routes) /\ Cardinality(routes) <= Cardinality(Values(a))
        BY <2>1, PartsOk, FS_Surjection
  <2>. QED  BY <2>2, FS_CardinalityType, IndexAssumption
<1>6. Root(a) \in PageType(all)
  <2>1. <<>> \in Seq(Step(all)) /\ {} \in SUBSET all
        OBVIOUS
  <2>. HIDE DEF routes
  <2>. QED  BY <1>2, <1>3, <1>4, <2>1 DEF PageType
<1>7. PageOK(Root(a))
  <2>1. Cardinality({}) = 0
        BY FS_EmptySet
  <2>. HIDE DEF routes
  <2>. QED  BY <1>1, <1>2, <1>5, <2>1, IndexAssumption DEF PageOK
<1>. QED  BY <1>2, <1>6, <1>7

LEMMA JoinShape ==
    ASSUME NEW all, Entries(all), NEW a \in Call(all), ~ Fits(a), ~ Stops(a),
           NEW node, ~ Fails(node, a), NEW k \in Nat,
           \A v \in Values(a) : Shape(all, node[SubCall(a, v)], Part(a, v), k)
    PROVE  Shape(all, {Root(a)} \cup Parts(node, a), a.entries, k + 1)
<1> DEFINE V == Values(a)
           s(v) == <<Dim(a), v>>
           C(v) == Part(a, v)
           T(v) == node[SubCall(a, v)]
           tree == {Root(a)} \cup Parts(node, a)
<1>1. /\ V # {} /\ IsFiniteSet(V) /\ IsFiniteSet(a.entries)
      /\ \A v \in V : C(v) \subseteq a.entries /\ s(v) \in Step(all)
      /\ \A v, w : C(v) \cap C(w) # {} => v = w
      /\ \A e \in a.entries : \E v \in V : e \in C(v)
      BY PartsOk, Zenon
<1>2. Cardinality(V) <= MaxEntriesPerPage
  <2>1. Cardinality(V) \in Nat
        BY <1>1, FS_CardinalityType
  <2>. QED  BY <2>1, IndexAssumption DEF Fails
<1>3. /\ Root(a) \in PageType(all) /\ PageOK(Root(a))
      /\ Root(a).path = <<>> /\ Root(a).count = Cardinality(a.entries) /\ Root(a).entries = {}
      /\ \A r \in Root(a).routes : \E v \in V : r = Route(s(v), C(v))
      /\ \A v \in V : Route(s(v), C(v)) \in Root(a).routes
      BY <1>2, RootOk, Zenon
<1>4. \A q : q \in Parts(node, a) <=> \E v \in V : \E p \in T(v) : q = Lift(s(v), p)
  <2>1. Parts(node, a) = UNION {{Lift(s(v), p) : p \in T(v)} : v \in V}
        BY Zenon DEF Parts, Below, Lift
  <2>. HIDE DEF V, T, s
  <2>. QED  BY <2>1
<1>5. \A v \in V : T(v) \subseteq PageType(all)
      BY DEF Shape
<1>6. \A v \in V : \A p \in T(v) :
          /\ Lift(s(v), p) \in tree
          /\ Lift(s(v), p) \in PageType(all)
          /\ Lift(s(v), p).path = <<s(v)>> \o p.path /\ Lift(s(v), p).path # <<>>
          /\ Len(Lift(s(v), p).path) = Len(p.path) + 1
          /\ Lift(s(v), p).count = p.count /\ Lift(s(v), p).entries = p.entries
          /\ Lift(s(v), p).routes = p.routes
  <2>. TAKE v \in V
  <2>. TAKE p \in T(v)
  <2>1. p \in PageType(all) /\ s(v) \in Step(all)
        BY <1>1, <1>5
  <2>2. Lift(s(v), p) \in tree
        BY <1>4
  <2>. HIDE DEF s, T, tree, V
  <2>. QED  BY <2>1, <2>2, LiftOk
<1>7. \A q \in tree : q = Root(a) \/ \E v \in V : \E p \in T(v) : q = Lift(s(v), p)
      BY <1>4
<1>8. \A v \in V : Shape(all, T(v), C(v), k)
      OBVIOUS
<1>9. Root(a) \in tree
      OBVIOUS
<1>10. \A v \in V : Route(s(v), C(v)).step = s(v) /\ Route(s(v), C(v)).count = Cardinality(C(v))
      BY DEF Route
<1>. HIDE DEF V, s, C, T, tree
<1>11. tree \subseteq PageType(all)
      BY <1>3, <1>6, <1>7
<1>12. \A p, q \in tree : p.path = q.path => p = q
  <2>. SUFFICES ASSUME NEW x \in tree, NEW y \in tree, x.path = y.path PROVE x = y
       OBVIOUS
  <2>1. CASE x = Root(a) /\ y = Root(a)
        BY <2>1
  <2>2. CASE x = Root(a) /\ y # Root(a)
        BY <2>2, <1>3, <1>6, <1>7
  <2>3. CASE x # Root(a) /\ y = Root(a)
        BY <2>3, <1>3, <1>6, <1>7
  <2>4. CASE x # Root(a) /\ y # Root(a)
    <3>1. PICK v \in V : \E p \in T(v) : x = Lift(s(v), p)
          BY <2>4, <1>7
    <3>2. PICK p \in T(v) : x = Lift(s(v), p)
          BY <3>1
    <3>3. PICK w \in V : \E q \in T(w) : y = Lift(s(w), q)
          BY <2>4, <1>7
    <3>4. PICK q \in T(w) : y = Lift(s(w), q)
          BY <3>3
    <3>5. <<s(v)>> \o p.path = <<s(w)>> \o q.path
          BY <3>2, <3>4, <1>6
    <3>6. p.path \in Seq(Step(all)) /\ q.path \in Seq(Step(all)) /\ s(v) \in Step(all) /\ s(w) \in Step(all)
          BY <1>1, <1>5 DEF PageType
    <3>7. s(v) = s(w) /\ p.path = q.path
          BY <3>5, <3>6, UnderInjective
    <3>8. v = w
          BY <3>7 DEF s
    <3>. QED  BY <3>2, <3>4, <3>7, <3>8, <1>8 DEF Shape
  <2>. QED  BY <2>1, <2>2, <2>3, <2>4
<1>13. \A p \in tree : PageOK(p) /\ Len(p.path) <= k + 1 /\ p.entries \subseteq a.entries
  <2>1. PageOK(Root(a)) /\ Len(Root(a).path) <= k + 1 /\ Root(a).entries \subseteq a.entries
        BY <1>3
  <2>2. ASSUME NEW v \in V, NEW p \in T(v)
        PROVE  /\ PageOK(Lift(s(v), p)) /\ Len(Lift(s(v), p).path) <= k + 1
               /\ Lift(s(v), p).entries \subseteq a.entries
    <3>1. PageOK(p) /\ Len(p.path) <= k /\ p.entries \subseteq C(v) /\ Len(p.path) \in Nat
          BY <1>5, <1>8 DEF Shape, PageType
    <3>2. PageOK(Lift(s(v), p))
          BY <3>1, <1>6, Zenon DEF PageOK
    <3>3. Lift(s(v), p).entries = p.entries /\ Len(Lift(s(v), p).path) = Len(p.path) + 1
          BY <1>6
    <3>4. p.entries \subseteq a.entries
          BY <3>1, <1>1
    <3>. QED  BY <3>1, <3>2, <3>3, <3>4
  <2>. QED  BY <2>1, <2>2, <1>7
<1>14. \A v \in V : \E p \in T(v) : /\ p.path = <<>> /\ p.count = Cardinality(C(v))
                                   /\ Lift(s(v), p).path = Append(<<>>, s(v))
  <2>. TAKE v \in V
  <2>1. PICK p \in T(v) : p.path = <<>> /\ p.count = Cardinality(C(v))
        BY <1>8 DEF Shape
  <2>2. <<s(v)>> \o <<>> = Append(<<>>, s(v))
        OBVIOUS
  <2>. QED  BY <2>1, <2>2, <1>6
<1>15. \A v \in V : \A p \in T(v) : \A r \in p.routes :
           Append(Lift(s(v), p).path, r.step) = <<s(v)>> \o Append(p.path, r.step)
  <2>. TAKE v \in V
  <2>. TAKE p \in T(v)
  <2>. TAKE r \in p.routes
  <2>1. p.path \in Seq(Step(all)) /\ r.step \in Step(all) /\ s(v) \in Step(all)
        BY <1>1, <1>5 DEF PageType
  <2>2. Append(<<s(v)>> \o p.path, r.step) = <<s(v)>> \o Append(p.path, r.step)
    <3>1. PICK x : x = s(v)
          OBVIOUS
    <3>2. x \in Step(all)
          BY <2>1, <3>1
    <3>3. \A y \in Step(all) : Append(<<x>> \o p.path, y) = <<x>> \o Append(p.path, y)
          BY <2>1, <3>2, Under
    <3>. QED  BY <2>1, <3>1, <3>3
  <2>. QED  BY <2>2, <1>6
<1>16. \A p \in tree : RouteOK(tree, p)
  <2>1. RouteOK(tree, Root(a))
    <3>. SUFFICES ASSUME NEW v \in V
                  PROVE  \E child \in tree : /\ child.path = Append(Root(a).path, Route(s(v), C(v)).step)
                                             /\ child.count = Route(s(v), C(v)).count
         BY <1>3 DEF RouteOK
    <3>1. Append(Root(a).path, Route(s(v), C(v)).step) = Append(<<>>, s(v))
          BY <1>3, <1>10
    <3>2. PICK p \in T(v) : p.count = Cardinality(C(v)) /\ Lift(s(v), p).path = Append(<<>>, s(v))
          BY <1>14
    <3>. QED  BY <3>1, <3>2, <1>6, <1>10, Zenon
  <2>2. ASSUME NEW v \in V, NEW p \in T(v) PROVE RouteOK(tree, Lift(s(v), p))
    <3>. SUFFICES ASSUME NEW r \in p.routes
                  PROVE  \E child \in tree : /\ child.path = Append(Lift(s(v), p).path, r.step)
                                             /\ child.count = r.count
         BY <1>6 DEF RouteOK
    <3>1. PICK c \in T(v) : c.path = Append(p.path, r.step) /\ c.count = r.count
      <4>1. RouteOK(T(v), p)
            BY <1>8 DEF Shape
      <4>. QED  BY <4>1, Zenon DEF RouteOK
    <3>2. Lift(s(v), c).path = Append(Lift(s(v), p).path, r.step)
          BY <3>1, <1>6, <1>15
    <3>3. Lift(s(v), c).count = r.count /\ Lift(s(v), c) \in tree
          BY <3>1, <1>6
    <3>. QED  BY <3>2, <3>3
  <2>. QED  BY <2>1, <2>2, <1>7
<1>17. \A p \in tree : p.path = <<>> \/ Reached(tree, p)
  <2>. SUFFICES ASSUME NEW v \in V, NEW p \in T(v) PROVE Reached(tree, Lift(s(v), p))
       BY <1>3, <1>7
  <2>1. CASE p.path = <<>>
    <3>1. Lift(s(v), p).path = Append(<<>>, s(v))
      <4>1. <<s(v)>> \o <<>> = Append(<<>>, s(v))
            OBVIOUS
      <4>. QED  BY <4>1, <2>1, <1>6
    <3>. QED  BY <3>1, <1>3, <1>9, <1>10 DEF Reached
  <2>2. CASE p.path # <<>>
    <3>0. PICK parent \in T(v) : \E route \in parent.routes : Append(parent.path, route.step) = p.path
          BY <2>2, <1>8 DEF Shape, Reached
    <3>1. PICK route \in parent.routes : Append(parent.path, route.step) = p.path
          BY <3>0
    <3>2. route \in Lift(s(v), parent).routes /\ Lift(s(v), parent) \in tree
          BY <1>6
    <3>3. Append(Lift(s(v), parent).path, route.step) = Lift(s(v), p).path
          BY <3>1, <1>6, <1>15
    <3>. QED  BY <3>2, <3>3 DEF Reached
  <2>. QED  BY <2>1, <2>2
<1>18. \A p, q \in tree : p.entries \cap q.entries # {} => p = q
  <2>. SUFFICES ASSUME NEW x \in tree, NEW y \in tree, NEW e \in x.entries \cap y.entries
                PROVE x = y
       OBVIOUS
  <2>1. x # Root(a) /\ y # Root(a)
        BY <1>3
  <2>2. PICK v \in V : \E p \in T(v) : x = Lift(s(v), p)
        BY <2>1, <1>7
  <2>3. PICK p \in T(v) : x = Lift(s(v), p)
        BY <2>2
  <2>4. PICK w \in V : \E q \in T(w) : y = Lift(s(w), q)
        BY <2>1, <1>7
  <2>5. PICK q \in T(w) : y = Lift(s(w), q)
        BY <2>4
  <2>6. e \in p.entries /\ e \in q.entries
        BY <2>3, <2>5, <1>6
  <2>7. e \in C(v) /\ e \in C(w)
        BY <2>6, <1>8 DEF Shape
  <2>8. v = w
        BY <2>7, <1>1
  <2>. QED  BY <2>3, <2>5, <2>6, <2>8, <1>8 DEF Shape
<1>19. \A e \in a.entries : \E p \in tree : e \in p.entries
  <2>. TAKE e \in a.entries
  <2>1. PICK v \in V : e \in C(v)
        BY <1>1
  <2>2. PICK p \in T(v) : e \in p.entries
        BY <2>1, <1>8 DEF Shape
  <2>. QED  BY <2>2, <1>6
<1>20. Shape(all, tree, a.entries, k + 1)
      BY <1>3, <1>9, <1>11, <1>12, <1>13, <1>16, <1>17, <1>18, <1>19 DEF Shape
<1>. QED  BY <1>20 DEF tree

LEMMA TreeShape ==
    ASSUME NEW all, Entries(all), CompileIndexTree(all) # {}
    PROVE  Shape(all, CompileIndexTree(all), all, MaxShardDepth)
<1> DEFINE start == [entries |-> all, depth |-> 0, cursor |-> 1, prefix |-> 0]
<1>1. PICK f : /\ \A a \in Call(all) : f[a] = CompileIndexNode(f, a)
               /\ CompileIndexTree(all) = f[start]
      BY TreeOfNode
<1> DEFINE T == {k \in Nat : \A a \in Call(all) :
                    a.depth + k = MaxShardDepth => f[a] = {} \/ Shape(all, f[a], a.entries, k)}
<1>2. ASSUME NEW k \in Nat, NEW a \in Call(all), Fits(a)
      PROVE  Shape(all, f[a], a.entries, k)
  <2>1. f[a] = {Page(<<>>, a.entries, {})}
        BY <1>1, <1>2, NodeCases
  <2>2. Shape(all, {Page(<<>>, a.entries, {})}, a.entries, k)
        BY <1>2, LeafShape
  <2>. QED  BY <2>1, <2>2, Zenon
<1>3. 0 \in T
  <2>. SUFFICES ASSUME NEW a \in Call(all), a.depth + 0 = MaxShardDepth, ~ Fits(a)
                PROVE  f[a] = {}
       BY <1>2
  <2>1. Stops(a)
        BY IndexAssumption DEF Stops, Call
  <2>. QED  BY <2>1, <1>1, NodeCases
<1>4. ASSUME NEW k \in T PROVE k + 1 \in T
  <2>. SUFFICES ASSUME NEW a \in Call(all), a.depth + (k + 1) = MaxShardDepth, f[a] # {}
                PROVE  Shape(all, f[a], a.entries, k + 1)
       OBVIOUS
  <2>1. CASE Fits(a)
        BY <2>1, <1>2
  <2>2. CASE ~ Fits(a)
    <3>1. ~ Stops(a) /\ ~ Fails(f, a) /\ f[a] = {Root(a)} \cup Parts(f, a)
          BY <2>2, <1>1, NodeCases
    <3>2. ASSUME NEW v \in Values(a) PROVE Shape(all, f[SubCall(a, v)], Part(a, v), k)
      <4>1. SubCall(a, v) \in Call(all) /\ f[SubCall(a, v)] # {}
            BY <2>2, <3>1, SplitOk DEF Fails
      <4>2. SubCall(a, v).depth = a.depth + 1 /\ SubCall(a, v).entries = Part(a, v)
            BY DEF SubCall
      <4>3. SubCall(a, v).depth + k = MaxShardDepth
            BY <4>2 DEF Call
      <4>. QED  BY <4>1, <4>2, <4>3
    <3>. HIDE DEF T
    <3>3. k \in Nat
          BY DEF T
    <3>. QED  BY <2>2, <3>1, <3>2, <3>3, JoinShape
  <2>. QED  BY <2>1, <2>2
<1>5. T = Nat
  <2>1. T \subseteq Nat
        OBVIOUS
  <2>. HIDE DEF T
  <2>. QED  BY <1>3, <1>4, <2>1, Induction
<1>6. start \in Call(all) /\ start.depth + MaxShardDepth = MaxShardDepth /\ start.entries = all
      BY IndexAssumption DEF Call
<1>7. MaxShardDepth \in T
      BY <1>5, IndexAssumption
<1>. QED  BY <1>1, <1>6, <1>7

LEMMA ShapeRoutable ==
    ASSUME NEW all, Entries(all), NEW tree, Shape(all, tree, all, MaxShardDepth)
    PROVE  /\ ValidIndexTree(tree)
           /\ \A page \in tree : Len(page.path) <= MaxShardDepth
           /\ \A e \in all : Cardinality({page \in tree : e \in page.entries}) = 1
           /\ \A page \in tree : page.entries \subseteq all
<1>1. \A page \in tree : PageAt(tree, page.path) = {page}
      BY DEF Shape, PageAt
<1>2. \A page \in tree : Cardinality(PageAt(tree, page.path)) = 1
      BY <1>1, FS_Singleton
<1>3. PageAt(tree, <<>>) # {}
      BY DEF Shape, PageAt
<1>4. \A p, q \in tree : \A e \in p.entries : \A f \in q.entries : e.ref = f.ref => p = q /\ e = f
  <2>. SUFFICES ASSUME NEW p \in tree, NEW q \in tree, NEW e \in p.entries, NEW f \in q.entries, e.ref = f.ref
                PROVE  p = q /\ e = f
       OBVIOUS
  <2>1. e \in all /\ f \in all
        BY DEF Shape
  <2>2. e = f
        BY <2>1 DEF Entries
  <2>. QED  BY <2>2 DEF Shape
<1>5. \A page \in tree : \A route \in page.routes :
          \E child \in PageAt(tree, Append(page.path, route.step)) : child.count = route.count
      BY DEF Shape, RouteOK, PageAt
<1>6. \A page \in tree : PageOK(page)
      BY DEF Shape
<1>7. \A page \in tree : page.path = <<>> \/
          \E parent \in tree : \E route \in parent.routes : Append(parent.path, route.step) = page.path
      BY DEF Shape, Reached
<1>8. ValidIndexTree(tree)
      BY <1>2, <1>3, <1>4, <1>5, <1>6, <1>7, Zenon DEF ValidIndexTree, PageOK
<1>9. ASSUME NEW e \in all PROVE Cardinality({page \in tree : e \in page.entries}) = 1
  <2>1. PICK p \in tree : e \in p.entries
        BY DEF Shape
  <2>2. {page \in tree : e \in page.entries} = {p}
        BY <2>1 DEF Shape
  <2>. QED  BY <2>2, FS_Singleton
<1>. QED  BY <1>8, <1>9 DEF Shape

\* CompileIndexTree, if it does not refuse, gives a tree that validateIndexTree
\* accepts: every entry is on exactly one page, every page is reached from the
\* root, and none is larger or deeper than the policy allows.
THEOREM IndexIsRoutable ==
    ASSUME NEW all, Entries(all), CompileIndexTree(all) # {}
    PROVE  /\ ValidIndexTree(CompileIndexTree(all))
           /\ \A page \in CompileIndexTree(all) : Len(page.path) <= MaxShardDepth
           /\ \A e \in all : Cardinality({page \in CompileIndexTree(all) : e \in page.entries}) = 1
           /\ \A page \in CompileIndexTree(all) : page.entries \subseteq all
BY TreeShape, ShapeRoutable

-------------------------------------------------------------------------------
(* The invariant of Retrieval.                                               *)

Grown == \E w \in Scenario :
    /\ requests = w.requests /\ receipts = w.receipts
    /\ \A s \in Store : facts[s] \cup later[s] = w.facts[s] \cup w.later[s]

AreFunctions ==
    /\ facts = [s \in Store |-> facts[s]] /\ later = [s \in Store |-> later[s]]
    /\ gens = [s \in Store |-> gens[s]] /\ current = [s \in Store |-> current[s]]
    /\ cleaned = [s \in Store |-> cleaned[s]]
    /\ pub = [p \in Proc |-> pub[p]] /\ accepted = [r \in Reader |-> accepted[r]]
    /\ pin = [r \in Reader |-> [s \in Store |-> pin[r][s]]]

IsSeq(q) == Len(q) \in Nat /\ q = [i \in 1..Len(q) |-> q[i]]

Listed(g) == {Entry(st) : st \in {x \in g.states : x.lifecycle \notin {"frozen", "archived"}}}

\* A generation as it is compiled: its index is that of its states.
Routable(g) ==
    /\ ValidIndexTree(g.out.index)
    /\ \A page \in g.out.index : Len(page.path) <= MaxShardDepth /\ page.entries \subseteq Listed(g)
    /\ \A e \in Listed(g) : Cardinality({page \in g.out.index : e \in page.entries}) = 1

Answered(g) == g.again \in {"unavailable", "refused", "available"}

GenOK(s, g) == g.inputs \subseteq facts[s] /\ Routable(g) /\ Answered(g)

Published == \A s \in Store : /\ IsSeq(gens[s])
                              /\ current[s] \in 0..Len(gens[s])
                              /\ \A i \in 1..Len(gens[s]) : GenOK(s, gens[s][i])

TaskOK(t) == /\ t.step \in {"idle", "begun", "staged"}
             /\ t.step # "idle" => t.req \in requests /\ t.req.store \in Store
             /\ t.step = "staged" => GenOK(t.req.store, t.gen)

Publishing == \A p \in Proc : TaskOK(pub[p])

\* What a fact refers to was there before it.
Grounded == \A s \in Store :
    /\ facts[s] \cap later[s] = {}
    /\ \A f \in facts[s] :
        /\ "ctx" \in DOMAIN f => \A t \in Store : f.ctx[t] = None \/ f.ctx[t] \in 1..Len(gens[t])
        /\ "sup" \in DOMAIN f => f.sup = None \/ \E j \in Kind(facts[s], "judgment") : j.at = f.sup

Pins == \A r \in Reader :
    /\ \A s \in Store : pin[r][s] \in {Unread, None} \cup 1..Len(gens[s])
    /\ accepted[r] # {} => Pinned(r)

\* What a receipt names is in the pinned generation of its store.
Earned(r, rc) == \A ref \in Refs(Named(rc)) :
    LET s == ScopeOf[ref[1]]
    IN  /\ s \in Store /\ pin[r][s] \in 1..Len(gens[s])
        /\ \E st \in gens[s][pin[r][s]].states :
                /\ st.ref = ref /\ st.lifecycle \notin Hidden
                /\ ref \in Refs(rc.recommended) => st.freshness # "needs_revalidation"

AllEarned == \A r \in Reader : \A rc \in accepted[r] : Earned(r, rc)

IInv == AreFunctions /\ Grown /\ Published /\ Publishing /\ Grounded /\ Pins /\ AllEarned

-------------------------------------------------------------------------------
(* What is compiled and published.                                           *)

LEMMA AppendOk == ASSUME NEW q, IsSeq(q), NEW x
                  PROVE  /\ IsSeq(Append(q, x)) /\ Len(Append(q, x)) = Len(q) + 1
                         /\ \A i \in 1..Len(q) : Append(q, x)[i] = q[i]
                         /\ Append(q, x)[Len(q) + 1] = x
<1> DEFINE S == {q[i] : i \in 1..Len(q)} \cup {x}
<1>1. q \in Seq(S) /\ x \in S
      BY DEF IsSeq
<1>. HIDE DEF S
<1>2. Append(q, x) \in Seq(S) /\ Len(Append(q, x)) = Len(q) + 1 /\ Len(q) \in Nat
      BY <1>1
<1>3. \A i \in 1..Len(q) : Append(q, x)[i] = q[i]
      BY <1>1
<1>4. Append(q, x)[Len(q) + 1] = x
      BY <1>1
<1>5. \A y \in Seq(S) : y = [i \in 1..Len(y) |-> y[i]]
      OBVIOUS
<1>6. Len(Append(q, x)) \in Nat
      BY <1>2
<1>7. IsSeq(Append(q, x))
      BY <1>2, <1>5, <1>6, Zenon DEF IsSeq
<1>. QED  BY <1>2, <1>3, <1>4, <1>7

LEMMA GoodWorld == ASSUME Grown, NEW s \in Store
               PROVE  /\ IsFiniteSet(facts[s])
                      /\ OneFact(facts[s] \cup later[s])
                      /\ \A f \in facts[s] \cup later[s] : WellFormed(f)
                      /\ \A r \in requests : /\ r.store \in Store /\ r.revs \subseteq Memory \X Nat
                                             /\ IsFiniteSet(r.revs)
                      /\ \A rc \in receipts : rc.recommended \in Seq([ref : Memory \X Nat, rank : Nat])
                                              /\ rc.optional \in Seq([ref : Memory \X Nat, rank : Nat])
<1>1. PICK w \in Scenario : /\ requests = w.requests /\ receipts = w.receipts
                            /\ \A t \in Store : facts[t] \cup later[t] = w.facts[t] \cup w.later[t]
      BY DEF Grown
<1>2. WorldOK(w)
      BY RetrievalAssumption
<1>3. IsFiniteSet(facts[s] \cup later[s]) /\ facts[s] \in SUBSET (facts[s] \cup later[s])
      BY <1>1, <1>2 DEF WorldOK
<1>4. IsFiniteSet(facts[s])
      BY <1>3, FS_Subset
<1>5. OneFact(facts[s] \cup later[s]) /\ \A f \in facts[s] \cup later[s] : WellFormed(f)
  <2>1. /\ OneFact(w.facts[s] \cup w.later[s])
        /\ \A f \in w.facts[s] \cup w.later[s] : WellFormed(f)
        BY <1>2, Zenon DEF WorldOK
  <2>2. facts[s] \cup later[s] = w.facts[s] \cup w.later[s]
        BY <1>1
  <2>. QED  BY <2>1, <2>2, Zenon
<1>6. \A r \in requests : r.store \in Store /\ r.revs \subseteq Memory \X Nat /\ IsFiniteSet(r.revs)
      BY <1>1, <1>2 DEF WorldOK
<1>7. \A rc \in receipts : /\ rc.recommended \in Seq([ref : Memory \X Nat, rank : Nat])
                            /\ rc.optional \in Seq([ref : Memory \X Nat, rank : Nat])
      BY <1>1, <1>2 DEF WorldOK
<1>. QED  BY <1>4, <1>5, <1>6, <1>7

\* The entries of the states of revisions that are stored.
LEMMA StatesIndexed ==
    ASSUME NEW F, NEW revs, NEW time, IsFiniteSet(revs), revs \subseteq Memory \X Nat,
           \A ref \in revs : Stored(F, ref),
           NEW g, g.states = States(F, revs, time), g.out.index = IndexOf(States(F, revs, time)),
           g.out.index # {}
    PROVE  Routable(g)
<1> DEFINE fact(ref) == RevisionFact(F, ref)
           visible == {x \in g.states : x.lifecycle \notin {"frozen", "archived"}}
           all == {Entry(st) : st \in visible}
<1>1. \A ref \in revs : fact(ref).ref = ref
      BY DEF Stored, RevisionFact, About
<1>2. \A e \in all : \E ref \in revs : e = Entry(StateOf(F, fact(ref), time)) /\ e.ref = ref
      BY <1>1 DEF States, Entry, StateOf
<1>3. \A e \in all : e.ref[1] \in DOMAIN IdOf
  <2>1. \A ref \in revs : ref[1] \in DOMAIN IdOf
        BY RetrievalAssumption
  <2>. QED  BY <1>2, <2>1
<1>4. \A e, f \in all : e.ref = f.ref => e = f
      BY <1>2
<1>5. IsFiniteSet(all)
  <2> DEFINE h == [ref \in revs |-> Entry(StateOf(F, fact(ref), time))]
             range == {h[ref] : ref \in revs}
  <2>1. h \in Surjection(revs, range)
        BY DEF Surjection
  <2>2. all \in SUBSET range
        BY <1>2
  <2>. HIDE DEF all, h, range
  <2>3. IsFiniteSet(range)
        BY <2>1, FS_Surjection
  <2>. QED  BY <2>2, <2>3, FS_Subset
<1>6. g.out.index = CompileIndexTree(all)
      BY DEF IndexOf
<1>7. all = Listed(g)
      BY DEF Listed
<1>. HIDE DEF all
<1>. QED  BY <1>3, <1>4, <1>5, <1>6, <1>7, IndexIsRoutable DEF Routable, Entries

LEMMA CompiledOk == ASSUME Grown, NEW r \in requests, Compiles(r)
                    PROVE  GenOK(r.store, Compiled(r))
<1> DEFINE F == DerivationFacts(r)
           g == Compiled(r)
<1>1. g.states = States(F, r.revs, r.time) /\ g.inputs = ManifestInputs(r)
      /\ g.out.index = IndexOf(States(F, r.revs, r.time))
      BY DEF Compiled, Output
<1>2. IsFiniteSet(r.revs) /\ r.revs \subseteq Memory \X Nat /\ r.store \in Store
  <2>1. "project" \in Store
        BY DEF Store
  <2>. QED  BY <2>1, GoodWorld
<1>3. \A ref \in r.revs : Stored(F, ref)
      BY DEF Compiles
<1>4. g.out.index # {}
      BY <1>1 DEF Compiles
<1>5. Routable(g)
  <2>. HIDE DEF F, g
  <2>. QED  BY <1>1, <1>2, <1>3, <1>4, StatesIndexed
<1>6. g.inputs \subseteq facts[r.store]
  <2>1. \A ref \in r.revs : RevisionFact(facts[r.store], ref) \in facts[r.store]
        BY DEF Compiles, ExactInputs, Stored, RevisionFact, About, Kind
  <2>. QED  BY <1>1, <2>1 DEF Compiles, ExactInputs, Kind, ManifestInputs
<1>7. g.again \in {"unavailable", "refused", "available"}
  <2>1. \A x, y, z : Rebuild(x, y, z) \in {"unavailable", "refused", "available"}
        BY DEF Rebuild
  <2>. QED  BY <2>1 DEF Compiled
<1>. QED  BY <1>5, <1>6, <1>7 DEF GenOK, Answered

LEMMA InitInv == Init => IInv
<1>. SUFFICES ASSUME Init PROVE IInv
     OBVIOUS
<1>1. PICK w \in Scenario : /\ facts = w.facts /\ later = w.later
                            /\ requests = w.requests /\ receipts = w.receipts
      BY DEF Init
<1>2. WorldOK(w)
      BY RetrievalAssumption
<1>3. Grown
      BY <1>1 DEF Grown
<1>4. AreFunctions
      BY <1>1, <1>2, Zenon DEF AreFunctions, Init, WorldOK, NoPin
<1>5. Published
      BY DEF Init, Published, IsSeq
<1>6. Publishing
      BY DEF Init, Publishing, TaskOK, Idle
<1>7. Grounded
      BY <1>1, <1>2 DEF Grounded, WorldOK
<1>8. Pins
      BY DEF Init, Pins, NoPin
<1>9. AllEarned
      BY DEF Init, AllEarned
<1>. QED  BY <1>3, <1>4, <1>5, <1>6, <1>7, <1>8, <1>9 DEF IInv

\* How the store may change: facts are added, generations appended.
Extends ==
    \A s \in Store : /\ facts[s] \subseteq facts'[s]
                     /\ Len(gens[s]) <= Len(gens'[s])
                     /\ \A i \in 1..Len(gens[s]) : gens'[s][i] = gens[s][i]

LEMMA StepExtends == ASSUME IInv, [Next]_vars PROVE Extends
<1>0. \A s \in Store : IsSeq(gens[s])
      BY DEF IInv, Published
<1>1. ASSUME UNCHANGED <<facts, gens>> PROVE Extends
      BY <1>0, <1>1 DEF Extends, IsSeq
<1>2. ASSUME NEW s \in Store, NEW f, Put(s, f) PROVE Extends
  <2>1. gens' = gens /\ facts' = [facts EXCEPT ![s] = @ \cup {f}]
        BY <1>2 DEF Put
  <2>2. facts = [t \in Store |-> facts[t]]
        BY DEF IInv, AreFunctions
  <2>. QED  BY <2>1, <2>2, <1>0 DEF Extends, IsSeq
<1>3. ASSUME NEW p \in Proc, Commit(p) PROVE Extends
  <2> DEFINE s == pub[p].req.store
  <2>1. facts' = facts /\ (gens' = gens \/ gens' = [gens EXCEPT ![s] = Append(@, pub[p].gen)])
        BY <1>3 DEF Commit
  <2>2. CASE gens' = [gens EXCEPT ![s] = Append(@, pub[p].gen)]
    <3>1. gens = [t \in Store |-> gens[t]]
          BY DEF IInv, AreFunctions
    <3>2. ASSUME NEW t \in Store
          PROVE  Len(gens[t]) <= Len(gens'[t]) /\ \A i \in 1..Len(gens[t]) : gens'[t][i] = gens[t][i]
      <4>1. CASE t # s
            BY <4>1, <2>2, <3>1, <1>0 DEF IsSeq
      <4>2. CASE t = s
        <5>1. gens'[t] = Append(gens[t], pub[p].gen)
              BY <4>2, <2>2, <3>1
        <5>2. IsSeq(gens[t])
              BY <1>0
        <5>3. /\ Len(Append(gens[t], pub[p].gen)) = Len(gens[t]) + 1
              /\ \A i \in 1..Len(gens[t]) : Append(gens[t], pub[p].gen)[i] = gens[t][i]
              BY <5>2, AppendOk
        <5>. QED  BY <5>1, <5>2, <5>3 DEF IsSeq
      <4>. QED  BY <4>1, <4>2
    <3>. QED  BY <2>1, <3>2 DEF Extends
  <2>. QED  BY <1>1, <2>1, <2>2
<1>4. ASSUME NEW p \in Proc, (\E r \in requests : Begin(p, r)) \/ Compile(p) PROVE Extends
      BY <1>1, <1>4 DEF Begin, Compile
<1>5. ASSUME NEW s \in Store, NEW g \in 1..MaxGenerations, CleanUp(s, g) PROVE Extends
      BY <1>1, <1>5 DEF CleanUp
<1>6. ASSUME NEW r \in Reader, (\E i \in {1, 2} : PinScope(r, i)) \/ \E rc \in receipts : Accept(r, rc)
      PROVE Extends
      BY <1>1, <1>6 DEF PinScope, Accept
<1>7. CASE UNCHANGED vars
      BY <1>1, <1>7 DEF vars
<1>. QED  BY <1>2, <1>3, <1>4, <1>5, <1>6, <1>7 DEF Next

LEMMA GrownStays == ASSUME IInv, [Next]_vars PROVE Grown' 
<1>0. IInv /\ Grown
      BY DEF IInv
<1>1. ASSUME UNCHANGED <<facts, later, requests, receipts>> PROVE Grown'
      BY <1>0, <1>1 DEF Grown
<1>2. ASSUME NEW s \in Store, NEW f \in later[s], Put(s, f) PROVE Grown'
  <2>1. \A t \in Store : facts'[t] \cup later'[t] = facts[t] \cup later[t]
    <3>1. facts' = [facts EXCEPT ![s] = @ \cup {f}] /\ later' = [later EXCEPT ![s] = @ \ {f}]
          BY <1>2 DEF Put
    <3>2. facts = [t \in Store |-> facts[t]] /\ later = [t \in Store |-> later[t]]
          BY DEF IInv, AreFunctions
    <3>. QED  BY <1>2, <3>1, <3>2
  <2>2. requests' = requests /\ receipts' = receipts
        BY <1>2 DEF Put
  <2>. QED  BY <1>0, <2>1, <2>2 DEF Grown
<1>3. ASSUME NEW p \in Proc, (\E r \in requests : Begin(p, r)) \/ Compile(p) \/ Commit(p)
      PROVE Grown'
      BY <1>1, <1>3 DEF Begin, Compile, Commit
<1>5. ASSUME NEW s \in Store, NEW g \in 1..MaxGenerations, CleanUp(s, g) PROVE Grown'
      BY <1>1, <1>5 DEF CleanUp
<1>6. ASSUME NEW r \in Reader, (\E i \in {1, 2} : PinScope(r, i)) \/ \E rc \in receipts : Accept(r, rc)
      PROVE Grown'
      BY <1>1, <1>6 DEF PinScope, Accept
<1>7. CASE UNCHANGED vars
      BY <1>1, <1>7 DEF vars
<1>. QED  BY <1>2, <1>3, <1>5, <1>6, <1>7 DEF Next

LEMMA FunctionsStay == ASSUME AreFunctions, [Next]_vars PROVE AreFunctions'
<1>. USE DEF AreFunctions
<1>1. ASSUME NEW s \in Store, NEW f, Put(s, f) PROVE AreFunctions'
      BY <1>1 DEF Put
<1>2. ASSUME NEW p \in Proc, NEW r, Begin(p, r) PROVE AreFunctions'
      BY <1>2 DEF Begin
<1>3. ASSUME NEW p \in Proc, Compile(p) PROVE AreFunctions'
      BY <1>3 DEF Compile
<1>4. ASSUME NEW p \in Proc, Commit(p) PROVE AreFunctions'
      BY <1>4 DEF Commit
<1>5. ASSUME NEW s \in Store, NEW g, CleanUp(s, g) PROVE AreFunctions'
      BY <1>5 DEF CleanUp
<1>6. ASSUME NEW r \in Reader, NEW i, PinScope(r, i) PROVE AreFunctions'
  <2>1. pin[r] = [s \in Store |-> pin[r][s]] /\ pin = [q \in Reader |-> pin[q]]
        BY Zenon
  <2>2. \E v : pin' = [pin EXCEPT ![r] = v] /\ v = [s \in Store |-> v[s]]
    <3>1. \E x : pin' = [pin EXCEPT ![r] = [@ EXCEPT ![Scopes[i]] = x]] \/ pin' = [pin EXCEPT ![r] = NoPin]
          BY <1>6 DEF PinScope
    <3>. QED  BY <2>1, <3>1 DEF NoPin
  <2>3. pin' = [q \in Reader |-> [s \in Store |-> pin'[q][s]]]
    <3>1. PICK v : pin' = [pin EXCEPT ![r] = v] /\ v = [s \in Store |-> v[s]]
          BY <2>2
    <3>2. pin' = [q \in Reader |-> IF q = r THEN v ELSE pin[q]]
          BY <2>1, <3>1
    <3>3. \A q \in Reader : pin'[q] = [s \in Store |-> pin'[q][s]]
      <4>1. \A q \in Reader : pin[q] = [s \in Store |-> pin[q][s]]
            OBVIOUS
      <4>. QED  BY <3>1, <3>2, <4>1
    <3>. QED  BY <3>2, <3>3, Zenon
  <2>. QED  BY <1>6, <2>3 DEF PinScope
<1>7. ASSUME NEW r \in Reader, NEW rc, Accept(r, rc) PROVE AreFunctions'
      BY <1>7 DEF Accept
<1>8. CASE UNCHANGED vars
      BY <1>8 DEF vars
<1>. QED  BY <1>1, <1>2, <1>3, <1>4, <1>5, <1>6, <1>7, <1>8 DEF Next

LEMMA GroundedStays == ASSUME IInv, [Next]_vars PROVE Grounded'
<1>0. Grounded /\ \A s \in Store : IsSeq(gens[s])
      BY DEF IInv, Published
<1>1. ASSUME UNCHANGED <<facts, later>> PROVE Grounded'
  <2>1. \A t \in Store : 1..Len(gens[t]) \subseteq 1..Len(gens'[t])
    <3>1. \A t \in Store : Len(gens[t]) <= Len(gens'[t])
          BY StepExtends DEF Extends
    <3>. QED  BY <1>0, <3>1 DEF IsSeq
  <2>. QED  BY <1>0, <1>1, <2>1 DEF Grounded
<1>2. ASSUME NEW s \in Store, NEW f \in later[s], Put(s, f) PROVE Grounded'
  <2>1. /\ facts' = [facts EXCEPT ![s] = @ \cup {f}] /\ later' = [later EXCEPT ![s] = @ \ {f}]
        /\ gens' = gens /\ Timely(s, f)
        BY <1>2 DEF Put
  <2>2. facts = [t \in Store |-> facts[t]] /\ later = [t \in Store |-> later[t]]
        BY DEF IInv, AreFunctions
  <2>3. \A t \in Store : facts'[t] \cap later'[t] = {}
        BY <1>0, <1>2, <2>1, <2>2 DEF Grounded
  <2>4. \A t \in Store : \A g \in facts'[t] : g \in facts[t] \/ (t = s /\ g = f)
        BY <2>1, <2>2
  <2>5. \A t \in Store : Kind(facts[t], "judgment") \subseteq Kind(facts'[t], "judgment")
        BY <2>1, <2>2 DEF Kind
  <2>6. \A t \in Store : \A g \in facts'[t] : "ctx" \in DOMAIN g =>
            \A u \in Store : g.ctx[u] = None \/ g.ctx[u] \in 1..Len(gens'[u])
        BY <1>0, <2>1, <2>4 DEF Grounded, Timely
  <2>7. \A t \in Store : \A g \in facts'[t] : "sup" \in DOMAIN g =>
            g.sup = None \/ \E j \in Kind(facts'[t], "judgment") : j.at = g.sup
        BY <1>0, <2>1, <2>4, <2>5 DEF Grounded, Timely
  <2>. QED  BY <2>3, <2>6, <2>7 DEF Grounded
<1>3. ASSUME NEW p \in Proc, (\E r \in requests : Begin(p, r)) \/ Compile(p) \/ Commit(p)
      PROVE Grounded'
      BY <1>1, <1>3 DEF Begin, Compile, Commit
<1>5. ASSUME NEW s \in Store, NEW g \in 1..MaxGenerations, CleanUp(s, g) PROVE Grounded'
      BY <1>1, <1>5 DEF CleanUp
<1>6. ASSUME NEW r \in Reader, (\E i \in {1, 2} : PinScope(r, i)) \/ \E rc \in receipts : Accept(r, rc)
      PROVE Grounded'
      BY <1>1, <1>6 DEF PinScope, Accept
<1>7. CASE UNCHANGED vars
      BY <1>1, <1>7 DEF vars
<1>. QED  BY <1>2, <1>3, <1>5, <1>6, <1>7 DEF Next

LEMMA PublishingStays == ASSUME IInv, [Next]_vars PROVE Publishing'
<1>0. Publishing /\ Grown /\ Extends /\ pub = [p \in Proc |-> pub[p]]
      BY StepExtends DEF IInv, AreFunctions
<1>1. \A r \in requests : r.store \in Store
  <2>1. "project" \in Store
        BY DEF Store
  <2>. QED  BY <2>1, <1>0, GoodWorld
<1>2. \A g : Routable(g)' = Routable(g)
      BY DEF Routable, Listed
<1>3. \A t : TaskOK(t) /\ requests' = requests => TaskOK(t)'
      BY <1>0, <1>2 DEF TaskOK, GenOK, Extends
<1>4. ASSUME requests' = requests, \A q \in Proc : pub'[q] = pub[q] \/ TaskOK(pub'[q])
      PROVE  Publishing'
  <2>1. \A q \in Proc : TaskOK(pub'[q])
        BY <1>0, <1>4 DEF Publishing
  <2>. QED  BY <1>3, <1>4, <2>1 DEF Publishing
<1>5. TaskOK(Idle)
      BY DEF TaskOK, Idle
<1>6. ASSUME NEW p \in Proc, NEW r \in requests, Begin(p, r) PROVE Publishing'
  <2> DEFINE t == [step |-> "begun", req |-> r, base |-> current[r.store]]
  <2>1. TaskOK(t)
        BY <1>1 DEF TaskOK
  <2>2. \A q \in Proc : pub'[q] = pub[q] \/ pub'[q] = t
        BY <1>0, <1>6 DEF Begin
  <2>. QED  BY <1>4, <1>6, <2>1, <2>2 DEF Begin
<1>7. ASSUME NEW p \in Proc, Compile(p) PROVE Publishing'
  <2> DEFINE t == [step |-> "staged", req |-> pub[p].req, base |-> pub[p].base, gen |-> Compiled(pub[p].req)]
  <2>1. TaskOK(pub[p]) /\ pub[p].step = "begun"
        BY <1>0, <1>7 DEF Publishing, Compile
  <2>2. ASSUME Compiles(pub[p].req) PROVE TaskOK(t)
    <3>1. pub[p].req \in requests
          BY <2>1 DEF TaskOK
    <3>2. GenOK(pub[p].req.store, Compiled(pub[p].req))
          BY <1>0, <2>2, <3>1, CompiledOk
    <3>3. t.step = "staged" /\ t.req = pub[p].req /\ t.gen = Compiled(pub[p].req)
          OBVIOUS
    <3>. HIDE DEF t
    <3>. QED  BY <1>1, <3>1, <3>2, <3>3 DEF TaskOK
  <2>3. \A q \in Proc : pub'[q] = pub[q] \/ pub'[q] = Idle \/ (Compiles(pub[p].req) /\ pub'[q] = t)
        BY <1>0, <1>7 DEF Compile
  <2>. QED  BY <1>4, <1>5, <1>7, <2>2, <2>3 DEF Compile
<1>8. ASSUME NEW p \in Proc, Commit(p) PROVE Publishing'
  <2>1. \A q \in Proc : pub'[q] = pub[q] \/ pub'[q] = Idle
        BY <1>0, <1>8 DEF Commit
  <2>. QED  BY <1>4, <1>5, <1>8, <2>1 DEF Commit
<1>9. ASSUME UNCHANGED <<requests, pub>> PROVE Publishing'
      BY <1>4, <1>9
<1>10. ASSUME NEW s \in Store, NEW f \in later[s], Put(s, f) PROVE Publishing'
      BY <1>9, <1>10 DEF Put
<1>11. ASSUME NEW s \in Store, NEW g \in 1..MaxGenerations, CleanUp(s, g) PROVE Publishing'
      BY <1>9, <1>11 DEF CleanUp
<1>12. ASSUME NEW r \in Reader, (\E i \in {1, 2} : PinScope(r, i)) \/ \E rc \in receipts : Accept(r, rc)
       PROVE Publishing'
      BY <1>9, <1>12 DEF PinScope, Accept
<1>13. CASE UNCHANGED vars
      BY <1>9, <1>13 DEF vars
<1>. QED  BY <1>6, <1>7, <1>8, <1>10, <1>11, <1>12, <1>13 DEF Next

LEMMA PublishedStays == ASSUME IInv, [Next]_vars PROVE Published'
<1>0. /\ Published /\ Extends /\ gens = [s \in Store |-> gens[s]] /\ current = [s \in Store |-> current[s]]
      /\ \A s \in Store : IsSeq(gens[s])
      BY StepExtends DEF IInv, AreFunctions, Published
<1>1. \A g : Routable(g)' = Routable(g)
      BY DEF Routable, Listed
<1>2. ASSUME UNCHANGED <<gens, current>> PROVE Published'
  <2>1. \A s \in Store : \A i \in 1..Len(gens[s]) : GenOK(s, gens[s][i])'
        BY <1>0, <1>1, <1>2 DEF Published, GenOK, Extends
  <2>. QED  BY <1>0, <1>2, <2>1 DEF Published, IsSeq
<1>3. ASSUME NEW p \in Proc, Commit(p) PROVE Published'
  <2> DEFINE s == pub[p].req.store
             new == pub[p].gen
  <2>1. CASE UNCHANGED <<gens, current>>
        BY <2>1, <1>2
  <2>2. CASE gens' = [gens EXCEPT ![s] = Append(@, new)] /\ current' = [current EXCEPT ![s] = Len(gens[s]) + 1]
    <3>1. s \in Store /\ new.inputs \subseteq facts[s] /\ Routable(new) /\ Answered(new)
          BY <1>3 DEF Commit, IInv, Publishing, TaskOK, GenOK
    <3>2. /\ IsSeq(Append(gens[s], new)) /\ Len(Append(gens[s], new)) = Len(gens[s]) + 1
          /\ \A i \in 1..Len(gens[s]) : Append(gens[s], new)[i] = gens[s][i]
          /\ Append(gens[s], new)[Len(gens[s]) + 1] = new
          BY <1>0, <3>1, AppendOk
    <3>3. gens'[s] = Append(gens[s], new) /\ current'[s] = Len(gens[s]) + 1
          BY <2>2, <3>1, <1>0
    <3>4. \A t \in Store : t # s => gens'[t] = gens[t] /\ current'[t] = current[t]
          BY <2>2, <1>0
    <3>. HIDE DEF s, new
    <3>5. \A t \in Store : IsSeq(gens'[t]) /\ current'[t] \in 0..Len(gens'[t])
      <4>1. Len(gens[s]) \in Nat
            BY <1>0, <3>1 DEF IsSeq
      <4>2. IsSeq(gens'[s]) /\ current'[s] \in 0..Len(gens'[s])
            BY <3>2, <3>3, <4>1
      <4>3. \A t \in Store : t # s => IsSeq(gens'[t]) /\ current'[t] \in 0..Len(gens'[t])
            BY <1>0, <3>4 DEF Published
      <4>. QED  BY <4>2, <4>3
    <3>6. \A t \in Store : \A i \in 1..Len(gens'[t]) :
              gens'[t][i].inputs \subseteq facts'[t] /\ Routable(gens'[t][i]) /\ Answered(gens'[t][i])
      <4>1. ASSUME NEW t \in Store, t # s, NEW i \in 1..Len(gens'[t])
            PROVE  gens'[t][i].inputs \subseteq facts'[t] /\ Routable(gens'[t][i]) /\ Answered(gens'[t][i])
            BY <4>1, <1>0, <3>4 DEF Published, GenOK, Extends
      <4>2. ASSUME NEW i \in 1..Len(gens[s]) + 1
            PROVE  gens'[s][i].inputs \subseteq facts'[s] /\ Routable(gens'[s][i]) /\ Answered(gens'[s][i])
        <5>1. Len(gens[s]) \in Nat
              BY <1>0, <3>1 DEF IsSeq
        <5>2. CASE i = Len(gens[s]) + 1
              BY <5>2, <1>0, <3>1, <3>2, <3>3 DEF Extends
        <5>3. CASE i \in 1..Len(gens[s])
              BY <5>3, <1>0, <3>1, <3>2, <3>3 DEF Published, GenOK, Extends
        <5>. QED  BY <5>1, <5>2, <5>3
      <4>. QED  BY <4>1, <4>2, <3>2, <3>3
    <3>. QED  BY <3>5, <3>6, <1>1 DEF Published, GenOK, Answered, IsSeq
  <2>. QED  BY <1>3, <2>1, <2>2 DEF Commit
<1>4. ASSUME NEW p \in Proc, (\E r \in requests : Begin(p, r)) \/ Compile(p) PROVE Published'
      BY <1>2, <1>4 DEF Begin, Compile
<1>5. ASSUME NEW s \in Store, NEW f \in later[s], Put(s, f) PROVE Published'
      BY <1>2, <1>5 DEF Put
<1>6. ASSUME NEW s \in Store, NEW g \in 1..MaxGenerations, CleanUp(s, g) PROVE Published'
      BY <1>2, <1>6 DEF CleanUp
<1>7. ASSUME NEW r \in Reader, (\E i \in {1, 2} : PinScope(r, i)) \/ \E rc \in receipts : Accept(r, rc)
      PROVE Published'
      BY <1>2, <1>7 DEF PinScope, Accept
<1>8. CASE UNCHANGED vars
      BY <1>2, <1>8 DEF vars
<1>. QED  BY <1>3, <1>4, <1>5, <1>6, <1>7, <1>8 DEF Next

-------------------------------------------------------------------------------
(* What is pinned and accepted.                                              *)

LEMMA PinsStay == ASSUME IInv, [Next]_vars PROVE Pins'
<1>0. /\ Pins /\ pin = [r \in Reader |-> [s \in Store |-> pin[r][s]]] /\ accepted = [r \in Reader |-> accepted[r]]
      /\ \A s \in Store : current[s] \in 0..Len(gens[s]) /\ Len(gens[s]) \in Nat
      /\ \A s \in Store : 1..Len(gens[s]) \subseteq 1..Len(gens'[s])
  <2>1. \A s \in Store : Len(gens[s]) <= Len(gens'[s]) /\ IsSeq(gens[s])
        BY StepExtends DEF Extends, IInv, Published
  <2>. QED  BY <2>1 DEF IInv, AreFunctions, Published, IsSeq
<1>1. ASSUME UNCHANGED <<pin, accepted>> PROVE Pins'
      BY <1>0, <1>1 DEF Pins, Pinned
<1>2. ASSUME NEW r \in Reader, NEW i \in {1, 2}, PinScope(r, i) PROVE Pins'
  <2> DEFINE s == Scopes[i]
             g == current[s]
  <2>1. s \in Store /\ pin[r][s] = Unread /\ UNCHANGED <<gens, accepted>>
        BY <1>2 DEF PinScope, Scopes, Store
  <2>2. accepted[r] = {}
        BY <1>0, <2>1 DEF Pins, Pinned
  <2>3. \/ pin' = [pin EXCEPT ![r] = [@ EXCEPT ![s] = None]]
        \/ InPlace(s, g) /\ pin' = [pin EXCEPT ![r] = [@ EXCEPT ![s] = g]]
        \/ pin' = [pin EXCEPT ![r] = NoPin]
        BY <1>2 DEF PinScope
  <2>4. \A q \in Reader : q # r => pin'[q] = pin[q]
        BY <1>0, <2>3
  <2>. HIDE DEF s, g
  <2>5. \A t \in Store : pin'[r][t] \in {Unread, None} \cup 1..Len(gens[t])
    <3>1. CASE pin' = [pin EXCEPT ![r] = [@ EXCEPT ![s] = None]]
          BY <3>1, <1>0, <2>1 DEF Pins
    <3>2. CASE InPlace(s, g) /\ pin' = [pin EXCEPT ![r] = [@ EXCEPT ![s] = g]]
          BY <3>2, <1>0, <2>1 DEF Pins, InPlace
    <3>3. CASE pin' = [pin EXCEPT ![r] = NoPin]
          BY <3>3, <1>0 DEF NoPin
    <3>. QED  BY <2>3, <3>1, <3>2, <3>3
  <2>6. \A q \in Reader : \A t \in Store : pin'[q][t] \in {Unread, None} \cup 1..Len(gens'[t])
    <3>1. \A q \in Reader : \A t \in Store : pin[q][t] \in {Unread, None} \cup 1..Len(gens[t])
          BY <1>0 DEF Pins
    <3>. QED  BY <2>1, <2>4, <2>5, <3>1
  <2>7. \A q \in Reader : accepted'[q] # {} => \A t \in Store : pin'[q][t] # Unread
    <3>1. \A q \in Reader : accepted[q] # {} => \A t \in Store : pin[q][t] # Unread
          BY <1>0 DEF Pins, Pinned
    <3>. QED  BY <2>1, <2>2, <2>4, <3>1
  <2>. QED  BY <2>6, <2>7 DEF Pins, Pinned
<1>3. ASSUME NEW r \in Reader, NEW rc, Accept(r, rc) PROVE Pins'
      BY <1>0, <1>3 DEF Accept, Pins, Pinned
<1>4. ASSUME NEW p \in Proc, (\E r \in requests : Begin(p, r)) \/ Compile(p) \/ Commit(p)
      PROVE Pins'
      BY <1>1, <1>4 DEF Begin, Compile, Commit
<1>5. ASSUME NEW s \in Store, NEW f \in later[s], Put(s, f) PROVE Pins'
      BY <1>1, <1>5 DEF Put
<1>6. ASSUME NEW s \in Store, NEW g \in 1..MaxGenerations, CleanUp(s, g) PROVE Pins'
      BY <1>1, <1>6 DEF CleanUp
<1>7. CASE UNCHANGED vars
      BY <1>1, <1>7 DEF vars
<1>. QED  BY <1>2, <1>3, <1>4, <1>5, <1>6, <1>7 DEF Next

\* What a reader accepts, it finds in the pages of its pinned generation, and
\* these hold the entries of its states.
LEMMA AcceptEarns == ASSUME IInv, NEW r \in Reader, NEW rc \in receipts, Accept(r, rc)
                     PROVE  Earned(r, rc)
<1> DEFINE trees == [s \in Store |-> IndexTreeOf(s, pin[r][s])]
<1>1. ReceiptValid(rc, trees)
      BY DEF Accept
<1>2. \A ref \in Refs(Named(rc)) : ScopeOf[ref[1]] \in Store
  <2>1. "project" \in Store
        BY DEF Store
  <2>2. /\ rc.recommended \in Seq([ref : Memory \X Nat, rank : Nat])
        /\ rc.optional \in Seq([ref : Memory \X Nat, rank : Nat])
        BY <2>1, GoodWorld DEF IInv
  <2>3. Named(rc) \in Seq([ref : Memory \X Nat, rank : Nat])
        BY <2>2 DEF Named
  <2>4. \A ref \in Refs(Named(rc)) : ref \in Memory \X Nat
    <3>1. \A q \in Seq([ref : Memory \X Nat, rank : Nat]) : \A i \in 1..Len(q) : q[i].ref \in Memory \X Nat
      <4> DEFINE C == [ref : Memory \X Nat, rank : Nat]
      <4>1. \A c \in C : c.ref \in Memory \X Nat
            OBVIOUS
      <4>2. \A q \in Seq(C) : \A i \in 1..Len(q) : q[i] \in C
        <5>. HIDE DEF C
        <5>. QED  OBVIOUS
      <4>. QED  BY <4>1, <4>2, Zenon
    <3>. QED  BY <2>3, <3>1, Zenon DEF Refs
  <2>. QED  BY <2>4, RetrievalAssumption
<1>3. ASSUME NEW s \in Store, NEW page \in trees[s]
      PROVE  pin[r][s] \in 1..Len(gens[s]) /\ page.entries \subseteq Listed(gens[s][pin[r][s]])
  <2>1. pin[r][s] \in 1..Len(gens[s]) /\ trees[s] = gens[s][pin[r][s]].out.index
        BY <1>3 DEF IndexTreeOf, InPlace
  <2>2. Routable(gens[s][pin[r][s]])
        BY <2>1 DEF IInv, Published, GenOK
  <2>. QED  BY <2>1, <2>2, <1>3 DEF Routable
<1>. HIDE DEF trees
<1>4. ASSUME NEW ref \in Refs(Named(rc))
      PROVE  LET s == ScopeOf[ref[1]]
             IN  /\ s \in Store /\ pin[r][s] \in 1..Len(gens[s])
                 /\ \E st \in gens[s][pin[r][s]].states :
                        /\ st.ref = ref /\ st.lifecycle \notin Hidden
                        /\ ref \in Refs(rc.recommended) => st.freshness # "needs_revalidation"
  <2> DEFINE s == ScopeOf[ref[1]]
  <2>1. s \in Store
        BY <1>2
  <2>2. PICK e \in EntriesFor(trees, ref) : TRUE
        BY <1>1 DEF ReceiptValid
  <2>3. PICK page \in trees[s] : e \in page.entries
        BY <2>2 DEF EntriesFor
  <2>4. e.ref = ref /\ e.lifecycle \notin Hidden
        BY <2>2 DEF EntriesFor
  <2>5. ref \in Refs(rc.recommended) => e.freshness # "needs_revalidation"
        BY <1>1, <2>2, Zenon DEF ReceiptValid
  <2>6. pin[r][s] \in 1..Len(gens[s]) /\ e \in Listed(gens[s][pin[r][s]])
        BY <1>3, <2>1, <2>3
  <2>7. PICK st \in gens[s][pin[r][s]].states : e = Entry(st)
        BY <2>6 DEF Listed
  <2>8. st.ref = e.ref /\ st.lifecycle = e.lifecycle /\ st.freshness = e.freshness
        BY <2>7 DEF Entry
  <2>. QED  BY <2>1, <2>4, <2>5, <2>6, <2>8
<1>. QED  BY <1>4, Zenon DEF Earned

LEMMA EarnedStays == ASSUME IInv, [Next]_vars PROVE AllEarned'
<1>0. AllEarned /\ Extends /\ Pins /\ \A s \in Store : Len(gens[s]) \in Nat
  <2>1. Extends
        BY StepExtends
  <2>. QED  BY <2>1 DEF IInv, Published, IsSeq
<1>1. ASSUME NEW r \in Reader, NEW rc, Earned(r, rc), pin'[r] = pin[r] PROVE Earned(r, rc)'
  <2>1. \A s \in Store : \A i \in 1..Len(gens[s]) : i \in 1..Len(gens'[s]) /\ gens'[s][i] = gens[s][i]
        BY <1>0 DEF Extends
  <2>. QED  BY <1>1, <2>1 DEF Earned
<1>2. ASSUME UNCHANGED <<pin, accepted>> PROVE AllEarned'
      BY <1>0, <1>1, <1>2 DEF AllEarned
<1>3. ASSUME NEW r \in Reader, NEW i \in {1, 2}, PinScope(r, i) PROVE AllEarned'
  <2>1. accepted' = accepted /\ \A q \in Reader : q # r => pin'[q] = pin[q]
        BY <1>3 DEF PinScope, IInv, AreFunctions
  <2>2. accepted[r] = {}
    <3>1. Scopes[i] \in Store /\ pin[r][Scopes[i]] = Unread
          BY <1>3 DEF PinScope, Scopes, Store
    <3>. QED  BY <3>1, <1>0 DEF Pins, Pinned
  <2>. QED  BY <1>0, <1>1, <2>1, <2>2 DEF AllEarned
<1>4. ASSUME NEW r \in Reader, NEW rc \in receipts, Accept(r, rc) PROVE AllEarned'
  <2>1. pin' = pin /\ \A q \in Reader : \A x \in accepted'[q] : x \in accepted[q] \/ (q = r /\ x = rc)
        BY <1>4 DEF Accept, IInv, AreFunctions
  <2>2. Earned(r, rc)
        BY <1>4, AcceptEarns
  <2>. QED  BY <1>0, <1>1, <2>1, <2>2 DEF AllEarned
<1>5. ASSUME NEW p \in Proc, (\E r \in requests : Begin(p, r)) \/ Compile(p) \/ Commit(p)
      PROVE AllEarned'
      BY <1>2, <1>5 DEF Begin, Compile, Commit
<1>6. ASSUME NEW s \in Store, NEW f \in later[s], Put(s, f) PROVE AllEarned'
      BY <1>2, <1>6 DEF Put
<1>7. ASSUME NEW s \in Store, NEW g \in 1..MaxGenerations, CleanUp(s, g) PROVE AllEarned'
      BY <1>2, <1>7 DEF CleanUp
<1>8. CASE UNCHANGED vars
      BY <1>2, <1>8 DEF vars
<1>. QED  BY <1>3, <1>4, <1>5, <1>6, <1>7, <1>8 DEF Next

LEMMA StepInv == IInv /\ [Next]_vars => IInv'
<1>. SUFFICES ASSUME IInv, [Next]_vars PROVE IInv'
     OBVIOUS
<1>1. AreFunctions'
      BY FunctionsStay DEF IInv
<1>. QED  BY <1>1, GrownStays, PublishedStays, PublishingStays, GroundedStays, PinsStay,
             EarnedStays DEF IInv

\* The invariant holds in every state.
THEOREM Invariant == Spec => []IInv
BY InitInv, StepInv, PTL DEF Spec

\* An accepted receipt names memories that the pinned generation derived as
\* usable (ReceiptEarned): the candidates are checked against pages of entries of
\* its states, which no later step can change.
THEOREM AlwaysEarned == Spec => []ReceiptEarned
<1>1. IInv => ReceiptEarned
  <2>. SUFFICES ASSUME IInv PROVE ReceiptEarned
       OBVIOUS
  <2>1. \A r \in Reader : \A rc \in accepted[r] : Earned(r, rc)
        BY DEF IInv, AllEarned
  <2>. QED  BY <2>1, Zenon DEF Earned, ReceiptEarned
<1>. QED  BY <1>1, Invariant, PTL

\* The index of every published generation can be walked to every entry
\* (EntriesRoutable): from the index theorem, through compile and commit.
THEOREM AlwaysRoutable == Spec => []EntriesRoutable
<1>1. IInv => EntriesRoutable
  <2>. SUFFICES ASSUME IInv, NEW s \in Store, NEW g \in 1..Len(gens[s])
                PROVE  /\ ValidIndexTree(gens[s][g].out.index)
                       /\ \A page \in gens[s][g].out.index : Len(page.path) <= MaxShardDepth
                       /\ \A e \in Listed(gens[s][g]) : Cardinality({page \in gens[s][g].out.index : e \in page.entries}) = 1
       BY Zenon DEF EntriesRoutable, Listed
  <2>1. Routable(gens[s][g])
        BY DEF IInv, Published, GenOK
  <2>. QED  BY <2>1 DEF Routable
<1>. QED  BY <1>1, Invariant, PTL

-------------------------------------------------------------------------------
(* Evaluations of retrievals.                                                *)

\* A generation that is pinned stays what it was, and its inputs are facts.
LEMMA PinStays ==
    ASSUME IInv, [Next]_vars, NEW CONSTANT t \in Store, NEW CONSTANT g \in 1..Len(gens[t])
    PROVE  /\ gens'[t][g] = gens[t][g] /\ g \in 1..Len(gens'[t])
           /\ gens[t][g].inputs \subseteq facts[t] /\ Answered(gens[t][g])
           /\ \A now : cleaned' = cleaned => WorldOf(t, g, now)' = WorldOf(t, g, now)
<1>1. Len(gens[t]) \in Nat /\ Len(gens'[t]) \in Nat
      BY StepInv DEF IInv, Published, IsSeq
<1>2. gens'[t][g] = gens[t][g] /\ g \in 1..Len(gens'[t])
      BY <1>1, StepExtends DEF Extends
<1>3. gens[t][g].inputs \subseteq facts[t] /\ Answered(gens[t][g])
      BY DEF IInv, Published, GenOK
<1>4. ASSUME NEW CONSTANT now, cleaned' = cleaned PROVE WorldOf(t, g, now)' = WorldOf(t, g, now)
  <2>1. InPlace(t, g)' <=> InPlace(t, g)
        BY <1>2, <1>4 DEF InPlace
  <2>. QED  BY <1>2, <2>1 DEF WorldOf
<1>. QED  BY <1>2, <1>3, <1>4

\* What a scenario says of its facts, of those that are there.
Sound == \A s \in Store : /\ IsFiniteSet(facts[s]) /\ OneFact(facts[s])
                          /\ \A f \in facts[s] : WellFormed(f)

LEMMA GrownSound == Grown => Sound
BY GoodWorld DEF OneFact, Sound

LEMMA StaysSound == IInv /\ [Next]_vars => Sound'
<1>1. IInv /\ [Next]_vars => Grown'
      BY GrownStays
<1>. QED  BY <1>1, GrownSound, PTL

\* RetrievalEvaluated as the conditions under which it verifies.
Verified(s, e, now) ==
    LET sides == {t \in Store : e.ctx[t] # None}
        J == {x \in Kind(facts[s], "relevance") : x.at = e.judgment}
        j == CHOOSE x \in J : TRUE
    IN  /\ ~ (e.at > now)
        /\ \A t \in sides : WorldOf(t, e.ctx[t], now) \notin {"refused", "unavailable"}
        /\ J # {} /\ j.retrieval = e.retrieval /\ j.source \in Sources /\ ~ (j.at > now)
        /\ \A i \in 1..Len(j.named) : ScopeOf[j.named[i][1]] \in sides /\ InWorld(e.ctx, j.named[i])
        /\ j.cites[3] \in sides
        /\ j.cites \in UNION {v.refs : v \in Kind(PinnedFacts(e.ctx, j.cites[3]), "evidence")}

LEMMA VerifiedMeans ==
    \A s, e, now : RetrievalEvaluated(s, e, now) = "verified" <=> Verified(s, e, now)
<1>. SUFFICES ASSUME NEW s, NEW e, NEW now
              PROVE  RetrievalEvaluated(s, e, now) = "verified" <=> Verified(s, e, now)
     OBVIOUS
<1> DEFINE sides == {t \in Store : e.ctx[t] # None}
           worlds == {WorldOf(t, e.ctx[t], now) : t \in sides}
           J == {x \in Kind(facts[s], "relevance") : x.at = e.judgment}
           j == CHOOSE x \in J : TRUE
           Shown(t) == UNION {v.refs : v \in Kind(PinnedFacts(e.ctx, t), "evidence")}
           Away(i) == ScopeOf[j.named[i][1]] \notin sides
           lost == {i \in 1..Len(j.named) : Away(i) \/ ~ InWorld(e.ctx, j.named[i])}
           A == e.at > now \/ "refused" \in worlds
           B == J = {} \/ j.retrieval # e.retrieval \/ j.source \notin Sources \/ j.at > now
           C == j.cites[3] \notin sides
           D == j.cites \notin Shown(j.cites[3])
<1>1. RetrievalEvaluated(s, e, now) = "verified"
      <=> ~ A /\ "unavailable" \notin worlds /\ ~ B /\ lost = {} /\ ~ C /\ ~ D
  <2> DEFINE firstLost == CHOOSE i \in lost : \A k \in lost : i <= k
  <2>1. RetrievalEvaluated(s, e, now) =
            IF A THEN "refused"
            ELSE IF "unavailable" \in worlds THEN "unavailable"
            ELSE IF B THEN "refused"
            ELSE IF lost # {} THEN IF Away(firstLost) THEN "unavailable" ELSE "refused"
            ELSE IF C THEN "unavailable"
            ELSE IF D THEN "refused"
            ELSE "verified"
        BY DEF RetrievalEvaluated
  <2>. HIDE DEF A, B, C, D, worlds, lost, Away, firstLost
  <2>. QED  BY <2>1
<1>2. lost = {} <=> \A i \in 1..Len(j.named) : ScopeOf[j.named[i][1]] \in sides /\ InWorld(e.ctx, j.named[i])
  <2>. HIDE DEF j, sides
  <2>. QED  OBVIOUS
<1>3. /\ "refused" \notin worlds <=> \A t \in sides : WorldOf(t, e.ctx[t], now) # "refused"
      /\ "unavailable" \notin worlds <=> \A t \in sides : WorldOf(t, e.ctx[t], now) # "unavailable"
  <2>. HIDE DEF sides
  <2>. QED  OBVIOUS
<1>4. Verified(s, e, now) <=>
          /\ ~ (e.at > now)
          /\ \A t \in sides : WorldOf(t, e.ctx[t], now) \notin {"refused", "unavailable"}
          /\ ~ B /\ lost = {} /\ ~ C /\ ~ D
  <2>1. B <=> ~ (J # {} /\ j.retrieval = e.retrieval /\ j.source \in Sources /\ ~ (j.at > now))
    <3>. HIDE DEF J, j
    <3>. QED  OBVIOUS
  <2>. HIDE DEF B, lost, J
  <2>. QED  BY <1>2, <2>1, Zenon DEF Verified, J
<1>5. ~ A <=> ~ (e.at > now) /\ "refused" \notin worlds
  <2>. HIDE DEF worlds
  <2>. QED  OBVIOUS
<1>. HIDE DEF A, B, C, D, worlds, lost, sides, Away, J, j
<1>. QED  BY <1>1, <1>3, <1>4, <1>5

LEMMA VerifiedMeansNext ==
    (\A s, e, now : RetrievalEvaluated(s, e, now) = "verified" <=> Verified(s, e, now))'
BY VerifiedMeans, PTL

\* The facts that a pinned generation names do not change.
LEMMA PinnedStay ==
    ASSUME IInv, [Next]_vars, NEW CONSTANT ctx, NEW CONSTANT t \in Store,
           ctx[t] = None \/ ctx[t] \in 1..Len(gens[t])
    PROVE  /\ PinnedFacts(ctx, t)' = PinnedFacts(ctx, t)
           /\ PinnedFacts(ctx, t) \subseteq facts[t]
BY PinStays DEF PinnedFacts

LEMMA VerifiedKept ==
    ASSUME IInv, [Next]_vars, cleaned' = cleaned, NEW CONSTANT s \in Store, NEW CONSTANT e,
           NEW CONSTANT now, Verified(s, e, now)
    PROVE  Verified(s, e, now)'
<1> DEFINE sides == {t \in Store : e.ctx[t] # None}
           J == {x \in Kind(facts[s], "relevance") : x.at = e.judgment}
           K == {x \in Kind(facts'[s], "relevance") : x.at = e.judgment}
<1>0. PICK j : j = CHOOSE x \in J : TRUE
      OBVIOUS
<1>1. \A t \in sides : e.ctx[t] \in 1..Len(gens[t])
      BY DEF Verified, WorldOf
<1>2. \A t \in sides : PinnedFacts(e.ctx, t)' = PinnedFacts(e.ctx, t)
      BY <1>1, PinnedStay
<1>3. \A t \in sides : WorldOf(t, e.ctx[t], now)' = WorldOf(t, e.ctx[t], now)
      BY <1>1, PinStays
<1>4. K = J
  <2>1. facts[s] \subseteq facts'[s]
        BY StepExtends DEF Extends
  <2>2. OneFact(facts'[s])
        BY StaysSound DEF Sound
  <2>3. J # {}
        BY DEF Verified
  <2>4. \A x, y \in K : x = y
        BY <2>2 DEF OneFact, Kind
  <2>. QED  BY <2>1, <2>3, <2>4 DEF Kind
<1>5. \A t \in sides : Kind(PinnedFacts(e.ctx, t), "evidence")' = Kind(PinnedFacts(e.ctx, t), "evidence")
      BY <1>2 DEF Kind
<1>6. \A ref : ScopeOf[ref[1]] \in sides => InWorld(e.ctx, ref)' = InWorld(e.ctx, ref)
      BY <1>2 DEF InWorld, Stored, About, Kind
<1>7. /\ \A t \in sides : WorldOf(t, e.ctx[t], now)' \notin {"refused", "unavailable"}
      /\ \A i \in 1..Len(j.named) : ScopeOf[j.named[i][1]] \in sides /\ InWorld(e.ctx, j.named[i])'
      /\ j.cites[3] \in sides
      /\ j.cites \in UNION {v.refs : v \in Kind(PinnedFacts(e.ctx, j.cites[3]), "evidence")'}
      /\ ~ (e.at > now) /\ J # {} /\ j.retrieval = e.retrieval /\ j.source \in Sources /\ ~ (j.at > now)
  <2>1. /\ \A t \in sides : WorldOf(t, e.ctx[t], now) \notin {"refused", "unavailable"}
        /\ \A i \in 1..Len(j.named) : ScopeOf[j.named[i][1]] \in sides /\ InWorld(e.ctx, j.named[i])
        /\ j.cites[3] \in sides
        /\ j.cites \in UNION {v.refs : v \in Kind(PinnedFacts(e.ctx, j.cites[3]), "evidence")}
        /\ ~ (e.at > now) /\ J # {} /\ j.retrieval = e.retrieval /\ j.source \in Sources /\ ~ (j.at > now)
        BY <1>0, Zenon DEF Verified
  <2>. HIDE DEF sides, J
  <2>2. \A t \in sides : WorldOf(t, e.ctx[t], now)' \notin {"refused", "unavailable"}
        BY <1>3, <2>1
  <2>3. \A i \in 1..Len(j.named) : InWorld(e.ctx, j.named[i])'
        BY <1>6, <2>1, Zenon
  <2>4. Kind(PinnedFacts(e.ctx, j.cites[3]), "evidence")' = Kind(PinnedFacts(e.ctx, j.cites[3]), "evidence")
        BY <1>5, <2>1
  <2>. QED  BY <2>1, <2>2, <2>3, <2>4, Zenon
<1>. HIDE DEF J
<1>. QED  BY <1>0, <1>4, <1>7, Zenon DEF Verified, J

\* A verified evaluation stays verified while its generations are on disk
\* (VerifiedStays): all it depends on are manifests and one judgment.
THEOREM VerificationsStay == Spec => VerifiedStays
<1>1. ASSUME IInv, [Next]_vars
      PROVE  [\A s \in Store : \A e \in Kind(facts[s], "evaluation") : \A now \in Instant :
                RetrievalEvaluated(s, e, now) = "verified" =>
                    RetrievalEvaluated(s, e, now)' = "verified" \/ cleaned' # cleaned]_vars
  <2>. SUFFICES ASSUME NEW CONSTANT s \in Store, NEW CONSTANT e, NEW CONSTANT now,
                       RetrievalEvaluated(s, e, now) = "verified", cleaned' = cleaned
                PROVE  RetrievalEvaluated(s, e, now)' = "verified"
       OBVIOUS
  <2>1. Verified(s, e, now)
        BY VerifiedMeans
  <2>2. Verified(s, e, now)'
        BY <1>1, <2>1, VerifiedKept
  <2>. QED  BY <2>2, VerifiedMeansNext
<1>. QED  BY <1>1, Invariant, PTL DEF Spec, VerifiedStays

-------------------------------------------------------------------------------
(* The gate.                                                                 *)

\* A world whose generations were all published.
Had(ctx) == \A t \in Store : ctx[t] = None \/ ctx[t] \in 1..Len(gens[t])

LEMMA ReviewedHad == ASSUME IInv, NEW ctx \in ReviewedWorlds PROVE Had(ctx)
<1>1. PICK s \in Store : \E f \in facts[s] : "ctx" \in DOMAIN f /\ ctx = f.ctx
      BY DEF ReviewedWorlds
<1>. QED  BY <1>1 DEF IInv, Grounded, Had

LEMMA KnownStore == ASSUME IInv, NEW ref \in Known PROVE ScopeOf[ref[1]] \in Store
<1>1. PICK s \in Store : \E f \in facts[s] : f.kind = "revision" /\ ref = f.ref
      BY DEF Known, Kind
<1>2. \A f \in facts[s] : WellFormed(f)
      BY GoodWorld DEF IInv
<1>3. ref \in Memory \X Nat
      BY <1>1, <1>2 DEF WellFormed
<1>. QED  BY <1>3, RetrievalAssumption

LEMMA WorldAnswers ==
    ASSUME IInv, NEW ctx, Had(ctx), NEW now
    PROVE  World(ctx, now) \in {"available", "unavailable", "refused"}
<1> DEFINE W(i) == WorldOf(Scopes[i], ctx[Scopes[i]], now)
           bad == {i \in 1..2 : ctx[Scopes[i]] # None /\ W(i) # "available"}
<1>1. \A i \in 1..2 : Scopes[i] \in Store
      BY DEF Scopes, Store
<1>2. ASSUME NEW i \in bad PROVE W(i) \in {"available", "unavailable", "refused"}
  <2> DEFINE t == Scopes[i]
             g == ctx[t]
  <2>1. t \in Store /\ g \in 1..Len(gens[t])
        BY <1>1, <1>2 DEF Had
  <2>2. Answered(gens[t][g])
        BY <2>1 DEF IInv, Published, GenOK
  <2>3. WorldOf(t, g, now) \in {"available", "unavailable", "refused"}
    <3>. HIDE DEF t, g
    <3>. QED  BY <2>1, <2>2 DEF WorldOf, Answered
  <2>. QED  BY <2>3
<1>3. ASSUME bad # {} PROVE (CHOOSE i \in bad : \A k \in bad : i <= k) \in bad
      BY <1>3
<1>4. World(ctx, now) = IF bad = {} THEN "available" ELSE W(CHOOSE i \in bad : \A k \in bad : i <= k)
      BY DEF World
<1>. HIDE DEF bad, W
<1>. QED  BY <1>2, <1>3, <1>4

LEMMA WorldStays ==
    ASSUME IInv, [Next]_vars, cleaned' = cleaned, NEW CONSTANT ctx, Had(ctx), NEW CONSTANT now
    PROVE  World(ctx, now)' = World(ctx, now)
<1> DEFINE bad == {i \in 1..2 : ctx[Scopes[i]] # None /\ WorldOf(Scopes[i], ctx[Scopes[i]], now) # "available"}
           after == {i \in 1..2 : ctx[Scopes[i]] # None /\ WorldOf(Scopes[i], ctx[Scopes[i]], now)' # "available"}
<1>1. \A i \in 1..2 : Scopes[i] \in Store
      BY DEF Scopes, Store
<1>2. \A i \in 1..2 : ctx[Scopes[i]] # None =>
          WorldOf(Scopes[i], ctx[Scopes[i]], now)' = WorldOf(Scopes[i], ctx[Scopes[i]], now)
      BY <1>1, PinStays DEF Had
<1>3. after = bad
      BY <1>2
<1>4. PICK first : first = CHOOSE i \in bad : \A k \in bad : i <= k
      OBVIOUS
<1>5. bad # {} => first \in bad
      BY <1>4
<1>6. World(ctx, now) = IF bad = {} THEN "available"
                        ELSE WorldOf(Scopes[first], ctx[Scopes[first]], now)
      BY <1>4 DEF World
<1>7. World(ctx, now)' = IF after = {} THEN "available"
                         ELSE WorldOf(Scopes[first], ctx[Scopes[first]], now)'
      BY <1>3, <1>4 DEF World
<1>. QED  BY <1>2, <1>3, <1>5, <1>6, <1>7

\* What a fixed world says of a memory stays.
LEMMA EvidenceStays ==
    ASSUME IInv, [Next]_vars, NEW CONSTANT ctx, Had(ctx), NEW CONSTANT ref, ScopeOf[ref[1]] \in Store
    PROVE  /\ InWorld(ctx, ref)' = InWorld(ctx, ref)
           /\ PinnedEvidence(ctx, ref)' = PinnedEvidence(ctx, ref)
           /\ EvidenceSet(ctx, ref)' = EvidenceSet(ctx, ref)
           /\ \A now : EvidenceInFuture(ctx, ref, now)' = EvidenceInFuture(ctx, ref, now)
           /\ InWorld(ctx, ref) => Stored(facts[ScopeOf[ref[1]]], ref) /\ Stored(facts'[ScopeOf[ref[1]]], ref)
<1>1. /\ PinnedFacts(ctx, ScopeOf[ref[1]])' = PinnedFacts(ctx, ScopeOf[ref[1]])
      /\ PinnedFacts(ctx, ScopeOf[ref[1]]) \subseteq facts[ScopeOf[ref[1]]]
      BY PinnedStay DEF Had
<1>2. facts[ScopeOf[ref[1]]] \subseteq facts'[ScopeOf[ref[1]]]
      BY StepExtends DEF Extends
<1>3. PinnedEvidence(ctx, ref)' = PinnedEvidence(ctx, ref)
      BY <1>1 DEF PinnedEvidence, About, Kind
<1>4. InWorld(ctx, ref)' = InWorld(ctx, ref)
      BY <1>1 DEF InWorld, Stored, About, Kind
<1>5. InWorld(ctx, ref) => Stored(facts[ScopeOf[ref[1]]], ref) /\ Stored(facts'[ScopeOf[ref[1]]], ref)
      BY <1>1, <1>2 DEF InWorld, Stored, About, Kind
<1>. QED  BY <1>3, <1>4, <1>5 DEF EvidenceSet, EvidenceInFuture

\* A revision is one fact.
LEMMA RevisionStays ==
    ASSUME IInv, [Next]_vars, NEW CONSTANT s \in Store, NEW CONSTANT ref, Stored(facts[s], ref)
    PROVE  /\ RevisionFact(facts'[s], ref) = RevisionFact(facts[s], ref)
           /\ RevisionFact(facts[s], ref) \in About(facts[s], "revision", ref)
<1>1. facts[s] \subseteq facts'[s] /\ OneFact(facts'[s])
      BY StepExtends, StaysSound DEF Extends, Sound
<1>2. \A f, g \in About(facts'[s], "revision", ref) : f = g
      BY <1>1 DEF OneFact, About, Kind
<1>3. About(facts'[s], "revision", ref) = About(facts[s], "revision", ref)
      BY <1>1, <1>2 DEF Stored, About, Kind
<1>. QED  BY <1>3 DEF RevisionFact, Stored

LEMMA CandidatesStay ==
    ASSUME NEW CONSTANT ctx, NEW CONSTANT ref, NEW CONSTANT type,
           Reviews(ScopeOf[ref[1]], type)' = Reviews(ScopeOf[ref[1]], type)
    PROVE  /\ Candidates(type, ctx, ref)' = Candidates(type, ctx, ref)
           /\ InForce(Candidates(type, ctx, ref))' = InForce(Candidates(type, ctx, ref))
           /\ EdgesAgree(ScopeOf[ref[1]], type)' = EdgesAgree(ScopeOf[ref[1]], type)
BY DEF Candidates, InForce, EdgesAgree

LEMMA CriticStays ==
    ASSUME IInv, [Next]_vars, cleaned' = cleaned, NEW CONSTANT ctx, Had(ctx), NEW CONSTANT ref,
           ScopeOf[ref[1]] \in Store, InWorld(ctx, ref), NEW CONSTANT now,
           Reviews(ScopeOf[ref[1]], "critic")' = Reviews(ScopeOf[ref[1]], "critic")
    PROVE  Critic(ctx, ref, now)' = Critic(ctx, ref, now)
<1>1. World(ctx, now)' = World(ctx, now)
      BY WorldStays
<1>2. /\ InWorld(ctx, ref)' = InWorld(ctx, ref)
      /\ EvidenceSet(ctx, ref)' = EvidenceSet(ctx, ref)
      /\ EvidenceInFuture(ctx, ref, now)' = EvidenceInFuture(ctx, ref, now)
      /\ Stored(facts[ScopeOf[ref[1]]], ref) /\ Stored(facts'[ScopeOf[ref[1]]], ref)
      BY EvidenceStays
<1>3. /\ Candidates("critic", ctx, ref)' = Candidates("critic", ctx, ref)
      /\ InForce(Candidates("critic", ctx, ref))' = InForce(Candidates("critic", ctx, ref))
      /\ EdgesAgree(ScopeOf[ref[1]], "critic")' = EdgesAgree(ScopeOf[ref[1]], "critic")
      BY CandidatesStay
<1>. QED  BY <1>1, <1>2, <1>3 DEF Critic

LEMMA GroundStays ==
    ASSUME IInv, [Next]_vars, NEW CONSTANT ctx, Had(ctx), NEW CONSTANT ref, ScopeOf[ref[1]] \in Store,
           NEW CONSTANT now, NEW CONSTANT j, j.against \subseteq Memory \X Nat
    PROVE  ReviewGrounded(j, ctx, ref, now)' = ReviewGrounded(j, ctx, ref, now)
<1>1. \A other \in j.against : ScopeOf[other[1]] \in Store
  <2>1. \A other \in j.against : other[1] \in Memory
        OBVIOUS
  <2>. QED  BY <2>1, RetrievalAssumption
<1>2. ASSUME NEW CONSTANT other \in j.against
      PROVE  /\ InWorld(ctx, other)' = InWorld(ctx, other)
             /\ EvidenceSet(ctx, other)' = EvidenceSet(ctx, other)
             /\ EvidenceInFuture(ctx, other, now)' = EvidenceInFuture(ctx, other, now)
             /\ InWorld(ctx, other) =>
                  RevisionFact(facts[ScopeOf[other[1]]], other)' = RevisionFact(facts[ScopeOf[other[1]]], other)
  <2>1. ScopeOf[other[1]] \in Store
        BY <1>1
  <2>2. /\ InWorld(ctx, other)' = InWorld(ctx, other)
        /\ EvidenceSet(ctx, other)' = EvidenceSet(ctx, other)
        /\ EvidenceInFuture(ctx, other, now)' = EvidenceInFuture(ctx, other, now)
        /\ InWorld(ctx, other) => Stored(facts[ScopeOf[other[1]]], other)
        BY <2>1, EvidenceStays
  <2>. QED  BY <2>1, <2>2, RevisionStays
<1>3. EvidenceSet(ctx, ref)' = EvidenceSet(ctx, ref)
      BY EvidenceStays
<1>4. (\A other \in j.against : /\ InWorld(ctx, other) /\ ~ EvidenceInFuture(ctx, other, now)
                                /\ RevisionFact(facts[ScopeOf[other[1]]], other).at <= now)'
      <=> \A other \in j.against : /\ InWorld(ctx, other) /\ ~ EvidenceInFuture(ctx, other, now)
                                   /\ RevisionFact(facts[ScopeOf[other[1]]], other).at <= now
      BY <1>2
<1>5. (UNION {EvidenceSet(ctx, other) : other \in j.against})' = UNION {EvidenceSet(ctx, other) : other \in j.against}
      BY <1>2
<1>. QED  BY <1>3, <1>4, <1>5 DEF ReviewGrounded

LEMMA ReviewsReach ==
    ASSUME IInv, NEW ctx, NEW ref, ScopeOf[ref[1]] \in Store
    PROVE  \A j \in InForce(Candidates("conflict", ctx, ref)) : j.against \subseteq Memory \X Nat
<1>1. \A j \in InForce(Candidates("conflict", ctx, ref)) :
          j \in facts[ScopeOf[ref[1]]] /\ j.kind = "judgment" /\ j.type = "conflict"
      BY DEF InForce, Candidates, Reviews, Kind
<1>2. \A f \in facts[ScopeOf[ref[1]]] : WellFormed(f)
      BY GoodWorld DEF IInv
<1>. QED  BY <1>1, <1>2 DEF WellFormed

LEMMA ConflictStays ==
    ASSUME IInv, [Next]_vars, cleaned' = cleaned, NEW CONSTANT ctx, Had(ctx), NEW CONSTANT ref,
           ScopeOf[ref[1]] \in Store, InWorld(ctx, ref), NEW CONSTANT now,
           Reviews(ScopeOf[ref[1]], "conflict")' = Reviews(ScopeOf[ref[1]], "conflict")
    PROVE  Conflict(ctx, ref, now)' = Conflict(ctx, ref, now)
<1>1. World(ctx, now)' = World(ctx, now)
      BY WorldStays
<1>2. /\ InWorld(ctx, ref)' = InWorld(ctx, ref)
      /\ EvidenceInFuture(ctx, ref, now)' = EvidenceInFuture(ctx, ref, now)
      /\ Stored(facts[ScopeOf[ref[1]]], ref) /\ Stored(facts'[ScopeOf[ref[1]]], ref)
      BY EvidenceStays
<1>3. /\ Candidates("conflict", ctx, ref)' = Candidates("conflict", ctx, ref)
      /\ InForce(Candidates("conflict", ctx, ref))' = InForce(Candidates("conflict", ctx, ref))
      /\ EdgesAgree(ScopeOf[ref[1]], "conflict")' = EdgesAgree(ScopeOf[ref[1]], "conflict")
      BY CandidatesStay
<1>4. RevisionFact(facts[ScopeOf[ref[1]]], ref)' = RevisionFact(facts[ScopeOf[ref[1]]], ref)
      BY <1>2, RevisionStays
<1>5. DatedAfter(Candidates("conflict", ctx, ref), now)' = DatedAfter(Candidates("conflict", ctx, ref), now)
      BY <1>3 DEF DatedAfter
<1>6. \A j \in InForce(Candidates("conflict", ctx, ref)) :
          ReviewGrounded(j, ctx, ref, now)' = ReviewGrounded(j, ctx, ref, now)
      BY ReviewsReach, GroundStays
<1>. QED  BY <1>1, <1>2, <1>3, <1>4, <1>5, <1>6 DEF Conflict

LEMMA GateStays ==
    ASSUME IInv, [Next]_vars, cleaned' = cleaned, NEW CONSTANT ctx, Had(ctx), NEW CONSTANT ref,
           ScopeOf[ref[1]] \in Store, NEW CONSTANT now, ~ Reviewed(ref)
    PROVE  (Gate(ctx, ref, now) = "satisfied") = (Gate(ctx, ref, now)' = "satisfied")
<1>1. \A type \in {"critic", "conflict"} :
          Reviews(ScopeOf[ref[1]], type)' = Reviews(ScopeOf[ref[1]], type)
  <2>1. facts[ScopeOf[ref[1]]] \subseteq facts'[ScopeOf[ref[1]]]
        BY StepExtends DEF Extends
  <2>. QED  BY <2>1 DEF Reviewed, Reviews, Kind
<1>2. CASE InWorld(ctx, ref)
  <2>1. /\ Critic(ctx, ref, now)' = Critic(ctx, ref, now)
        /\ Conflict(ctx, ref, now)' = Conflict(ctx, ref, now)
        BY <1>1, <1>2, CriticStays, ConflictStays
  <2>2. /\ PinnedEvidence(ctx, ref)' = PinnedEvidence(ctx, ref)
        /\ EvidenceSet(ctx, ref)' = EvidenceSet(ctx, ref)
        BY EvidenceStays
  <2>. QED  BY <2>1, <2>2 DEF Gate
<1>3. CASE ~ InWorld(ctx, ref)
  <2>1. World(ctx, now)' = World(ctx, now) /\ InWorld(ctx, ref)' = InWorld(ctx, ref)
        BY WorldStays, EvidenceStays
  <2>2. World(ctx, now) \in {"available", "unavailable", "refused"}
        BY WorldAnswers DEF IInv
  <2>3. /\ Critic(ctx, ref, now) \in {"unavailable", "refused"}
        /\ Critic(ctx, ref, now)' \in {"unavailable", "refused"}
        BY <1>3, <2>1, <2>2 DEF Critic
  <2>4. Gate(ctx, ref, now) # "satisfied" /\ Gate(ctx, ref, now)' # "satisfied"
        BY <2>3 DEF Gate
  <2>. QED  BY <2>4
<1>. QED  BY <1>2, <1>3

\* The evidence gate in a fixed world moves by a review or a clean-up only
\* (GateMovesByReview).
THEOREM GateMoves == Spec => GateMovesByReview
<1>1. ASSUME IInv, [Next]_vars
      PROVE  [\A ref \in Known, ctx \in ReviewedWorlds, now \in Instant :
                (Gate(ctx, ref, now) = "satisfied") # (Gate(ctx, ref, now)' = "satisfied")
                    => Reviewed(ref) \/ cleaned' # cleaned]_vars
  <2>. SUFFICES ASSUME NEW CONSTANT ref \in Known, NEW CONSTANT ctx \in ReviewedWorlds, NEW CONSTANT now,
                       ~ Reviewed(ref), cleaned' = cleaned
                PROVE  (Gate(ctx, ref, now) = "satisfied") = (Gate(ctx, ref, now)' = "satisfied")
       OBVIOUS
  <2>1. Had(ctx)
        BY <1>1, ReviewedHad
  <2>2. ScopeOf[ref[1]] \in Store
        BY <1>1, KnownStore
  <2>. QED  BY <1>1, <2>1, <2>2, GateStays
<1>. QED  BY <1>1, Invariant, PTL DEF Spec, GateMovesByReview

-------------------------------------------------------------------------------
(* Facts of a later date.                                                    *)

\* Only Put adds a fact, and one only.
LEMMA OnlyPut ==
    ASSUME IInv, [Next]_vars, NEW CONSTANT s \in Store, NEW CONSTANT f \in facts'[s] \ facts[s]
    PROVE  /\ \A t \in Store : facts'[t] = IF t = s THEN facts[s] \cup {f} ELSE facts[t]
           /\ UNCHANGED <<gens, cleaned>>
<1>1. facts' # facts
      OBVIOUS
<1>2. ASSUME NEW t \in Store, NEW g \in later[t], Put(t, g)
      PROVE  /\ \A u \in Store : facts'[u] = IF u = s THEN facts[s] \cup {f} ELSE facts[u]
             /\ UNCHANGED <<gens, cleaned>>
  <2>1. facts' = [facts EXCEPT ![t] = @ \cup {g}] /\ facts = [u \in Store |-> facts[u]]
        BY <1>2 DEF Put, IInv, AreFunctions
  <2>2. t = s /\ g = f
        BY <2>1
  <2>. QED  BY <1>2, <2>1, <2>2 DEF Put
<1>3. ~ \E p \in Proc : (\E r \in requests : Begin(p, r)) \/ Compile(p) \/ Commit(p)
      BY <1>1 DEF Begin, Compile, Commit
<1>4. ~ \E t \in Store : \E g \in 1..MaxGenerations : CleanUp(t, g)
      BY <1>1 DEF CleanUp
<1>5. ~ \E r \in Reader : (\E i \in {1, 2} : PinScope(r, i)) \/ \E rc \in receipts : Accept(r, rc)
      BY <1>1 DEF PinScope, Accept
<1>6. \E t \in Store : \E g \in later[t] : Put(t, g)
      BY <1>1, <1>3, <1>4, <1>5, Zenon DEF Next, vars
<1>. QED  BY <1>2, <1>6

\* What a review supersedes was there before it: a new fact is never it.
LEMMA NoEdgeToNew ==
    ASSUME IInv, [Next]_vars, NEW CONSTANT s \in Store,
           NEW CONSTANT f \in Kind(facts'[s], "judgment") \ facts[s],
           NEW CONSTANT j \in Kind(facts[s], "judgment"), j.sup # None
    PROVE  f.at # j.sup
<1>1. j \in facts[s] /\ "sup" \in DOMAIN j
  <2>1. \A g \in facts[s] : WellFormed(g)
        BY GoodWorld DEF IInv
  <2>. QED  BY <2>1 DEF Kind, WellFormed
<1>2. PICK k \in Kind(facts[s], "judgment") : k.at = j.sup
      BY <1>1 DEF IInv, Grounded
<1>3. k \in facts'[s] /\ k \in facts[s] /\ k.kind = "judgment"
      BY <1>2, StepExtends DEF Extends, Kind
<1>4. OneFact(facts'[s])
      BY StaysSound DEF Sound
<1>5. f \in facts'[s] /\ f \notin facts[s] /\ f.kind = "judgment"
      BY DEF Kind
<1>. QED  BY <1>2, <1>3, <1>4, <1>5 DEF OneFact

LEMMA ReviewsGrow ==
    ASSUME IInv, [Next]_vars, NEW CONSTANT s \in Store, NEW CONSTANT type
    PROVE  /\ Reviews(s, type) \subseteq Reviews(s, type)'
           /\ EdgesAgree(s, type)' => EdgesAgree(s, type)
           /\ \A ref : FreshnessChainsAgree(s, ref)' => FreshnessChainsAgree(s, ref)
<1>1. facts[s] \subseteq facts'[s]
      BY StepExtends DEF Extends
<1>2. \A u : Reviews(s, u) \subseteq Reviews(s, u)'
      BY <1>1 DEF Reviews, Kind
<1>3. ASSUME NEW CONSTANT u, NEW CONSTANT j \in Reviews(s, u), j.sup # None,
             NEW CONSTANT t \in Reviews(s, u)', t.at = j.sup
      PROVE  t \in Reviews(s, u)
  <2>1. j \in Kind(facts[s], "judgment") /\ t \in Kind(facts'[s], "judgment") /\ t.type = u
        BY <1>3 DEF Reviews, Kind
  <2>2. t \in facts[s]
        BY <1>3, <2>1, NoEdgeToNew
  <2>. QED  BY <2>1, <2>2 DEF Reviews, Kind
<1>4. EdgesAgree(s, type)' => EdgesAgree(s, type)
      BY <1>2, <1>3 DEF EdgesAgree
<1>5. \A ref : FreshnessChainsAgree(s, ref)' => FreshnessChainsAgree(s, ref)
      BY <1>2, <1>3 DEF FreshnessChainsAgree
<1>. QED  BY <1>2, <1>4, <1>5

LEMMA PastConflict ==
    ASSUME IInv, [Next]_vars, NEW CONSTANT s \in Store, NEW CONSTANT f \in facts'[s] \ facts[s],
           NEW CONSTANT now \in Nat, f.at > now,
           NEW CONSTANT ctx, Had(ctx), NEW CONSTANT ref, ScopeOf[ref[1]] \in Store
    PROVE  Conflict(ctx, ref, now)' \in {Conflict(ctx, ref, now), "refused"}
<1> DEFINE sc == ScopeOf[ref[1]]
<1>1. /\ \A t \in Store : facts'[t] = IF t = s THEN facts[s] \cup {f} ELSE facts[t]
      /\ cleaned' = cleaned
      BY OnlyPut
<1>2. CASE ~ Stored(facts[sc], ref)
  <2>1. ASSUME Stored(facts'[sc], ref) PROVE RevisionFact(facts'[sc], ref) = f
    <3>1. \A g \in facts'[sc] : g \in facts[sc] \/ g = f
          BY <1>1
    <3>2. \A g \in About(facts'[sc], "revision", ref) : g = f
          BY <1>2, <3>1 DEF Stored, About, Kind
    <3>. QED  BY <2>1, <3>2 DEF Stored, RevisionFact
  <2>. QED  BY <2>1 DEF Conflict
<1>3. CASE Stored(facts[sc], ref)
  <2>1. World(ctx, now)' = World(ctx, now) /\ InWorld(ctx, ref)' = InWorld(ctx, ref)
        BY <1>1, WorldStays, EvidenceStays
  <2>2. RevisionFact(facts'[sc], ref) = RevisionFact(facts[sc], ref)
        BY <1>3, RevisionStays
  <2>3. Stored(facts'[sc], ref)
        BY <1>1, <1>3 DEF Stored, About, Kind
  <2>4. CASE Reviews(sc, "conflict")' = Reviews(sc, "conflict") /\ InWorld(ctx, ref)
    <3>1. Conflict(ctx, ref, now)' = Conflict(ctx, ref, now)
          BY <1>1, <2>4, ConflictStays
    <3>. QED  BY <3>1
  <2>5. CASE ~ InWorld(ctx, ref)
        BY <1>3, <2>1, <2>2, <2>3, <2>5 DEF Conflict
  <2>6. CASE Reviews(sc, "conflict")' # Reviews(sc, "conflict") /\ InWorld(ctx, ref)
    <3>1. sc = s /\ Reviews(sc, "conflict")' = Reviews(sc, "conflict") \cup {f}
          BY <1>1, <2>6 DEF Reviews, Kind
    <3>2. CASE f \in Candidates("conflict", ctx, ref)'
      <4>1. DatedAfter(Candidates("conflict", ctx, ref), now)'
            BY <3>2 DEF DatedAfter
      <4>. QED  BY <1>3, <2>1, <2>2, <2>3, <2>6, <4>1 DEF Conflict
    <3>3. CASE f \notin Candidates("conflict", ctx, ref)'
      <4>1. Candidates("conflict", ctx, ref)' = Candidates("conflict", ctx, ref)
            BY <3>1, <3>3 DEF Candidates
      <4>2. /\ InForce(Candidates("conflict", ctx, ref))' = InForce(Candidates("conflict", ctx, ref))
            /\ DatedAfter(Candidates("conflict", ctx, ref), now)' = DatedAfter(Candidates("conflict", ctx, ref), now)
            BY <4>1 DEF InForce, DatedAfter
      <4>3. EdgesAgree(sc, "conflict")' => EdgesAgree(sc, "conflict")
            BY ReviewsGrow
      <4>4. EvidenceInFuture(ctx, ref, now)' = EvidenceInFuture(ctx, ref, now)
            BY EvidenceStays
      <4>5. \A j \in InForce(Candidates("conflict", ctx, ref)) :
                ReviewGrounded(j, ctx, ref, now)' = ReviewGrounded(j, ctx, ref, now)
            BY ReviewsReach, GroundStays
      <4>. QED  BY <1>3, <2>1, <2>2, <2>3, <2>6, <4>1, <4>2, <4>3, <4>4, <4>5 DEF Conflict
    <3>. QED  BY <3>2, <3>3
  <2>. QED  BY <2>4, <2>5, <2>6
<1>. QED  BY <1>2, <1>3

\* The latest revisions, when a new one is not among them.
LEMMA LatestStay ==
    ASSUME IInv, [Next]_vars, NEW CONSTANT s \in Store, NEW CONSTANT f \in facts'[s] \ facts[s],
           f \notin Selected(facts'[s], 0)
    PROVE  Selected(facts'[s], 0) = Selected(facts[s], 0)
<1>1. facts'[s] = facts[s] \cup {f}
      BY OnlyPut
<1>2. /\ IsFiniteSet(facts'[s])
      /\ \A g \in facts'[s] : g.kind = "revision" => g.ref[2] \in Nat
  <2>1. IsFiniteSet(facts'[s]) /\ \A g \in facts'[s] : WellFormed(g)
        BY StaysSound DEF Sound
  <2>. QED  BY <2>1 DEF WellFormed
<1>3. ASSUME NEW CONSTANT m, NEW CONSTANT g \in Kind(facts[s], "revision"), g.ref[1] = m
      PROVE  LatestOf(facts'[s], m) = LatestOf(facts[s], m)
  <2> DEFINE N == Revisions(facts[s], m)
             M == Revisions(facts'[s], m)
             of == {h \in Kind(facts'[s], "revision") : h.ref[1] = m}
  <2>1. M \in SUBSET Nat /\ M # {} /\ N # {}
        BY <1>1, <1>2, <1>3 DEF Revisions, Kind
  <2>2. IsFiniteSet(M)
    <3> DEFINE number == [h \in of |-> h.ref[2]]
    <3>1. number \in Surjection(of, M)
          BY DEF Surjection, Revisions
    <3>2. of \in SUBSET facts'[s]
          BY DEF Kind
    <3>. HIDE DEF of, number, M
    <3>. QED  BY <1>2, <3>1, <3>2, FS_Subset, FS_Surjection
  <2>3. N \subseteq M /\ \A n \in M : n \in N \/ (f.kind = "revision" /\ f.ref[1] = m /\ n = f.ref[2])
        BY <1>1 DEF Revisions, Kind
  <2>4. PICK top \in M : \A k \in M : k <= top
    <3>. HIDE DEF M
    <3>. QED  BY <2>1, <2>2, HasExtremes
  <2>5. \A k \in M : (\A n \in M : n <= k) => k = top
        BY <2>1, <2>4
  <2>6. LatestOf(facts'[s], m) = top
        BY <2>4, <2>5 DEF LatestOf
  <2>7. top \in N
    <3>. SUFFICES ASSUME f.kind = "revision", f.ref[1] = m, top = f.ref[2] PROVE FALSE
         BY <2>3, <2>4
    <3>. QED  BY <2>6, <1>1 DEF Selected, Kind
  <2>8. \A k \in N : (\A n \in N : n <= k) => k = top
        BY <2>1, <2>3, <2>4, <2>7
  <2>9. LatestOf(facts[s], m) = top
    <3>1. \A k \in N : k <= top
          BY <2>3, <2>4
    <3>. HIDE DEF N
    <3>. QED  BY <3>1, <2>7, <2>8 DEF LatestOf, N
  <2>. QED  BY <2>6, <2>9
<1>4. \A g \in Kind(facts[s], "revision") : LatestOf(facts'[s], g.ref[1]) = LatestOf(facts[s], g.ref[1])
      BY <1>3
<1>5. \A g : g \in Kind(facts'[s], "revision") /\ g # f <=> g \in Kind(facts[s], "revision")
      BY <1>1 DEF Kind
<1>. QED  BY <1>4, <1>5 DEF Selected

LEMMA PastRevalidation ==
    ASSUME IInv, [Next]_vars, NEW CONSTANT s \in Store, NEW CONSTANT f \in facts'[s] \ facts[s],
           NEW CONSTANT now \in Nat, f.at > now, NEW CONSTANT policy
    PROVE  Revalidate(s, policy, now) # {} =>
               Revalidate(s, policy, now)' \in {Revalidate(s, policy, now), {}}
<1> DEFINE latest == {g.ref : g \in Selected(facts[s], 0)}
           after == {g.ref : g \in Selected(facts'[s], 0)}
<1>1. facts'[s] = facts[s] \cup {f} /\ f.at \in Nat
  <2>1. \A g \in facts'[s] : WellFormed(g)
        BY StaysSound DEF Sound
  <2>. QED  BY <2>1, OnlyPut DEF WellFormed
<1>. SUFFICES ASSUME \A ref \in latest : Revalidation(s, ref, policy, now) # "refused",
                     ~ (policy.at > now), \A ref \in after : ~ (RevisionFact(facts'[s], ref).at > now),
                     \A ref \in after : Revalidation(s, ref, policy, now)' # "refused"
              PROVE  Revalidate(s, policy, now)' = Revalidate(s, policy, now)
  <2>1. \/ Revalidate(s, policy, now) = {}
        \/ \A ref \in latest : Revalidation(s, ref, policy, now) # "refused"
        BY DEF Revalidate
  <2>2. Revalidate(s, policy, now)' = {}
        \/ /\ ~ (policy.at > now) /\ \A ref \in after : ~ (RevisionFact(facts'[s], ref).at > now)
           /\ \A ref \in after : Revalidation(s, ref, policy, now)' # "refused"
        BY DEF Revalidate
  <2>. QED  BY <2>1, <2>2
<1>2. f \notin Selected(facts'[s], 0)
  <2>. SUFFICES ASSUME f \in Selected(facts'[s], 0) PROVE FALSE
       OBVIOUS
  <2>1. f.ref \in after /\ f \in About(facts'[s], "revision", f.ref)
        BY DEF Selected, About, Kind
  <2>2. OneFact(facts'[s])
        BY StaysSound DEF Sound
  <2>3. \A g \in About(facts'[s], "revision", f.ref) : g = f
        BY <2>1, <2>2 DEF OneFact, About, Kind
  <2>4. RevisionFact(facts'[s], f.ref) = f
        BY <2>1, <2>3 DEF RevisionFact
  <2>. QED  BY <2>1, <2>4
<1>3. after = latest
      BY <1>2, LatestStay
<1>4. \A ref \in latest : Stored(facts[s], ref)
      BY DEF Selected, Stored, About, Kind
<1>5. \A ref \in latest : RevisionFact(facts'[s], ref) = RevisionFact(facts[s], ref)
      BY <1>4, RevisionStays
<1>6. \A ref : Eligible(s, ref, policy, now)' = Eligible(s, ref, policy, now)
      BY <1>1 DEF Eligible, Reviews, Kind, Younger
<1>7. \A ref \in latest : WindowResult(s, ref, policy, now)' = WindowResult(s, ref, policy, now)
  <2>. TAKE ref \in latest
  <2> DEFINE seen(F) == {e \in About(F, "evidence", ref) :
                            e.at <= now /\ \E x \in e.refs : x[1] \in policy.types}
  <2>1. seen(facts'[s]) = seen(facts[s])
        BY <1>1 DEF About, Kind
  <2>2. RevisionFact(facts'[s], ref) = RevisionFact(facts[s], ref)
        BY <1>5
  <2>. QED  BY <2>1, <2>2, Zenon DEF WindowResult
<1>8. ASSUME NEW CONSTANT ref \in latest
      PROVE  Revalidation(s, ref, policy, now)' = Revalidation(s, ref, policy, now)
  <2> DEFINE results == {j.status : j \in InForce(Eligible(s, ref, policy, now))}
             one == CHOOSE x \in results : TRUE
             baseless == \/ ~ FreshnessChainsAgree(s, ref)
                         \/ \E j \in Eligible(s, ref, policy, now) : ~ BasisStored(s, j)
             aged == WindowResult(s, ref, policy, now)
  <2>1. Eligible(s, ref, policy, now)' = Eligible(s, ref, policy, now)
        BY <1>6
  <2>2. results' = results
        BY <2>1 DEF InForce
  <2>3. aged' = aged
        BY <1>7
  <2>4. one' = one
        BY <2>2
  <2>5. Revalidation(s, ref, policy, now) =
            IF baseless THEN "refused"
            ELSE IF Cardinality(results) = 1 THEN one
            ELSE IF EvidenceElsewhere(s, ref) THEN "refused" ELSE aged
        BY DEF Revalidation
  <2>6. Revalidation(s, ref, policy, now)' =
            IF baseless' THEN "refused"
            ELSE IF Cardinality(results') = 1 THEN one'
            ELSE IF EvidenceElsewhere(s, ref)' THEN "refused" ELSE aged'
        BY DEF Revalidation
  <2>7. Revalidation(s, ref, policy, now) # "refused" /\ Revalidation(s, ref, policy, now)' # "refused"
        BY <1>3
  <2>. HIDE DEF results, one, baseless, aged
  <2>. QED  BY <2>2, <2>3, <2>4, <2>5, <2>6, <2>7
<1>9. Revalidate(s, policy, now)' = {<<ref, Revalidation(s, ref, policy, now)'>> : ref \in after}
       BY Zenon DEF Revalidate
<1>10. Revalidate(s, policy, now) = {<<ref, Revalidation(s, ref, policy, now)>> : ref \in latest}
       BY <1>3, <1>5, Zenon DEF Revalidate
<1>. HIDE DEF latest, after
<1>. QED  BY <1>3, <1>8, <1>9, <1>10

LEMMA OtherRevalidation ==
    ASSUME NEW CONSTANT s \in Store, facts'[s] = facts[s], NEW CONSTANT now, NEW CONSTANT policy
    PROVE  Revalidate(s, policy, now)' = Revalidate(s, policy, now)
<1>1. \A ref : Revalidation(s, ref, policy, now)' = Revalidation(s, ref, policy, now)
      BY DEF Revalidation, FreshnessChainsAgree, Reviews, Eligible, BasisStored,
             EvidenceElsewhere, WindowResult
<1>. QED  BY <1>1 DEF Revalidate

\* An answer at an instant is kept, or refused, when facts of a later date
\* arrive (PastVerdictKept).
THEOREM PastVerdicts == Spec => PastVerdictKept
<1>1. ASSUME IInv, [Next]_vars
      PROVE  [\A now \in Instant :
                (\E s \in Store : \E f \in facts'[s] \ facts[s] : f.at > now) =>
                    /\ \A ref \in Known, ctx \in ReviewedWorlds :
                          Conflict(ctx, ref, now)' \in {Conflict(ctx, ref, now), "refused"}
                    /\ \A s \in Store : \A p \in FreshnessPolicies :
                          Revalidate(s, p, now) # {} =>
                              Revalidate(s, p, now)' \in {Revalidate(s, p, now), {}}]_vars
  <2>. SUFFICES ASSUME NEW CONSTANT now \in Instant, NEW CONSTANT s \in Store,
                       NEW CONSTANT f \in facts'[s] \ facts[s], f.at > now
                PROVE  /\ \A ref \in Known, ctx \in ReviewedWorlds :
                              Conflict(ctx, ref, now)' \in {Conflict(ctx, ref, now), "refused"}
                       /\ \A t \in Store : \A p \in FreshnessPolicies :
                              Revalidate(t, p, now) # {} =>
                                  Revalidate(t, p, now)' \in {Revalidate(t, p, now), {}}
       OBVIOUS
  <2>1. now \in Nat
        BY DEF Instant
  <2>2. ASSUME NEW CONSTANT ref \in Known, NEW CONSTANT ctx \in ReviewedWorlds
        PROVE  Conflict(ctx, ref, now)' \in {Conflict(ctx, ref, now), "refused"}
        BY <1>1, <2>1, <2>2, ReviewedHad, KnownStore, PastConflict
  <2>3. ASSUME NEW CONSTANT t \in Store, NEW CONSTANT p
        PROVE  Revalidate(t, p, now) # {} =>
                   Revalidate(t, p, now)' \in {Revalidate(t, p, now), {}}
    <3>1. CASE t = s
          BY <1>1, <2>1, <3>1, PastRevalidation
    <3>2. CASE t # s
      <4>1. facts'[t] = facts[t]
            BY <1>1, <3>2, OnlyPut
      <4>. QED  BY <4>1, OtherRevalidation
    <3>. QED  BY <3>1, <3>2
  <2>. QED  BY <2>2, <2>3
<1>. QED  BY <1>1, Invariant, PTL DEF Spec, PastVerdictKept
=================================================================================
