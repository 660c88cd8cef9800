------------------------------- MODULE IndexTree -------------------------------
(***************************************************************************)
(* The routing index of a generation: the entries of one page, or, while   *)
(* they do not fit, a split along the first dimension that tells them      *)
(* apart, down to the deepest level the policy allows.                     *)
(*                                                                         *)
(* An index is the set of its pages. A page is named by the path of routes *)
(* that leads to it from the root, whose name is empty. The limit in bytes *)
(* is another limit of the same kind as the one in entries, left out here. *)
(***************************************************************************)
EXTENDS Naturals, Sequences, FiniteSets

CONSTANTS
    TypeOf,            \* type of each memory
    IdOf,              \* id of each memory, a sequence of characters
    SplitOrder,        \* dimensions, in the order they are tried
    MaxEntriesPerPage,
    MaxShardDepth,
    OverflowBucket

ASSUME IndexAssumption ==
    /\ SplitOrder \in Seq(STRING)
    /\ \A m \in DOMAIN IdOf : IdOf[m] \in Seq(STRING)
    /\ MaxEntriesPerPage \in Nat /\ MaxShardDepth \in Nat

LongestId(E) == LET lengths == {Len(IdOf[e.ref[1]]) : e \in E}
                IN  CHOOSE n \in lengths : \A k \in lengths : k <= n

PrefixOf(id, n) == IF id = <<>> THEN OverflowBucket
                   ELSE SubSeq(id, 1, IF n > Len(id) THEN Len(id) ELSE n)

Bucket(e, dimension, n) ==
    CASE dimension = "memory_type" -> TypeOf[e.ref[1]]
      [] dimension = "stable_id_prefix" -> PrefixOf(IdOf[e.ref[1]], n)
      [] OTHER -> OverflowBucket                 \* "component", "operation"

Buckets(E, dimension, n) == {Bucket(e, dimension, n) : e \in E}

\* Mutant: an id shorter than the prefix is in no bucket.
InBucketLongOnly(E, dimension, n, value) ==
    {e \in E : /\ Bucket(e, dimension, n) = value
               /\ dimension = "stable_id_prefix" => Len(IdOf[e.ref[1]]) >= n}

InBucket(E, dimension, n, value) == {e \in E : Bucket(e, dimension, n) = value}

\* How long a prefix is passed over: up to the first that tells entries apart.
UsedPrefix(E, dimension, n) ==
    IF dimension # "stable_id_prefix" \/ Cardinality(Buckets(E, dimension, n + 1)) > 1 THEN n
    ELSE LET longer == {k \in n..LongestId(E) : Cardinality(Buckets(E, dimension, k + 1)) > 1}
         IN  IF longer = {} THEN LongestId(E) ELSE CHOOSE k \in longer : \A j \in longer : k <= j

Splits(E, dimension, n) ==
    Cardinality(Buckets(E, dimension, UsedPrefix(E, dimension, n) + 1)) > 1

Usable(E, cursor, n) == {i \in cursor..Len(SplitOrder) : Splits(E, SplitOrder[i], n)}

Page(path, E, routes) == [path |-> path, count |-> Cardinality(E),
                          entries |-> IF routes = {} THEN E ELSE {}, routes |-> routes]

Route(step, E) == [step |-> step, count |-> Cardinality(E)]

\* The pages of a child, as they are named from its parent.
Below(step, tree) == {[page EXCEPT !.path = <<step>> \o @] : page \in tree}

(***************************************************************************)
(* compileIndexNode: the pages for a's entries, named from their own page; *)
(* {} when the policy cannot be met. Every split but the one by prefix is  *)
(* used once on a path, and every split, whatever its dimension, lengthens *)
(* the prefix. What the call returns for a smaller set is node's.          *)
(***************************************************************************)
Call(all) == [entries : SUBSET all, depth : Nat, cursor : Nat \ {0}, prefix : Nat]

CompileIndexNode(node, a) ==
    LET E == a.entries
        usable == Usable(E, a.cursor, a.prefix)
        first == CHOOSE i \in usable : \A k \in usable : i <= k
        dim == SplitOrder[first]
        used == UsedPrefix(E, dim, a.prefix) + 1
        values == Buckets(E, dim, used)
        Child(v) == node[[entries |-> InBucket(E, dim, used, v), depth |-> a.depth + 1,
                          cursor |-> IF dim = "stable_id_prefix" THEN first ELSE first + 1,
                          prefix |-> used]]
        routes == {Route(<<dim, v>>, InBucket(E, dim, used, v)) : v \in values}
    IN  IF Cardinality(E) <= MaxEntriesPerPage THEN {Page(<<>>, E, {})}
        ELSE IF a.depth >= MaxShardDepth \/ usable = {} THEN {}
        ELSE IF Cardinality(values) > MaxEntriesPerPage \/ \E v \in values : Child(v) = {} THEN {}
        ELSE {Page(<<>>, E, routes)} \cup UNION {Below(<<dim, v>>, Child(v)) : v \in values}

CompileIndexTree(all) ==
    LET node[a \in Call(all)] == CompileIndexNode(node, a)
    IN  node[[entries |-> all, depth |-> 0, cursor |-> 1, prefix |-> 0]]

(***************************************************************************)
(* validateIndexTree: what a reader of the index checks before he uses it. *)
(***************************************************************************)
PageAt(tree, path) == {page \in tree : page.path = path}

ValidIndexTree(tree) ==
    /\ PageAt(tree, <<>>) # {}
    /\ \A page \in tree :
        /\ Cardinality(PageAt(tree, page.path)) = 1
        /\ Cardinality(page.entries) <= MaxEntriesPerPage
        /\ Cardinality(page.routes) <= MaxEntriesPerPage
        /\ page.count # 0 => (page.entries = {}) # (page.routes = {})
        /\ page.entries # {} => page.count = Cardinality(page.entries)
        /\ \A route \in page.routes :
            \E child \in PageAt(tree, Append(page.path, route.step)) : child.count = route.count
    /\ \A p, q \in tree : \A e \in p.entries : \A f \in q.entries : e.ref = f.ref => p = q /\ e = f
    /\ \A page \in tree : page.path = <<>> \/
        \E parent \in tree : \E route \in parent.routes : Append(parent.path, route.step) = page.path
=================================================================================
