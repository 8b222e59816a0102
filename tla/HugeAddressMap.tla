--------------------------- MODULE HugeAddressMap ---------------------------
(***************************************************************************)
(* HugeAddressMap (huge_address_map.cc): the free hugepages as disjoint    *)
(* ranges that do not touch, in a treap: a search tree by address, a heap  *)
(* by a random priority, every node with the length of the longest range   *)
(* below it.  HugeAllocator (huge_allocator.cc) is its user.  HugeCache    *)
(* stands on the abstraction: a set of hugepages and its longest runs.     *)
(*                                                                         *)
(* Loops along the tree are recursive operators, a pointer to a pointer    *)
(* (Node **link) is a pair of a node and the name of a field of it.        *)
(***************************************************************************)
EXTENDS Integers, FiniteSets, FiniteSetsExt

CONSTANTS HugePageSet,  \* the hugepages, an interval
          Prios,        \* the priorities rand_r() may give
          Lengths       \* the lengths asked for and given back

VARIABLES tree,     \* root, nodes, total_size_
          inUse,    \* the hugepages in use
          fromSystem \* the hugepages the allocator has got

treeVars == <<tree, inUse, fromSystem>>

NodeIds == 1 .. ((Cardinality(HugePageSet) + 1) \div 2 + 1)
Nil == 0
NoNode == [start |-> 0, len |-> 0, prio |-> 0, left |-> Nil, right |-> Nil,
           parent |-> Nil, longest |-> 0]
EmptyTree == [root |-> Nil, node |-> [n \in NodeIds |-> NoNode], total |-> 0]

EndOf(m, n) == m.node[n].start + m.node[n].len
LongestOf(m, n) == IF n = Nil THEN 0 ELSE m.node[n].longest
SetLink(m, link, n) ==
    CASE link[1] = Nil -> [m EXCEPT !.root = n]
      [] link[1] # Nil /\ link[2] = "left" -> [m EXCEPT !.node[link[1]].left = n]
      [] link[1] # Nil /\ link[2] = "right" -> [m EXCEPT !.node[link[1]].right = n]

\* Get(r) and Put(n).  Which unused node is taken is not told apart: the lowest.
Get(m, r, prio) ==
    LET n == Min({i \in NodeIds : m.node[i] = NoNode})
    IN [m EXCEPT !.node[n] = [NoNode EXCEPT !.start = r[1], !.len = r[2], !.prio = prio]]
NodeOf(m, r) == Min({i \in NodeIds : m.node[i].start = r[1]})
Put(m, n) == [m EXCEPT !.node[n] = NoNode]

\* FixLongest(), from n up to the root.  Mutant: of n only.
FixOne(m, n) ==
    [m EXCEPT !.node[n].longest =
        Max({m.node[n].len, LongestOf(m, m.node[n].left), LongestOf(m, m.node[n].right)})]
FixLongestHere(m, n) == IF n = Nil THEN m ELSE FixOne(m, n)
RECURSIVE FixLongest(_, _)
FixLongest(m, n) == IF n = Nil THEN m ELSE FixLongest(FixOne(m, n), m.node[n].parent)

\* Predecessor(p), first() and next().
RECURSIVE Before(_, _, _, _)
Before(m, n, best, p) ==
    IF n = Nil THEN best
    ELSE IF m.node[n].start <= p /\ p < EndOf(m, n) THEN n
    ELSE IF p < m.node[n].start THEN Before(m, m.node[n].left, best, p)
    ELSE Before(m, m.node[n].right, n, p)
Predecessor(m, p) == Before(m, m.root, Nil, p)

RECURSIVE Leftmost(_, _)
Leftmost(m, n) ==
    IF n = Nil \/ m.node[n].left = Nil THEN n ELSE Leftmost(m, m.node[n].left)
RECURSIVE Climb(_, _, _)
Climb(m, n, last) ==
    IF n = Nil \/ m.node[n].left = last THEN n ELSE Climb(m, m.node[n].parent, n)
NextNode(m, n) ==
    IF m.node[n].right # Nil THEN Leftmost(m, m.node[n].right)
    ELSE Climb(m, m.node[n].parent, n)

\* Remove(n): the treaps left and right of n are merged into its place.  Of the
\* two, top is the one with the higher priority.
Reorder(m, t, b) ==
    IF b # Nil /\ (t = Nil \/ m.node[t].prio < m.node[b].prio) THEN <<b, t>> ELSE <<t, b>>
RECURSIVE Glue(_, _, _, _)
Glue(m, link, parent, tb) ==
    LET top == tb[1]
        bottom == tb[2]
        side == IF m.node[bottom].start < m.node[top].start THEN "left" ELSE "right"
        g == [SetLink(m, link, top) EXCEPT
                 !.node[top].parent = parent,
                 !.node[top].longest = Max({@, m.node[bottom].longest})]
    IN IF bottom # Nil
       THEN Glue(g, <<top, side>>, top, Reorder(g, m.node[top][side], bottom))
       ELSE IF top = Nil THEN SetLink(m, link, Nil)
       ELSE [SetLink(m, link, top) EXCEPT !.node[top].parent = parent]
RemoveNode(m0, n) ==
    LET d == m0.node[n]
        below == Max({LongestOf(m0, d.left), LongestOf(m0, d.right)})
        fixed == IF d.parent = Nil THEN m0
                 ELSE FixLongest([m0 EXCEPT !.node[n].longest = below], d.parent)
        link == IF d.parent = Nil THEN <<Nil, "root">>
                ELSE <<d.parent, IF m0.node[d.parent].start > d.start THEN "left" ELSE "right">>
        g == Glue(fixed, link, d.parent, Reorder(fixed, d.left, d.right))
    IN [Put(g, n) EXCEPT !.total = @ - d.len]

\* Merge(b, r, a): r joins the range before it, the one after it, or both.
Merge(m, b, r, a) ==
    IF a = Nil THEN FixLongest([m EXCEPT !.node[b].len = @ + r[2]], b)
    ELSE IF b = Nil
    THEN FixLongest([m EXCEPT !.node[a].start = r[1], !.node[a].len = @ + r[2]], a)
    ELSE FixLongest([RemoveNode([m EXCEPT !.total = @ + m.node[a].len], a) EXCEPT
                        !.node[b].len = @ + r[2] + m.node[a].len], b)

\* The walk of Insert() to the place of the new node n, ...
RECURSIVE Walk(_, _, _, _, _)
Walk(m, curr, parent, link, n) ==
    IF curr = Nil \/ m.node[curr].prio < m.node[n].prio
    THEN [m |-> m, curr |-> curr, parent |-> parent, link |-> link]
    ELSE LET side == IF m.node[curr].start < m.node[n].start THEN "right" ELSE "left"
             g == [m EXCEPT !.node[curr].longest = Max({@, m.node[n].len})]
         IN Walk(g, m.node[curr][side], curr, <<curr, side>>, n)
\* ... and the split of the treap below into the children of n.
RECURSIVE Split(_, _, _, _, _)
Split(m, curr, less, more, p) ==
    IF curr = Nil
    THEN FixLongest(FixLongest(SetLink(SetLink(m, more, Nil), less, Nil), less[1]), more[1])
    ELSE IF m.node[curr].start < p
    THEN Split([SetLink(m, less, curr) EXCEPT !.node[curr].parent = less[1]],
               m.node[curr].right, <<curr, "right">>, more, p)
    ELSE Split([SetLink(m, more, curr) EXCEPT !.node[curr].parent = more[1]],
               m.node[curr].left, less, <<curr, "left">>, p)
AddNode(m0, r, prio) ==
    LET m == Get(m0, r, prio)
        n == NodeOf(m, r)
        w == Walk(m, m.root, Nil, <<Nil, "root">>, n)
        g == [SetLink(w.m, w.link, n) EXCEPT !.node[n].parent = w.parent,
                                             !.node[n].longest = r[2]]
    IN IF w.curr = Nil THEN g ELSE Split(g, w.curr, <<n, "left">>, <<n, "right">>, r[1])

\* Insert(r), with the priority a new node gets.
Insert(m0, r, prio) ==
    LET m == [m0 EXCEPT !.total = @ + r[2]]
        b == Predecessor(m, r[1])
        a == IF b # Nil THEN NextNode(m, b) ELSE Leftmost(m, m.root)
        joinsB == b # Nil /\ EndOf(m, b) = r[1]
        joinsA == a # Nil /\ r[1] + r[2] = m.node[a].start
    IN IF joinsB \/ joinsA
       THEN Merge(m, IF joinsB THEN b ELSE Nil, r, IF joinsA THEN a ELSE Nil)
       ELSE AddNode(m, r, prio)

----------------------------------------------------------------------------
\* HugeAllocator::Find(n): one path down the tree, guided by longest.
SmallerChild(m, l, r) ==
    IF m.node[l].len = m.node[r].len
    THEN IF LongestOf(m, l) <= LongestOf(m, r) THEN l ELSE r
    ELSE IF m.node[l].len < m.node[r].len THEN l ELSE r
Child(m, curr, n) ==
    LET l == m.node[curr].left
        r == m.node[curr].right
    IN IF LongestOf(m, l) < n THEN r
       ELSE IF LongestOf(m, r) < n THEN l
       ELSE SmallerChild(m, l, r)
RECURSIVE SearchDown(_, _, _, _)
SearchDown(m, curr, best, n) ==
    IF curr = Nil \/ LongestOf(m, curr) < n THEN best
    ELSE LET len == m.node[curr].len
             found == IF len >= n /\ (best = Nil \/ m.node[best].len > len) THEN curr ELSE best
         IN SearchDown(m, Child(m, curr, n), found, n)
Find(m, n) == SearchDown(m, m.root, Nil, n)

Run(r) == r[1] .. (r[1] + r[2] - 1)

\* HugeAllocator::Get(n): a free range, after AllocateRange() if there is none, and
\* Release() of what is left of it.
TreeGet(n) ==
    \E grown \in IF Find(tree, n) # Nil THEN {<<0, 0>>}
                 ELSE {r \in HugePageSet \X {n} : Run(r) \subseteq HugePageSet \ fromSystem} :
    \E p1, p2 \in Prios :
        LET m == IF grown = <<0, 0>> THEN tree ELSE Insert(tree, grown, p1)
            d == m.node[Find(m, n)]
            g == RemoveNode(m, Find(m, n))
        IN /\ Find(m, n) # Nil
           /\ tree' = IF d.len > n THEN Insert(g, <<d.start + n, d.len - n>>, p2) ELSE g
           /\ inUse' = inUse \cup Run(<<d.start, n>>)
           /\ fromSystem' = fromSystem \cup Run(grown)

\* HugeAllocator::Release(r).
TreeRelease(r, prio) ==
    /\ Run(r) \subseteq inUse
    /\ tree' = Insert(tree, r, prio)
    /\ inUse' = inUse \ Run(r)
    /\ UNCHANGED fromSystem

TreeInit == tree = EmptyTree /\ inUse = {} /\ fromSystem = {}
TreeNext ==
    \/ \E n \in Lengths : TreeGet(n)
    \/ \E r \in HugePageSet \X Lengths, prio \in Prios : TreeRelease(r, prio)

----------------------------------------------------------------------------
UsedNodes == {n \in NodeIds : tree.node[n] # NoNode}
RECURSIVE Below(_)
Below(n) == IF n = Nil THEN {} ELSE {n} \cup Below(tree.node[n].left) \cup Below(tree.node[n].right)
LongestRuns(S) ==
    {r \in S \X (1 .. Cardinality(S)) :
        Run(r) \subseteq S /\ (r[1] - 1) \notin S /\ (r[1] + r[2]) \notin S}

\* The nodes are the longest runs of the free hugepages and their lengths add up,
\* whatever was merged (Check(): "size == total_mapped()"; huge_allocator.cc:91).
RunsExact ==
    LET free == fromSystem \ inUse
    IN /\ {<<tree.node[n].start, tree.node[n].len>> : n \in UsedNodes} = LongestRuns(free)
       /\ Cardinality(UsedNodes) = Cardinality(LongestRuns(free))
       /\ tree.total = Cardinality(free)

\* What HugeAddressMap::Check() checks: search tree, heap, parents, longest; and all
\* nodes are reached from the root.
TreapSound ==
    /\ tree.root # Nil => tree.node[tree.root].parent = Nil
    /\ Below(tree.root) = UsedNodes
    /\ \A n \in UsedNodes :
        LET d == tree.node[n]
            sides == Below(d.left) \cup Below(d.right)
        IN /\ \A k \in Below(d.left) : EndOf(tree, k) < d.start
           /\ \A k \in Below(d.right) : EndOf(tree, n) < tree.node[k].start
           /\ \A k \in {d.left, d.right} \ {Nil} :
                 tree.node[k].parent = n /\ tree.node[k].prio <= d.prio
           /\ d.longest = Max({d.len} \cup {tree.node[k].len : k \in sides})

\* Find(), which looks at one path only, finds a long enough range if there is one.
FindsFit ==
    \A n \in 1 .. Cardinality(HugePageSet) :
        IF \E k \in UsedNodes : tree.node[k].len >= n
        THEN Find(tree, n) # Nil /\ tree.node[Find(tree, n)].len >= n
        ELSE Find(tree, n) = Nil
=============================================================================
