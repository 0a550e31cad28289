------------------------------ MODULE ProcessIdTree ------------------------------
(***************************************************************************)
(* The binary search tree behind the process-id registry (HidHide/src/     *)
(* Config.c): insertion, lookup and deletion as the code performs them on  *)
(* nodes and pointers, without rebalancing, and the registry operations    *)
(* built on them. Each registry operation holds the lock throughout and is *)
(* one action.                                                             *)
(*                                                                         *)
(* The recursive functions of the code differ in where they go on from a   *)
(* node. Visited says which nodes such a recursion passes; what a function *)
(* does at the nodes it passes is written next to it.                      *)
(***************************************************************************)
EXTENDS Integers, FiniteSets, Sequences, SequencesExt

CONSTANTS
    Pids,       \* process ids
    MaxPid,     \* the greatest ULONG
    Images,     \* full image names
    NoImage,    \* no node
    Addresses,  \* where the pool may allocate nodes
    Null        \* NULL

ASSUME PidsAssumption ==
    /\ MaxPid \in Nat /\ Pids \subseteq 0 .. MaxPid
    /\ NoImage \notin Images
    /\ Null \notin Addresses

VARIABLE tree  \* s_ProcessIdToFullLoadImageNameMappingTree, and the nodes allocated

Allocated(t) == DOMAIN t.nodes

BstNewNode(p, name) ==
    [pid |-> p, name |-> name, cache |-> "Empty", left |-> Null, right |-> Null]

Empty == [root |-> Null, nodes |-> [a \in {} |-> BstNewNode(0, NoImage)]]
--------------------------------------------------------------------------------
(* Recursions over the tree *)

\* The nodes that a recursion passes that starts with the pointers from, and goes on
\* from node b with the pointers next[b]: the least set with the former that has, with
\* a node, the nodes it leads to.
Visited(t, from, next) ==
    {a \in Allocated(t) : \A S \in SUBSET Allocated(t) :
        from \subseteq S \union {Null} /\ (\A b \in S : next[b] \subseteq S \union {Null})
            => a \in S}

\* Lower keys go to the left, higher keys to the right; not left nor right is a match.
Toward(t, p) ==
    [a \in Allocated(t) |->
        CASE p < t.nodes[a].pid -> {t.nodes[a].left}
          [] p > t.nodes[a].pid -> {t.nodes[a].right}
          [] OTHER              -> {}]

Path(t, p) == Visited(t, {t.root}, Toward(t, p))

\* A node and everything below it
Below(t, a) ==
    Visited(t, {a}, [b \in Allocated(t) |-> {t.nodes[b].left, t.nodes[b].right}])

\* for (node = a; (NULL != node->left); node = node->left)
LeftSpine(t, a) == Visited(t, {a}, [b \in Allocated(t) |-> {t.nodes[b].left}])
--------------------------------------------------------------------------------
(* The Bst functions *)

BstLookup(t, p) ==
    LET found == {a \in Path(t, p) : t.nodes[a].pid = p}
    IN IF found = {} THEN Null ELSE CHOOSE a \in found : TRUE

\* The pointer *tree that the recursion for pid p has come to, with the value old,
\* becomes new.
Redirect(t, p, old, new) ==
    [root  |-> IF t.root = old THEN new ELSE t.root,
     nodes |-> [a \in Allocated(t) |->
        IF a \notin Path(t, p) \/ Toward(t, p)[a] # {old} THEN t.nodes[a]
        ELSE IF p < t.nodes[a].pid THEN [t.nodes[a] EXCEPT !.left = new]
                                   ELSE [t.nodes[a] EXCEPT !.right = new]]]

\* Inserting a pid that is present leaves the tree as it is.
BstInsert(t, a, node) ==
    LET r == Redirect(t, node.pid, Null, a) IN
    IF BstLookup(t, node.pid) # Null THEN t
    ELSE [r EXCEPT !.nodes = [b \in Allocated(t) \union {a} |-> IF b = a THEN node ELSE @[b]]]

\* Mutant: the first node on the right takes the left subtree.
LowestAtOnce(t, a) == a

\* Mutant: the highest node on the right is looked for.
LowestHighest(t, a) ==
    CHOOSE b \in Visited(t, {a}, [c \in Allocated(t) |-> {t.nodes[c].right}]) :
        t.nodes[b].right = Null

Lowest(t, a) == CHOOSE b \in LeftSpine(t, a) : t.nodes[b].left = Null

\* Mutant: a node with one child is taken for a leaf.
SuccessorLeaf(t, n) == IF t.nodes[n].left = Null THEN Null ELSE t.nodes[n].right

\* What the reference to the node being deleted is replaced by
Successor(t, n) ==
    IF t.nodes[n].left # Null /\ t.nodes[n].right = Null THEN t.nodes[n].left
                                                         ELSE t.nodes[n].right

\* A node with two subtrees has the left one attached to the lowest node of the right.
BstDelete(t, p) ==
    LET n        == BstLookup(t, p)
        r        == Redirect(t, p, n, Successor(t, n))
        attached == [a \in Allocated(t) \ {n} |->
                        IF /\ t.nodes[n].left # Null /\ t.nodes[n].right # Null
                           /\ a = Lowest(t, t.nodes[n].right)
                        THEN [r.nodes[a] EXCEPT !.left = t.nodes[n].left]
                        ELSE r.nodes[a]]
    IN IF n = Null THEN t ELSE [r EXCEPT !.nodes = attached]

BstAddCount(t, a) == Cardinality(Below(t, a))

BstFlushEvaluationCache(t) ==
    [t EXCEPT !.nodes = [a \in Allocated(t) |->
        IF a \in Below(t, t.root) THEN [@[a] EXCEPT !.cache = "Empty"] ELSE @[a]]]
--------------------------------------------------------------------------------
(* The registry operations *)

Init == tree = Empty

\* HidHideProcessIdRegister; without memory for the node nothing happens.
Register(p, name) ==
    /\ BstLookup(tree, p) = Null
    /\ \E a \in Addresses \ Allocated(tree) : tree' = BstInsert(tree, a, BstNewNode(p, name))

\* HidHideProcessIdUnregister, for any process that stops, registered or not.
Unregister(p) == tree' = BstDelete(tree, p)

\* HidHideProcessIdCheckFullImageNameAgainstWhitelist, for a process that is
\* registered and has no verdict: the whitelist is scanned.
Check(p, verdict) ==
    LET node == BstLookup(tree, p)
    IN /\ node # Null
       /\ tree.nodes[node].cache = "Empty"
       /\ tree' = [tree EXCEPT !.nodes[node].cache = verdict]

\* HidHideProcessIdsFlushWhitelistEvaluationCache
Flush == tree' = BstFlushEvaluationCache(tree)

Verdicts == {"Found", "NotFound"}

Next ==
    \/ \E p \in Pids :
          \/ \E name \in Images : Register(p, name)
          \/ Unregister(p)
          \/ \E verdict \in Verdicts : Check(p, verdict)
    \/ Flush

Spec == Init /\ [][Next]_tree
--------------------------------------------------------------------------------
(* HidHideVerifyInternalConsistency, the self-test without which the driver    *)
(* does not load. Its nodes are called by their pids.                          *)

s_testPattern == <<5, 11, 15, 10, 8, 9, 3, 4, 1, 2>>

Insert(t, p) == BstInsert(t, p, BstNewNode(p, NoImage))

\* The tree after the first n insertions of the pattern.
Pattern(n) == FoldLeft(Insert, Empty, SubSeq(s_testPattern, 1, n))

HidHideVerifyInternalConsistency ==
    LET full     == Pattern(Len(s_testPattern))
        after    == BstDelete(full, 5)
        Left(t)  == BstAddCount(t, t.nodes[t.root].left)
        Right(t) == BstAddCount(t, t.nodes[t.root].right)
    IN /\ \A i \in DOMAIN s_testPattern :
             LET p == s_testPattern[i]
             IN /\ BstLookup(Pattern(i - 1), p) = Null
                /\ BstLookup(Pattern(i), p) # Null
                /\ Insert(Pattern(i), p) = Pattern(i)
       /\ Left(full) = 4 /\ Right(full) = 5
       /\ BstLookup(full, 5) # Null  /\ BstLookup(after, 5) = Null
       /\ Left(after) = 7 /\ Right(after) = 1
--------------------------------------------------------------------------------
(* Properties *)

\* The tree stays a search tree over distinct pids, whatever the order in which
\* processes come and go.
SearchTree ==
    \A a \in Allocated(tree) :
       /\ \A b \in Below(tree, tree.nodes[a].left)  : tree.nodes[b].pid < tree.nodes[a].pid
       /\ \A b \in Below(tree, tree.nodes[a].right) : tree.nodes[b].pid > tree.nodes[a].pid

\* Every node that has been allocated is found under its pid: none is a process whose
\* name and verdict are out of reach and whose memory is never released.
NothingLost == \A a \in Allocated(tree) : BstLookup(tree, tree.nodes[a].pid) = a

\* The self-test, run before the first process is registered, passes: the driver
\* loads (Logic.c:30-32).
SelfTestPasses == tree = Empty => HidHideVerifyInternalConsistency

NodeOf(p) == BstLookup(tree, p)

\* Seen through BstLookup, the tree is the map that Logic.c relies on: deleting,
\* flushing or inserting one node never loses, renames or re-judges another.
Registry == INSTANCE ProcessRegistry WITH
    image <- [p \in Pids |-> IF NodeOf(p) = Null THEN NoImage ELSE tree.nodes[NodeOf(p)].name],
    cache <- [p \in Pids |-> IF NodeOf(p) = Null THEN "Empty" ELSE tree.nodes[NodeOf(p)].cache]
ImplementsRegistry == Registry!Spec
================================================================================
