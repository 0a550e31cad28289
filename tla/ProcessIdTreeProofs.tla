--------------------------- MODULE ProcessIdTreeProofs ---------------------------
(***************************************************************************)
(* What ProcessIdTree promises for any pids, names and addresses, and any  *)
(* order in which processes come and go: a search tree that loses nothing  *)
(* and is, looked up, the registry that Logic.c relies on.                 *)
(*                                                                         *)
(* The argument gives each node the open interval of the pids whose        *)
(* recursion passes it.  How the intervals of a node, its children and its *)
(* pid fit together is a matter of single nodes, and a deletion changes    *)
(* only their ends.  That a recursion does pass the nodes whose intervals  *)
(* have its pid is shown once, from a shortest interval that it has        *)
(* reached.                                                                *)
(***************************************************************************)
EXTENDS ProcessIdTree, WellFoundedInduction, TLAPS

Pid(t, a)   == t.nodes[a].pid
Left(t, a)  == t.nodes[a].left
Right(t, a) == t.nodes[a].right

Pointers  == Addresses \union {Null}
NodeTypes == [pid: Pids, name: Images, cache: {"Empty"} \union Verdicts,
              left: Pointers, right: Pointers]

TreeTypes(t) ==
    /\ Allocated(t) \subseteq Addresses
    /\ t \in [root: Pointers, nodes: [Allocated(t) -> NodeTypes]]

\* The ends of the intervals
Ends == [Addresses -> -1 .. MaxPid + 1]
Has(lo, hi, a, k) == lo[a] < k /\ k < hi[a]

\* The root has the interval of all pids.
RootRange(t, lo, hi) ==
    IF t.root = Null THEN Allocated(t) = {}
    ELSE t.root \in Allocated(t) /\ lo[t.root] = -1 /\ hi[t.root] = MaxPid + 1

OwnRange(t, lo, hi) == \A a \in Allocated(t) : Has(lo, hi, a, Pid(t, a))

\* A node's pid cuts its interval into those of its children.
LeftRange(t, lo, hi) ==
    \A a \in Allocated(t) : Left(t, a) # Null =>
        Left(t, a) \in Allocated(t) /\ lo[Left(t, a)] = lo[a] /\ hi[Left(t, a)] = Pid(t, a)

RightRange(t, lo, hi) ==
    \A a \in Allocated(t) : Right(t, a) # Null =>
        Right(t, a) \in Allocated(t) /\ lo[Right(t, a)] = Pid(t, a) /\ hi[Right(t, a)] = hi[a]

\* Of two nodes, one is in the interval of one side of the other, or they are apart.
Under(t, lo, hi, a, b) ==
    \/ lo[b] <= lo[a] /\ hi[a] <= Pid(t, b)
    \/ Pid(t, b) <= lo[a] /\ hi[a] <= hi[b]

Nested(t, lo, hi) ==
    \A a, b \in Allocated(t) : a # b =>
        \/ hi[a] <= lo[b] \/ hi[b] <= lo[a]
        \/ Under(t, lo, hi, a, b) \/ Under(t, lo, hi, b, a)

\* There is a child where there are pids.
Filled(t, lo, hi) ==
    \A a, b \in Allocated(t) :
        /\ lo[a] < Pid(t, b) /\ Pid(t, b) < Pid(t, a) => Left(t, a) # Null
        /\ Pid(t, a) < Pid(t, b) /\ Pid(t, b) < hi[a] => Right(t, a) # Null

Ranges(t, lo, hi) ==
    /\ TreeTypes(t) /\ lo \in Ends /\ hi \in Ends
    /\ RootRange(t, lo, hi) /\ OwnRange(t, lo, hi)
    /\ LeftRange(t, lo, hi) /\ RightRange(t, lo, hi)
    /\ Nested(t, lo, hi) /\ Filled(t, lo, hi)

RangesInv == \E lo, hi : Ranges(tree, lo, hi)
--------------------------------------------------------------------------------
(* Shortest intervals *)

LEMMA NodeFacts ==
    ASSUME NEW t, TreeTypes(t), NEW a \in Allocated(t)
    PROVE  /\ a \in Addresses /\ a # Null
           /\ t.nodes[a] \in NodeTypes
           /\ Pid(t, a) \in Pids /\ Pid(t, a) \in Int /\ 0 <= Pid(t, a) /\ Pid(t, a) <= MaxPid
           /\ Left(t, a) \in Pointers /\ Right(t, a) \in Pointers
  BY PidsAssumption DEF TreeTypes, NodeTypes, Pid, Left, Right

LEMMA EndFacts ==
    ASSUME NEW lo \in Ends, NEW a \in Addresses
    PROVE  lo[a] \in Int /\ -1 <= lo[a] /\ lo[a] <= MaxPid + 1
  BY PidsAssumption DEF Ends

LEMMA LeastNumber ==
    ASSUME NEW T \in SUBSET Nat, T # {}
    PROVE  \E x \in T : \A y \in T : x <= y
  <1> DEFINE R == OpToRel(<, Nat)
  <1>1. IsWellFoundedOn(R, Nat)
    BY NatLessThanWellFounded
  <1>2. \A x, y \in Nat : y < x => <<y, x>> \in R
    BY DEF OpToRel
  <1> HIDE DEF R
  <1>3. PICK x \in T : \A y \in T : <<y, x>> \notin R
    <2>1. T \subseteq Nat /\ T # {}
      OBVIOUS
    <2> QED BY <1>1, <2>1, WFMin, Zenon
  <1>4. \A y \in T : x \in Nat /\ y \in Nat /\ ~(y < x)
    BY <1>2, <1>3, Zenon
  <1> QED BY <1>4

\* Of some nodes, one has the shortest interval.
LEMMA ShortestRange ==
    ASSUME NEW t, NEW lo, NEW hi, Ranges(t, lo, hi),
           NEW T \in SUBSET Allocated(t), T # {}
    PROVE  \E a \in T : \A b \in T : hi[a] - lo[a] <= hi[b] - lo[b]
  <1> DEFINE Lengths == {hi[a] - lo[a] : a \in T}
  <1>1. \A a \in Allocated(t) : hi[a] - lo[a] \in Nat
    <2> TAKE a \in Allocated(t)
    <2>1. /\ Pid(t, a) \in Int /\ lo[a] \in Int /\ hi[a] \in Int
          /\ lo[a] < Pid(t, a) /\ Pid(t, a) < hi[a]
      BY NodeFacts, EndFacts DEF Ranges, OwnRange, Has
    <2> QED BY <2>1
  <1>2. Lengths \in SUBSET Nat /\ Lengths # {}
    BY <1>1
  <1>3. \E x \in Lengths : \A y \in Lengths : x <= y
    <2> HIDE DEF Lengths
    <2> QED BY <1>2, LeastNumber
  <1> QED BY <1>3
--------------------------------------------------------------------------------
(* The nodes that a recursion passes *)

LEMMA TowardNode ==
    ASSUME NEW t, NEW k \in Int, NEW b \in Allocated(t), Pid(t, b) \in Int
    PROVE  /\ k < Pid(t, b) => Toward(t, k)[b] = {Left(t, b)}
           /\ Pid(t, b) < k => Toward(t, k)[b] = {Right(t, b)}
           /\ Pid(t, b) = k => Toward(t, k)[b] = {}
  <1> DEFINE d == Pid(t, b)
             to == CASE k < d -> {Left(t, b)} [] k > d -> {Right(t, b)} [] OTHER -> {}
  <1>1. Toward(t, k)[b] = to
    BY DEF Toward, Pid, Left, Right
  <1>2. d \in Int
    OBVIOUS
  <1>3. k < d => to = {Left(t, b)}
    <2> HIDE DEF d
    <2> QED BY <1>2
  <1>4. d < k => to = {Right(t, b)}
    <2> HIDE DEF d
    <2> QED BY <1>2
  <1>5. d = k => to = {}
    <2> HIDE DEF d
    <2> QED BY <1>2
  <1> HIDE DEF to
  <1> QED BY <1>1, <1>3, <1>4, <1>5

LEMMA VisitedFrom ==
    ASSUME NEW t, NEW from, NEW next, NEW a \in from, a \in Allocated(t), a # Null
    PROVE  a \in Visited(t, from, next)
  BY DEF Visited

LEMMA VisitedNext ==
    ASSUME NEW t, NEW from, NEW next, NEW a \in Visited(t, from, next),
           NEW b \in next[a], b \in Allocated(t), b # Null
    PROVE  b \in Visited(t, from, next)
  BY DEF Visited

LEMMA VisitedWithin ==
    ASSUME NEW t, NEW from, NEW next, NEW S \in SUBSET Allocated(t),
           from \subseteq S \union {Null}, \A b \in S : next[b] \subseteq S \union {Null}
    PROVE  Visited(t, from, next) \subseteq S
  BY DEF Visited

\* Two nodes have two pids.
LEMMA PidsDiffer ==
    ASSUME NEW t, NEW lo, NEW hi, Ranges(t, lo, hi),
           NEW a \in Allocated(t), NEW b \in Allocated(t), Pid(t, a) = Pid(t, b)
    PROVE  a = b
  <1>1. /\ Pid(t, a) \in Int /\ Pid(t, b) \in Int
        /\ a \in Addresses /\ b \in Addresses
    BY NodeFacts DEF Ranges
  <1>2. lo[a] \in Int /\ hi[a] \in Int /\ lo[b] \in Int /\ hi[b] \in Int
    BY <1>1, EndFacts DEF Ranges
  <1> QED BY <1>1, <1>2 DEF Ranges, OwnRange, Has, Nested, Under

\* A recursion for pid k passes the nodes whose intervals have k: of the nodes around a
\* that it reaches, one with the shortest interval can only be a.
LEMMA PathHas ==
    ASSUME NEW t, NEW lo, NEW hi, Ranges(t, lo, hi),
           NEW a \in Allocated(t), NEW k \in Int, Has(lo, hi, a, k)
    PROVE  a \in Path(t, k)
  <1> SUFFICES ASSUME NEW S \in SUBSET Allocated(t), {t.root} \subseteq S \union {Null},
                      \A b \in S : Toward(t, k)[b] \subseteq S \union {Null}
               PROVE  a \in S
    BY DEF Path, Visited
  <1> DEFINE Around == {b \in S : lo[b] <= lo[a] /\ hi[a] <= hi[b]}
  <1>1. \A b \in Allocated(t) : lo[b] \in Int /\ hi[b] \in Int /\ -1 <= lo[b] /\ hi[b] <= MaxPid + 1
    BY NodeFacts, EndFacts DEF Ranges
  <1>2. t.root \in Around
    BY <1>1 DEF Ranges, RootRange
  <1>3. PICK b \in Around : \A c \in Around : hi[b] - lo[b] <= hi[c] - lo[c]
    BY <1>2, ShortestRange
  <1>4. SUFFICES ASSUME b # a PROVE FALSE
    BY <1>3
  <1>5. /\ Pid(t, a) \in Int /\ Pid(t, b) \in Int
        /\ Has(lo, hi, a, Pid(t, a)) /\ Has(lo, hi, b, Pid(t, b))
    BY NodeFacts DEF Ranges, OwnRange
  <1>6. Under(t, lo, hi, a, b)
    BY <1>1, <1>4, <1>5 DEF Ranges, Nested, Under, Has
  <1>7. CASE hi[a] <= Pid(t, b)
    <2>1. Left(t, b) # Null
      BY <1>1, <1>5, <1>7 DEF Ranges, Filled, Has
    <2>2. Left(t, b) \in Allocated(t) /\ lo[Left(t, b)] = lo[b] /\ hi[Left(t, b)] = Pid(t, b)
      BY <2>1 DEF Ranges, LeftRange
    <2>3. k < Pid(t, b)
      BY <1>1, <1>5, <1>7 DEF Has
    <2>4. Toward(t, k)[b] = {Left(t, b)}
      BY <1>5, <2>3, TowardNode
    <2>5. Left(t, b) \in S
      BY <2>1, <2>4
    <2> QED BY <1>1, <1>3, <1>5, <1>7, <2>2, <2>5 DEF Has
  <1>8. CASE Pid(t, b) <= lo[a]
    <2>1. Right(t, b) # Null
      BY <1>1, <1>5, <1>8 DEF Ranges, Filled, Has
    <2>2. Right(t, b) \in Allocated(t) /\ lo[Right(t, b)] = Pid(t, b) /\ hi[Right(t, b)] = hi[b]
      BY <2>1 DEF Ranges, RightRange
    <2>3. Pid(t, b) < k
      BY <1>1, <1>5, <1>8 DEF Has
    <2>4. Toward(t, k)[b] = {Right(t, b)}
      BY <1>5, <2>3, TowardNode
    <2>5. Right(t, b) \in S
      BY <2>1, <2>4
    <2> QED BY <1>1, <1>3, <1>5, <1>8, <2>2, <2>5 DEF Has
  <1> QED BY <1>6, <1>7, <1>8 DEF Under

\* It passes no others.
LEMMA PathOnly ==
    ASSUME NEW t, NEW lo, NEW hi, Ranges(t, lo, hi),
           NEW k \in 0 .. MaxPid, NEW a \in Path(t, k)
    PROVE  Has(lo, hi, a, k)
  <1> DEFINE S == {b \in Allocated(t) : Has(lo, hi, b, k)}
  <1>1. k \in Int /\ -1 < k /\ k < MaxPid + 1
    BY PidsAssumption
  <1>2. {t.root} \subseteq S \union {Null}
    BY <1>1 DEF Ranges, RootRange, Has
  <1>3. ASSUME NEW b \in S PROVE Toward(t, k)[b] \subseteq S \union {Null}
    <2>1. Pid(t, b) \in Int
      BY NodeFacts DEF Ranges
    <2>2. CASE k < Pid(t, b)
      BY <1>1, <2>1, <2>2, TowardNode DEF Ranges, LeftRange, Has
    <2>3. CASE Pid(t, b) < k
      BY <1>1, <2>1, <2>3, TowardNode DEF Ranges, RightRange, Has
    <2>4. CASE Pid(t, b) = k
      BY <1>1, <2>1, <2>4, TowardNode
    <2> QED BY <1>1, <2>1, <2>2, <2>3, <2>4
  <1>4. Path(t, k) \subseteq S
    <2> HIDE DEF S
    <2>1. S \in SUBSET Allocated(t)
      BY DEF S
    <2> QED BY <1>2, <1>3, <2>1, VisitedWithin DEF Path
  <1> QED BY <1>4

\* BstLookup finds the node of a pid, and Null when there is none.
LEMMA LookupFinds ==
    ASSUME NEW t, NEW lo, NEW hi, Ranges(t, lo, hi), NEW p \in 0 .. MaxPid
    PROVE  /\ \A a \in Allocated(t) : Pid(t, a) = p => BstLookup(t, p) = a
           /\ BstLookup(t, p) # Null => /\ BstLookup(t, p) \in Allocated(t)
                                        /\ Pid(t, BstLookup(t, p)) = p
  <1> DEFINE found == {a \in Path(t, p) : t.nodes[a].pid = p}
  <1>1. \A a \in found : a \in Allocated(t) /\ Pid(t, a) = p
    BY DEF Path, Visited, Pid
  <1>2. \A a \in Allocated(t) : Pid(t, a) = p => a \in found
    <2> SUFFICES ASSUME NEW a \in Allocated(t), Pid(t, a) = p PROVE a \in Path(t, p)
      BY DEF Pid
    <2> QED BY PathHas DEF Ranges, OwnRange
  <1>3. BstLookup(t, p) = IF found = {} THEN Null ELSE CHOOSE a \in found : TRUE
    BY DEF BstLookup
  <1>4. found # {} => BstLookup(t, p) \in found
    <2> HIDE DEF found
    <2> QED BY <1>3
  <1>5. ASSUME NEW a \in Allocated(t), Pid(t, a) = p PROVE BstLookup(t, p) = a
    <2>1. BstLookup(t, p) \in Allocated(t) /\ Pid(t, BstLookup(t, p)) = p
      BY <1>1, <1>2, <1>4, <1>5
    <2> QED BY <1>5, <2>1, PidsDiffer
  <1> HIDE DEF found
  <1> QED BY <1>1, <1>3, <1>4, <1>5
--------------------------------------------------------------------------------
(* What the intervals say of one node, and of two *)

LEMMA Numbers ==
    ASSUME NEW t, NEW lo, NEW hi, Ranges(t, lo, hi), NEW a \in Allocated(t)
    PROVE  /\ Pid(t, a) \in Int /\ lo[a] \in Int /\ hi[a] \in Int
           /\ -1 <= lo[a] /\ lo[a] < Pid(t, a) /\ Pid(t, a) < hi[a] /\ hi[a] <= MaxPid + 1
  BY NodeFacts, EndFacts DEF Ranges, OwnRange, Has

LEMMA Apart ==
    ASSUME NEW t, NEW lo, NEW hi, Ranges(t, lo, hi),
           NEW a \in Allocated(t), NEW b \in Allocated(t), a # b
    PROVE  \/ hi[a] <= lo[b]
           \/ hi[b] <= lo[a]
           \/ lo[b] <= lo[a] /\ hi[a] <= Pid(t, b)
           \/ Pid(t, b) <= lo[a] /\ hi[a] <= hi[b]
           \/ lo[a] <= lo[b] /\ hi[b] <= Pid(t, a)
           \/ Pid(t, a) <= lo[b] /\ hi[b] <= hi[a]
  BY DEF Ranges, Nested, Under

LEMMA Children ==
    ASSUME NEW t, NEW lo, NEW hi, Ranges(t, lo, hi), NEW a \in Allocated(t)
    PROVE  /\ Left(t, a) # Null => /\ Left(t, a) \in Allocated(t)
                                   /\ lo[Left(t, a)] = lo[a] /\ hi[Left(t, a)] = Pid(t, a)
           /\ Right(t, a) # Null => /\ Right(t, a) \in Allocated(t)
                                    /\ lo[Right(t, a)] = Pid(t, a) /\ hi[Right(t, a)] = hi[a]
           /\ \A b \in Allocated(t) :
                 /\ lo[a] < Pid(t, b) /\ Pid(t, b) < Pid(t, a) => Left(t, a) # Null
                 /\ Pid(t, a) < Pid(t, b) /\ Pid(t, b) < hi[a] => Right(t, a) # Null
  BY DEF Ranges, LeftRange, RightRange, Filled
--------------------------------------------------------------------------------
(* Insertion *)

\* The recursion for pid p ends at a pointer of node x.
EndsAt(t, lo, hi, p, x) ==
    /\ Has(lo, hi, x, p)
    /\ \/ p < Pid(t, x) /\ Left(t, x) = Null
       \/ Pid(t, x) < p /\ Right(t, x) = Null

\* It ends at one node: a shortest interval around p, for two would be nested and the outer
\* would have a child towards the inner.
LEMMA OneEnd ==
    ASSUME NEW t, NEW lo, NEW hi, Ranges(t, lo, hi), t.root # Null,
           NEW p \in 0 .. MaxPid, \A x \in Allocated(t) : Pid(t, x) # p
    PROVE  \E q \in Allocated(t) : \A x \in Allocated(t) : EndsAt(t, lo, hi, p, x) <=> x = q
  <1> DEFINE Around == {x \in Allocated(t) : Has(lo, hi, x, p)}
  <1>1. p \in Int /\ -1 < p /\ p < MaxPid + 1
    BY PidsAssumption
  <1>2. t.root \in Around
    BY <1>1 DEF Ranges, RootRange, Has
  <1>3. PICK q \in Around : \A x \in Around : hi[q] - lo[q] <= hi[x] - lo[x]
    BY <1>2, ShortestRange
  <1>4. EndsAt(t, lo, hi, p, q)
    <2>1. /\ Pid(t, q) \in Int /\ lo[q] \in Int /\ hi[q] \in Int
          /\ lo[q] < Pid(t, q) /\ Pid(t, q) < hi[q]
      BY Numbers
    <2>2. p < Pid(t, q) => Left(t, q) = Null
      <3> SUFFICES ASSUME p < Pid(t, q), Left(t, q) # Null PROVE FALSE
        OBVIOUS
      <3>1. /\ Left(t, q) \in Allocated(t)
            /\ lo[Left(t, q)] = lo[q] /\ hi[Left(t, q)] = Pid(t, q)
        BY Children
      <3>2. Left(t, q) \in Around
        BY <3>1 DEF Has
      <3> QED BY <1>3, <2>1, <3>1, <3>2
    <2>3. Pid(t, q) < p => Right(t, q) = Null
      <3> SUFFICES ASSUME Pid(t, q) < p, Right(t, q) # Null PROVE FALSE
        OBVIOUS
      <3>1. /\ Right(t, q) \in Allocated(t)
            /\ lo[Right(t, q)] = Pid(t, q) /\ hi[Right(t, q)] = hi[q]
        BY Children
      <3>2. Right(t, q) \in Around
        BY <3>1 DEF Has
      <3> QED BY <1>3, <2>1, <3>1, <3>2
    <2>4. q \in Allocated(t) /\ Has(lo, hi, q, p)
      OBVIOUS
    <2>5. p < Pid(t, q) \/ Pid(t, q) < p
      BY <1>1, <2>1, <2>4
    <2> QED BY <2>2, <2>3, <2>4, <2>5 DEF EndsAt
  <1>5. ASSUME NEW x \in Allocated(t), EndsAt(t, lo, hi, p, x), x # q PROVE FALSE
    <2>1. /\ Pid(t, q) \in Int /\ lo[q] \in Int /\ hi[q] \in Int
          /\ lo[q] < Pid(t, q) /\ Pid(t, q) < hi[q]
          /\ Pid(t, x) \in Int /\ lo[x] \in Int /\ hi[x] \in Int
          /\ lo[x] < Pid(t, x) /\ Pid(t, x) < hi[x]
      BY Numbers
    <2>2. \/ lo[q] <= lo[x] /\ hi[x] <= Pid(t, q)
          \/ Pid(t, q) <= lo[x] /\ hi[x] <= hi[q]
          \/ lo[x] <= lo[q] /\ hi[q] <= Pid(t, x)
          \/ Pid(t, x) <= lo[q] /\ hi[q] <= hi[x]
      BY <1>1, <1>4, <1>5, <2>1, Apart DEF EndsAt, Has
    <2>3. /\ lo[q] < Pid(t, x) /\ Pid(t, x) < Pid(t, q) => Left(t, q) # Null
          /\ Pid(t, q) < Pid(t, x) /\ Pid(t, x) < hi[q] => Right(t, q) # Null
          /\ lo[x] < Pid(t, q) /\ Pid(t, q) < Pid(t, x) => Left(t, x) # Null
          /\ Pid(t, x) < Pid(t, q) /\ Pid(t, q) < hi[x] => Right(t, x) # Null
      BY Children
    <2> QED BY <1>1, <1>4, <1>5, <2>1, <2>2, <2>3 DEF EndsAt, Has
  <1> QED BY <1>4, <1>5

\* The new node has the part of the interval of the node above it that lies on its side.
LEMMA InsertedRanges ==
    ASSUME NEW t, NEW lo, NEW hi, Ranges(t, lo, hi),
           NEW p \in 0 .. MaxPid, \A x \in Allocated(t) : Pid(t, x) # p,
           NEW q \in Allocated(t),
           \A x \in Allocated(t) : EndsAt(t, lo, hi, p, x) <=> x = q,
           NEW a \in Addresses \ Allocated(t),
           NEW u, TreeTypes(u), Allocated(u) = Allocated(t) \union {a}, u.root = t.root,
           Pid(u, a) = p, Left(u, a) = Null, Right(u, a) = Null,
           \A x \in Allocated(t) :
              /\ Pid(u, x) = Pid(t, x)
              /\ Left(u, x) = IF x = q /\ p < Pid(t, q) THEN a ELSE Left(t, x)
              /\ Right(u, x) = IF x = q /\ Pid(t, q) < p THEN a ELSE Right(t, x)
    PROVE  \E lo2, hi2 : Ranges(u, lo2, hi2)
  <1> DEFINE l == IF p < Pid(t, q) THEN lo[q] ELSE Pid(t, q)
             h == IF p < Pid(t, q) THEN Pid(t, q) ELSE hi[q]
             lo2 == [lo EXCEPT ![a] = l]
             hi2 == [hi EXCEPT ![a] = h]
  <1>1. p \in Int /\ p # Pid(t, q) /\ a \in Addresses /\ a # q /\ a # Null
    BY PidsAssumption
  <1>2. /\ Pid(t, q) \in Int /\ lo[q] \in Int /\ hi[q] \in Int
        /\ -1 <= lo[q] /\ lo[q] < Pid(t, q) /\ Pid(t, q) < hi[q] /\ hi[q] <= MaxPid + 1
    BY Numbers
  <1>3. /\ Has(lo, hi, q, p)
        /\ \/ p < Pid(t, q) /\ Left(t, q) = Null
           \/ Pid(t, q) < p /\ Right(t, q) = Null
    BY DEF EndsAt
  <1>4. /\ l \in Int /\ h \in Int /\ l < p /\ p < h /\ lo[q] <= l /\ h <= hi[q]
        /\ \/ p < Pid(t, q) /\ l = lo[q] /\ h = Pid(t, q)
           \/ Pid(t, q) < p /\ l = Pid(t, q) /\ h = hi[q]
    <2>1. CASE p < Pid(t, q)
      <3>1. l = lo[q] /\ h = Pid(t, q)
        BY <2>1
      <3> HIDE DEF l, h
      <3> QED BY <1>1, <1>2, <1>3, <2>1, <3>1 DEF Has
    <2>2. CASE Pid(t, q) < p
      <3>1. l = Pid(t, q) /\ h = hi[q]
        BY <1>1, <1>2, <2>2
      <3> HIDE DEF l, h
      <3> QED BY <1>1, <1>2, <1>3, <2>2, <3>1 DEF Has
    <2> QED BY <1>1, <1>2, <2>1, <2>2
  <1>5. lo2 \in Ends /\ hi2 \in Ends
    BY <1>2, <1>4, PidsAssumption DEF Ranges, Ends
  <1>6. /\ lo2[a] = l /\ hi2[a] = h
        /\ \A x \in Allocated(t) : lo2[x] = lo[x] /\ hi2[x] = hi[x]
    BY <1>1, NodeFacts DEF Ranges, Ends
  <1> HIDE DEF l, h, lo2, hi2
  <1>7. RootRange(u, lo2, hi2)
    BY <1>6, NodeFacts DEF Ranges, RootRange
  <1>8. OwnRange(u, lo2, hi2)
    BY <1>4, <1>6 DEF Ranges, OwnRange, Has
  <1>9. LeftRange(u, lo2, hi2)
    BY <1>1, <1>4, <1>6, Children DEF LeftRange
  <1>10. RightRange(u, lo2, hi2)
    BY <1>1, <1>2, <1>4, <1>6, Children DEF RightRange
  <1>11. ASSUME NEW x \in Allocated(t)
         PROVE  \/ h <= lo[x] \/ hi[x] <= l
                \/ lo[x] <= l /\ h <= Pid(t, x)
                \/ Pid(t, x) <= l /\ h <= hi[x]
    <2>1. CASE x = q
      BY <1>2, <1>4, <2>1
    <2>2. CASE x # q
      <3>1. /\ Pid(t, x) \in Int /\ lo[x] \in Int /\ hi[x] \in Int
            /\ lo[x] < Pid(t, x) /\ Pid(t, x) < hi[x]
        BY Numbers
      <3>2. \/ hi[x] <= lo[q]
            \/ hi[q] <= lo[x]
            \/ lo[q] <= lo[x] /\ hi[x] <= Pid(t, q)
            \/ Pid(t, q) <= lo[x] /\ hi[x] <= hi[q]
            \/ lo[x] <= lo[q] /\ hi[q] <= Pid(t, x)
            \/ Pid(t, x) <= lo[q] /\ hi[q] <= hi[x]
        BY <2>2, Apart
      <3>3. /\ lo[q] < Pid(t, x) /\ Pid(t, x) < Pid(t, q) => Left(t, q) # Null
            /\ Pid(t, q) < Pid(t, x) /\ Pid(t, x) < hi[q] => Right(t, q) # Null
        BY Children
      <3> QED BY <1>2, <1>3, <1>4, <3>1, <3>2, <3>3
    <2> QED BY <2>1, <2>2
  <1>12. Nested(u, lo2, hi2)
    <2> SUFFICES ASSUME NEW x \in Allocated(u), NEW y \in Allocated(u), x # y
                 PROVE  \/ hi2[x] <= lo2[y] \/ hi2[y] <= lo2[x]
                        \/ Under(u, lo2, hi2, x, y) \/ Under(u, lo2, hi2, y, x)
      BY DEF Nested
    <2>1. CASE x \in Allocated(t) /\ y \in Allocated(t)
      <3>1. /\ lo2[x] = lo[x] /\ hi2[x] = hi[x] /\ lo2[y] = lo[y] /\ hi2[y] = hi[y]
            /\ Pid(u, x) = Pid(t, x) /\ Pid(u, y) = Pid(t, y)
        BY <1>6, <2>1
      <3>2. \/ hi[x] <= lo[y] \/ hi[y] <= lo[x]
            \/ Under(t, lo, hi, x, y) \/ Under(t, lo, hi, y, x)
        BY <2>1 DEF Ranges, Nested
      <3> QED BY <3>1, <3>2 DEF Under
    <2>2. CASE x = a
      BY <1>6, <1>11, <2>2 DEF Under
    <2>3. CASE y = a
      BY <1>6, <1>11, <2>3 DEF Under
    <2> QED BY <2>1, <2>2, <2>3
  <1>13. Filled(u, lo2, hi2)
    <2> SUFFICES ASSUME NEW x \in Allocated(u), NEW y \in Allocated(u)
                 PROVE  /\ lo2[x] < Pid(u, y) /\ Pid(u, y) < Pid(u, x) => Left(u, x) # Null
                        /\ Pid(u, x) < Pid(u, y) /\ Pid(u, y) < hi2[x] => Right(u, x) # Null
      BY DEF Filled
    <2>1. CASE x \in Allocated(t) /\ y \in Allocated(t)
      BY <1>1, <1>6, <2>1, Children
    <2>2. CASE x \in Allocated(t) /\ y = a
      <3>1. /\ Pid(t, x) \in Int /\ lo[x] \in Int /\ hi[x] \in Int
            /\ lo[x] < Pid(t, x) /\ Pid(t, x) < hi[x]
        BY <2>2, Numbers
      <3>2. EndsAt(t, lo, hi, p, x) <=> x = q
        BY <2>2
      <3>3. Pid(u, y) = p /\ Pid(u, x) = Pid(t, x) /\ lo2[x] = lo[x] /\ hi2[x] = hi[x]
        BY <1>6, <2>2
      <3>4. CASE x = q
        BY <1>1, <1>3, <2>2, <3>1, <3>3, <3>4
      <3>5. CASE x # q
        <4>1. Left(u, x) = Left(t, x) /\ Right(u, x) = Right(t, x)
          BY <2>2, <3>5
        <4>2. ~EndsAt(t, lo, hi, p, x)
          BY <3>2, <3>5
        <4> QED BY <1>1, <3>1, <3>3, <4>1, <4>2 DEF EndsAt, Has
      <3> QED BY <3>4, <3>5
    <2>3. CASE x = a /\ y = a
      BY <1>1, <2>3
    <2>4. CASE x = a /\ y \in Allocated(t)
      <3>1. /\ Pid(t, y) \in Int
            /\ lo[q] < Pid(t, y) /\ Pid(t, y) < Pid(t, q) => Left(t, q) # Null
            /\ Pid(t, q) < Pid(t, y) /\ Pid(t, y) < hi[q] => Right(t, q) # Null
        BY <2>4, Numbers, Children
      <3> QED BY <1>1, <1>2, <1>3, <1>4, <1>6, <2>4, <3>1
    <2> QED BY <2>1, <2>2, <2>3, <2>4
  <1> QED BY <1>5, <1>7, <1>8, <1>9, <1>10, <1>12, <1>13 DEF Ranges
--------------------------------------------------------------------------------
(* The pointer at the end of a recursion *)

Name(t, a)  == t.nodes[a].name
Cache(t, a) == t.nodes[a].cache

\* The nodes whose pointers become new are those on the path whose pointer towards k is old.
LEMMA Redirected ==
    ASSUME NEW t, NEW lo, NEW hi, Ranges(t, lo, hi), NEW k \in 0 .. MaxPid,
           NEW old, NEW new \in Pointers, NEW r, r = Redirect(t, k, old, new)
    PROVE  /\ r \in [root: Pointers, nodes: [Allocated(t) -> NodeTypes]]
           /\ r.root = IF t.root = old THEN new ELSE t.root
           /\ \A x \in Allocated(t) :
                 /\ Pid(r, x) = Pid(t, x) /\ Name(r, x) = Name(t, x) /\ Cache(r, x) = Cache(t, x)
                 /\ Left(r, x) = IF Has(lo, hi, x, k) /\ k < Pid(t, x) /\ Left(t, x) = old
                                 THEN new ELSE Left(t, x)
                 /\ Right(r, x) = IF Has(lo, hi, x, k) /\ Pid(t, x) < k /\ Right(t, x) = old
                                  THEN new ELSE Right(t, x)
  <1> DEFINE left(x)  == [t.nodes[x] EXCEPT !.left = new]
             right(x) == [t.nodes[x] EXCEPT !.right = new]
             node(x)  == IF x \notin Path(t, k) \/ Toward(t, k)[x] # {old} THEN t.nodes[x]
                         ELSE IF k < Pid(t, x) THEN left(x) ELSE right(x)
  <1>1. r = [root  |-> IF t.root = old THEN new ELSE t.root,
             nodes |-> [x \in Allocated(t) |-> node(x)]]
    BY DEF Redirect, Pid
  <1>2. ASSUME NEW x \in Allocated(t)
        PROVE  /\ t.nodes[x] \in NodeTypes /\ left(x) \in NodeTypes /\ right(x) \in NodeTypes
               /\ left(x).pid = Pid(t, x) /\ right(x).pid = Pid(t, x)
               /\ left(x).name = Name(t, x) /\ right(x).name = Name(t, x)
               /\ left(x).cache = Cache(t, x) /\ right(x).cache = Cache(t, x)
               /\ left(x).left = new /\ left(x).right = Right(t, x)
               /\ right(x).left = Left(t, x) /\ right(x).right = new
    <2>1. t.nodes[x] \in NodeTypes
      BY NodeFacts DEF Ranges
    <2> QED BY <2>1 DEF NodeTypes, Pid, Name, Cache, Left, Right
  <1>3. ASSUME NEW x \in Allocated(t)
        PROVE  /\ x \in Path(t, k) <=> Has(lo, hi, x, k)
               /\ Pid(t, x) \in Int /\ k \in Int
               /\ k < Pid(t, x) => (Toward(t, k)[x] = {old} <=> Left(t, x) = old)
               /\ Pid(t, x) < k => (Toward(t, k)[x] = {old} <=> Right(t, x) = old)
               /\ Pid(t, x) = k => Toward(t, k)[x] # {old}
    <2>1. k \in Int
      BY PidsAssumption
    <2>2. Pid(t, x) \in Int
      BY Numbers
    <2> QED BY <2>1, <2>2, PathHas, PathOnly, TowardNode
  <1>4. ASSUME NEW x \in Allocated(t) PROVE r.nodes[x] = node(x)
    BY <1>1
  <1>5. ASSUME NEW x \in Allocated(t)
        PROVE  /\ node(x) \in NodeTypes
               /\ node(x).pid = Pid(t, x) /\ node(x).name = Name(t, x)
               /\ node(x).cache = Cache(t, x)
               /\ node(x).left = IF Has(lo, hi, x, k) /\ k < Pid(t, x) /\ Left(t, x) = old
                                 THEN new ELSE Left(t, x)
               /\ node(x).right = IF Has(lo, hi, x, k) /\ Pid(t, x) < k /\ Right(t, x) = old
                                  THEN new ELSE Right(t, x)
    <2>1. CASE x \notin Path(t, k) \/ Toward(t, k)[x] # {old}
      <3>1. node(x) = t.nodes[x]
        BY <2>1
      <3> HIDE DEF node
      <3> QED BY <1>2, <1>3, <2>1, <3>1 DEF Pid, Name, Cache, Left, Right
    <2>2. CASE x \in Path(t, k) /\ Toward(t, k)[x] = {old} /\ k < Pid(t, x)
      <3>1. node(x) = left(x)
        BY <2>2
      <3>2. Has(lo, hi, x, k) /\ k < Pid(t, x) /\ Left(t, x) = old /\ ~(Pid(t, x) < k)
        BY <1>3, <2>2
      <3> HIDE DEF node, left
      <3> QED BY <1>2, <3>1, <3>2
    <2>3. CASE x \in Path(t, k) /\ Toward(t, k)[x] = {old} /\ ~(k < Pid(t, x))
      <3>1. node(x) = right(x)
        BY <2>3
      <3>2. Has(lo, hi, x, k) /\ Pid(t, x) < k /\ Right(t, x) = old /\ ~(k < Pid(t, x))
        BY <1>3, <2>3
      <3> HIDE DEF node, right
      <3> QED BY <1>2, <3>1, <3>2
    <2> QED BY <2>1, <2>2, <2>3
  <1> HIDE DEF node
  <1>6. t.root \in Pointers
    BY DEF Ranges, TreeTypes
  <1> QED BY <1>1, <1>4, <1>5, <1>6 DEF Pid, Name, Cache, Left, Right

\* What BstInsert does to a tree that has no node for the pid.
LEMMA Inserted ==
    ASSUME NEW t, NEW lo, NEW hi, Ranges(t, lo, hi),
           NEW node \in NodeTypes, node.left = Null, node.right = Null,
           BstLookup(t, node.pid) = Null,
           NEW a \in Addresses \ Allocated(t), NEW u, u = BstInsert(t, a, node)
    PROVE  /\ \E lo2, hi2 : Ranges(u, lo2, hi2)
           /\ Allocated(u) = Allocated(t) \union {a} /\ u.nodes[a] = node
           /\ \A x \in Allocated(t) :
                 Pid(u, x) = Pid(t, x) /\ Name(u, x) = Name(t, x) /\ Cache(u, x) = Cache(t, x)
  <1> DEFINE p == node.pid
             r == Redirect(t, p, Null, a)
  <1>1. p \in 0 .. MaxPid /\ a \in Pointers /\ a \in Addresses /\ a # Null
    BY PidsAssumption DEF NodeTypes, Pointers
  <1>2. \A x \in Allocated(t) : Pid(t, x) # p
    BY <1>1, LookupFinds, NodeFacts DEF Ranges
  <1>3. /\ r \in [root: Pointers, nodes: [Allocated(t) -> NodeTypes]]
        /\ r.root = IF t.root = Null THEN a ELSE t.root
        /\ \A x \in Allocated(t) :
              /\ Pid(r, x) = Pid(t, x) /\ Name(r, x) = Name(t, x) /\ Cache(r, x) = Cache(t, x)
              /\ Left(r, x) = IF Has(lo, hi, x, p) /\ p < Pid(t, x) /\ Left(t, x) = Null
                              THEN a ELSE Left(t, x)
              /\ Right(r, x) = IF Has(lo, hi, x, p) /\ Pid(t, x) < p /\ Right(t, x) = Null
                               THEN a ELSE Right(t, x)
    BY <1>1, Redirected
  <1> HIDE DEF r
  <1>4. u = [r EXCEPT !.nodes = [x \in Allocated(t) \union {a} |->
                                    IF x = a THEN node ELSE r.nodes[x]]]
    BY DEF BstInsert, r
  <1>5. /\ u.root = r.root /\ u \in [root: Pointers, nodes: [Allocated(t) \union {a} -> NodeTypes]]
        /\ Allocated(u) = Allocated(t) \union {a}
        /\ u.nodes[a] = node
        /\ \A x \in Allocated(t) : u.nodes[x] = r.nodes[x]
    BY <1>3, <1>4 DEF Allocated
  <1>6. TreeTypes(u)
    BY <1>1, <1>5 DEF Ranges, TreeTypes
  <1>7. /\ Pid(u, a) = p /\ Left(u, a) = Null /\ Right(u, a) = Null
        /\ \A x \in Allocated(t) :
              /\ Pid(u, x) = Pid(t, x) /\ Name(u, x) = Name(t, x) /\ Cache(u, x) = Cache(t, x)
              /\ Left(u, x) = Left(r, x) /\ Right(u, x) = Right(r, x)
    BY <1>3, <1>5 DEF Pid, Name, Cache, Left, Right
  <1>8. \E lo2, hi2 : Ranges(u, lo2, hi2)
    <2>1. CASE t.root = Null
      <3> DEFINE lo2 == [x \in Addresses |-> -1]
                 hi2 == [x \in Addresses |-> MaxPid + 1]
      <3>1. Allocated(u) = {a} /\ u.root = a
        BY <1>3, <1>5, <2>1 DEF Ranges, RootRange
      <3>2. lo2 \in Ends /\ hi2 \in Ends /\ lo2[a] = -1 /\ hi2[a] = MaxPid + 1
        BY <1>1, PidsAssumption DEF Ends
      <3>3. -1 < p /\ p < MaxPid + 1 /\ p \in Int
        BY <1>1, PidsAssumption
      <3> HIDE DEF lo2, hi2
      <3>4. RootRange(u, lo2, hi2) /\ OwnRange(u, lo2, hi2)
        BY <1>1, <1>7, <3>1, <3>2, <3>3 DEF RootRange, OwnRange, Has
      <3>5. LeftRange(u, lo2, hi2) /\ RightRange(u, lo2, hi2)
        BY <1>7, <3>1 DEF LeftRange, RightRange
      <3>6. Nested(u, lo2, hi2) /\ Filled(u, lo2, hi2)
        BY <1>7, <3>1, <3>3 DEF Nested, Filled
      <3> QED BY <1>6, <3>2, <3>4, <3>5, <3>6 DEF Ranges
    <2>2. CASE t.root # Null
      <3>1. PICK q \in Allocated(t) :
               \A x \in Allocated(t) : EndsAt(t, lo, hi, p, x) <=> x = q
        <4> HIDE DEF p
        <4> QED BY <1>1, <1>2, <2>2, OneEnd
      <3>2. u.root = t.root
        BY <1>3, <1>5, <2>2
      <3>3. ASSUME NEW x \in Allocated(t)
            PROVE  /\ Left(u, x) = IF x = q /\ p < Pid(t, q) THEN a ELSE Left(t, x)
                   /\ Right(u, x) = IF x = q /\ Pid(t, q) < p THEN a ELSE Right(t, x)
        <4>1. EndsAt(t, lo, hi, p, x) <=> x = q
          BY <3>1
        <4>2. p \in Int /\ Pid(t, x) \in Int /\ Pid(t, q) \in Int
          BY <1>1, Numbers
        <4>3. /\ Left(u, x) = IF Has(lo, hi, x, p) /\ p < Pid(t, x) /\ Left(t, x) = Null
                              THEN a ELSE Left(t, x)
              /\ Right(u, x) = IF Has(lo, hi, x, p) /\ Pid(t, x) < p /\ Right(t, x) = Null
                               THEN a ELSE Right(t, x)
          BY <1>3, <1>7
        <4> HIDE DEF p
        <4>4. CASE x = q
          BY <4>1, <4>2, <4>3, <4>4 DEF EndsAt
        <4>5. CASE x # q
          BY <4>1, <4>2, <4>3, <4>5 DEF EndsAt
        <4> QED BY <4>4, <4>5
      <3> HIDE DEF p
      <3> QED BY <1>1, <1>2, <1>5, <1>6, <1>7, <3>1, <3>2, <3>3, InsertedRanges
    <2> QED BY <2>1, <2>2
  <1> QED BY <1>5, <1>7, <1>8
--------------------------------------------------------------------------------
(* Deletion *)

\* The lowest node on the right of n: a shortest interval among those on the left spine,
\* all of which begin at the pid of n.
LEMMA LowestFacts ==
    ASSUME NEW t, NEW lo, NEW hi, Ranges(t, lo, hi),
           NEW n \in Allocated(t), Right(t, n) # Null
    PROVE  LET low == Lowest(t, Right(t, n))
           IN  /\ low \in Allocated(t) /\ low # n
               /\ lo[low] = Pid(t, n) /\ Left(t, low) = Null
  <1> DEFINE R == Right(t, n)
             next == [b \in Allocated(t) |-> {t.nodes[b].left}]
             S == {x \in Allocated(t) : lo[x] = Pid(t, n)}
             spine == LeftSpine(t, R)
  <1>1. R \in Allocated(t) /\ R # Null /\ R \in S
    BY Children
  <1>2. spine = Visited(t, {R}, next)
    BY DEF LeftSpine
  <1>3. spine \subseteq S
    <2>1. ASSUME NEW b \in S PROVE next[b] \subseteq S \union {Null}
      <3>1. next[b] = {Left(t, b)}
        BY DEF Left
      <3>2. Left(t, b) # Null => Left(t, b) \in S
        BY Children
      <3> QED BY <3>1, <3>2
    <2>2. S \in SUBSET Allocated(t)
      OBVIOUS
    <2> HIDE DEF S, next, spine
    <2> QED BY <1>1, <1>2, <2>1, <2>2, VisitedWithin
  <1>4. R \in spine
    BY <1>1, <1>2, VisitedFrom
  <1>5. spine \in SUBSET Allocated(t)
    BY <1>3
  <1>6. PICK b \in spine : \A c \in spine : hi[b] - lo[b] <= hi[c] - lo[c]
    <2> HIDE DEF spine
    <2> QED BY <1>4, <1>5, ShortestRange
  <1>7. Left(t, b) = Null
    <2> SUFFICES ASSUME Left(t, b) # Null PROVE FALSE
      OBVIOUS
    <2>1. b \in Allocated(t)
      BY <1>5
    <2>2. Left(t, b) \in Allocated(t) /\ lo[Left(t, b)] = lo[b] /\ hi[Left(t, b)] = Pid(t, b)
      BY <2>1, Children
    <2>3. Left(t, b) \in next[b]
      BY <2>1 DEF Left
    <2>4. Left(t, b) \in spine
      <3> HIDE DEF next, spine
      <3> QED BY <1>2, <2>2, <2>3, VisitedNext
    <2>5. hi[b] - lo[b] <= Pid(t, b) - lo[b]
      BY <1>6, <2>2, <2>4
    <2> QED BY <2>1, <2>5, Numbers
  <1>8. Lowest(t, R) \in spine /\ Left(t, Lowest(t, R)) = Null
    <2>1. Lowest(t, R) = CHOOSE x \in spine : Left(t, x) = Null
      BY DEF Lowest, Left
    <2> HIDE DEF spine
    <2> QED BY <1>7, <2>1
  <1>9. lo[n] < Pid(t, n) /\ lo[n] \in Int /\ Pid(t, n) \in Int
    BY Numbers
  <1> QED BY <1>3, <1>8, <1>9

\* Between the pid of the node deleted and e, that of the lowest node on its right or, without
\* one, the end of the interval, there is nothing.
Gap(t, hi, n, low, e) ==
    IF Right(t, n) = Null THEN e = hi[n] ELSE e = Pid(t, low)

IsLowest(t, lo, n, low) ==
    Right(t, n) # Null =>
        low \in Allocated(t) /\ low # n /\ lo[low] = Pid(t, n) /\ Left(t, low) = Null

LEMMA NothingInGap ==
    ASSUME NEW t, NEW lo, NEW hi, Ranges(t, lo, hi), NEW n \in Allocated(t),
           NEW low, IsLowest(t, lo, n, low), NEW e, Gap(t, hi, n, low, e),
           NEW x \in Allocated(t), x # n
    PROVE  /\ e \in Int /\ Pid(t, n) < e /\ e <= hi[n]
           /\ Pid(t, x) # Pid(t, n) /\ (Pid(t, x) < Pid(t, n) \/ e <= Pid(t, x))
           /\ lo[x] <= Pid(t, n) \/ e <= lo[x]
           /\ hi[x] <= Pid(t, n) \/ e <= hi[x]
           /\ lo[x] = Pid(t, n) => Right(t, n) # Null
  <1>1. /\ Pid(t, n) \in Int /\ lo[n] \in Int /\ hi[n] \in Int
        /\ lo[n] < Pid(t, n) /\ Pid(t, n) < hi[n]
        /\ Pid(t, x) \in Int /\ lo[x] \in Int /\ hi[x] \in Int
        /\ lo[x] < Pid(t, x) /\ Pid(t, x) < hi[x]
    BY Numbers
  <1>2. Pid(t, x) # Pid(t, n)
    BY PidsDiffer
  <1>3. \/ hi[x] <= lo[n]
        \/ hi[n] <= lo[x]
        \/ lo[n] <= lo[x] /\ hi[x] <= Pid(t, n)
        \/ Pid(t, n) <= lo[x] /\ hi[x] <= hi[n]
        \/ lo[x] <= lo[n] /\ hi[n] <= Pid(t, x)
        \/ Pid(t, x) <= lo[n] /\ hi[n] <= hi[x]
    BY Apart
  <1>4. Pid(t, n) < Pid(t, x) /\ Pid(t, x) < hi[n] => Right(t, n) # Null
    BY Children
  <1>5. CASE Right(t, n) = Null
    BY <1>1, <1>2, <1>3, <1>4, <1>5 DEF Gap
  <1>6. CASE Right(t, n) # Null
    <2>1. low \in Allocated(t) /\ low # n /\ lo[low] = Pid(t, n) /\ Left(t, low) = Null
      BY <1>6 DEF IsLowest
    <2>2. /\ Pid(t, low) \in Int /\ hi[low] \in Int
          /\ lo[low] < Pid(t, low) /\ Pid(t, low) < hi[low]
      BY <2>1, Numbers
    <2>3. \/ hi[low] <= lo[n]
          \/ hi[n] <= lo[low]
          \/ lo[n] <= lo[low] /\ hi[low] <= Pid(t, n)
          \/ Pid(t, n) <= lo[low] /\ hi[low] <= hi[n]
          \/ lo[low] <= lo[n] /\ hi[n] <= Pid(t, low)
          \/ Pid(t, low) <= lo[n] /\ hi[n] <= hi[low]
      BY <2>1, Apart
    <2>4. hi[low] <= hi[n] /\ e = Pid(t, low)
      BY <1>1, <1>6, <2>1, <2>2, <2>3 DEF Gap
    <2>5. CASE x = low
      BY <1>1, <1>2, <1>6, <2>1, <2>2, <2>4, <2>5
    <2>6. CASE x # low
      <3>1. \/ hi[x] <= lo[low]
            \/ hi[low] <= lo[x]
            \/ lo[low] <= lo[x] /\ hi[x] <= Pid(t, low)
            \/ Pid(t, low) <= lo[x] /\ hi[x] <= hi[low]
            \/ lo[x] <= lo[low] /\ hi[low] <= Pid(t, x)
            \/ Pid(t, x) <= lo[low] /\ hi[low] <= hi[x]
        BY <2>1, <2>6, Apart
      <3>2. ~(lo[low] < Pid(t, x) /\ Pid(t, x) < Pid(t, low))
        BY <2>1, Children
      <3> QED BY <1>1, <1>2, <1>3, <1>6, <2>1, <2>2, <2>4, <3>1, <3>2
    <2> QED BY <2>5, <2>6
  <1> QED BY <1>5, <1>6

\* What takes the place of n, and what is attached to the lowest node on its right, keep the
\* intervals fitting, once those that began or ended at the pid of n are extended.
LEMMA DeletedRanges ==
    ASSUME NEW t, NEW lo, NEW hi, Ranges(t, lo, hi), NEW n \in Allocated(t),
           NEW low, IsLowest(t, lo, n, low),
           NEW s, s = IF Right(t, n) = Null THEN Left(t, n) ELSE Right(t, n),
           NEW u, TreeTypes(u), Allocated(u) = Allocated(t) \ {n},
           u.root = IF t.root = n THEN s ELSE t.root,
           \A x \in Allocated(u) :
              /\ Pid(u, x) = Pid(t, x)
              /\ Left(u, x) = IF Right(t, n) # Null /\ x = low THEN Left(t, n)
                              ELSE IF Left(t, x) = n THEN s ELSE Left(t, x)
              /\ Right(u, x) = IF Right(t, x) = n THEN s ELSE Right(t, x)
    PROVE  \E lo2, hi2 : Ranges(u, lo2, hi2)
  <1> DEFINE m == Pid(t, n)
             e == IF Right(t, n) = Null THEN hi[n] ELSE Pid(t, low)
             l(x) == IF lo[x] = m THEN lo[n] ELSE lo[x]
             h(x) == IF hi[x] = m THEN e ELSE hi[x]
             lo2 == [x \in Addresses |-> l(x)]
             hi2 == [x \in Addresses |-> h(x)]
  <1>1. /\ m \in Int /\ lo[n] \in Int /\ hi[n] \in Int
        /\ -1 <= lo[n] /\ lo[n] < m /\ m < hi[n] /\ hi[n] <= MaxPid + 1
        /\ n \in Addresses /\ n # Null
    BY Numbers, NodeFacts DEF Ranges
  <1>2. Gap(t, hi, n, low, e)
    BY DEF Gap
  <1>3. e \in Int /\ m < e /\ e <= hi[n]
    <2>1. CASE Right(t, n) = Null
      BY <1>1, <2>1
    <2>2. CASE Right(t, n) # Null
      <3>1. low \in Allocated(t) /\ low # n
        BY <2>2 DEF IsLowest
      <3> HIDE DEF e
      <3> QED BY <1>2, <3>1, NothingInGap
    <2> QED BY <2>1, <2>2
  <1>4. Right(t, n) = Null => e = hi[n]
    OBVIOUS
  <1>5. Right(t, n) # Null => /\ low \in Allocated(u) /\ low # n /\ e = Pid(t, low)
                              /\ lo[low] = m /\ Left(t, low) = Null
    BY DEF IsLowest
  <1> HIDE DEF e
  <1>6. lo2 \in Ends /\ hi2 \in Ends
    <2>1. ASSUME NEW x \in Addresses PROVE l(x) \in -1 .. MaxPid + 1 /\ h(x) \in -1 .. MaxPid + 1
      <3>1. /\ lo[x] \in Int /\ -1 <= lo[x] /\ lo[x] <= MaxPid + 1
            /\ hi[x] \in Int /\ -1 <= hi[x] /\ hi[x] <= MaxPid + 1
        BY EndFacts DEF Ranges
      <3> HIDE DEF m
      <3> QED BY <1>1, <1>3, <3>1, PidsAssumption
    <2> HIDE DEF l, h
    <2> QED BY <2>1 DEF Ends
  <1>7. ASSUME NEW x \in Allocated(u)
        PROVE  /\ lo2[x] = l(x) /\ hi2[x] = h(x)
               /\ x \in Allocated(t) /\ x # n
               /\ Pid(t, x) \in Int /\ lo[x] \in Int /\ hi[x] \in Int
               /\ lo[x] < Pid(t, x) /\ Pid(t, x) < hi[x]
               /\ Pid(t, x) # m /\ (Pid(t, x) < m \/ e <= Pid(t, x))
               /\ lo[x] <= m \/ e <= lo[x]
               /\ hi[x] <= m \/ e <= hi[x]
               /\ lo[x] = m => Right(t, n) # Null
               /\ Left(t, x) # Null => /\ Left(t, x) \in Allocated(t)
                                       /\ lo[Left(t, x)] = lo[x] /\ hi[Left(t, x)] = Pid(t, x)
               /\ Right(t, x) # Null => /\ Right(t, x) \in Allocated(t)
                                        /\ lo[Right(t, x)] = Pid(t, x) /\ hi[Right(t, x)] = hi[x]
    <2>1. x \in Allocated(t) /\ x # n /\ x \in Addresses
      BY NodeFacts DEF Ranges
    <2> QED BY <1>2, <2>1, Numbers, NothingInGap, Children
  <1>8. /\ Left(t, n) # Null => /\ Left(t, n) \in Allocated(u)
                                /\ lo[Left(t, n)] = lo[n] /\ hi[Left(t, n)] = m
        /\ Right(t, n) # Null => /\ Right(t, n) \in Allocated(u)
                                 /\ lo[Right(t, n)] = m /\ hi[Right(t, n)] = hi[n]
    <2>1. /\ Left(t, n) # Null => /\ Left(t, n) \in Allocated(t)
                                  /\ lo[Left(t, n)] = lo[n] /\ hi[Left(t, n)] = m
          /\ Right(t, n) # Null => /\ Right(t, n) \in Allocated(t)
                                   /\ lo[Right(t, n)] = m /\ hi[Right(t, n)] = hi[n]
      BY Children
    <2> QED BY <1>1, <2>1
  <1>9. ASSUME NEW b \in Allocated(u)
        PROVE  /\ lo[n] < Pid(t, b) /\ Pid(t, b) < m => Left(t, n) # Null
               /\ m < Pid(t, b) /\ Pid(t, b) < hi[n] => Right(t, n) # Null
    BY Children
  <1> HIDE DEF m, lo2, hi2
  <1>10. RootRange(u, lo2, hi2)
    <2>1. CASE t.root = n
      <3>1. u.root = s /\ lo[n] = -1 /\ hi[n] = MaxPid + 1
        BY <1>1, <2>1 DEF Ranges, RootRange
      <3>2. CASE s = Null
        <4>1. Left(t, n) = Null /\ Right(t, n) = Null
          BY <1>8, <3>2
        <4>2. ASSUME NEW y \in Allocated(u) PROVE FALSE
          <5>1. -1 < Pid(t, y) /\ Pid(t, y) < MaxPid + 1
            BY <1>7, NodeFacts, PidsAssumption DEF Ranges
          <5> QED BY <1>1, <1>7, <1>9, <3>1, <4>1, <5>1
        <4> QED BY <3>1, <3>2, <4>2 DEF RootRange
      <3>3. CASE s # Null
        <4>1. s \in Allocated(u) /\ lo2[s] = lo[n] /\ hi2[s] = hi[n]
          BY <1>1, <1>4, <1>7, <1>8, <3>3
        <4> QED BY <3>1, <3>3, <4>1 DEF RootRange
      <3> QED BY <3>2, <3>3
    <2>2. CASE t.root # n
      <3>1. u.root = t.root
        BY <2>2
      <3>2. t.root # Null /\ t.root \in Allocated(u) /\ lo[t.root] = -1 /\ hi[t.root] = MaxPid + 1
        BY <2>2 DEF Ranges, RootRange
      <3>3. -1 < m /\ m < MaxPid + 1
        BY <1>1, PidsAssumption
      <3> QED BY <1>1, <1>7, <3>1, <3>2, <3>3, PidsAssumption DEF RootRange
    <2> QED BY <2>1, <2>2
  <1>11. OwnRange(u, lo2, hi2)
    <2> SUFFICES ASSUME NEW x \in Allocated(u)
                 PROVE  lo2[x] < Pid(t, x) /\ Pid(t, x) < hi2[x]
      BY DEF OwnRange, Has
    <2> QED BY <1>1, <1>3, <1>7
  <1>12. LeftRange(u, lo2, hi2)
    <2> SUFFICES ASSUME NEW x \in Allocated(u), Left(u, x) # Null
                 PROVE  /\ Left(u, x) \in Allocated(u)
                        /\ lo2[Left(u, x)] = lo2[x] /\ hi2[Left(u, x)] = Pid(t, x)
      BY DEF LeftRange
    <2>1. CASE Right(t, n) # Null /\ x = low
      <3>1. Left(u, x) = Left(t, n) /\ Left(t, n) \in Allocated(u)
        BY <1>8, <2>1
      <3> QED BY <1>1, <1>5, <1>7, <1>8, <2>1, <3>1
    <2>2. CASE ~(Right(t, n) # Null /\ x = low) /\ Left(t, x) = n
      <3>1. Left(u, x) = s /\ s \in Allocated(u)
        BY <1>8, <2>2
      <3>2. lo[n] = lo[x] /\ hi[n] = Pid(t, x)
        BY <1>1, <1>7, <2>2
      <3> QED BY <1>1, <1>3, <1>4, <1>7, <1>8, <3>1, <3>2
    <2>3. CASE ~(Right(t, n) # Null /\ x = low) /\ Left(t, x) # n
      <3>1. Left(u, x) = Left(t, x) /\ Left(t, x) \in Allocated(u)
        BY <1>7, <2>3
      <3> QED BY <1>7, <3>1
    <2> QED BY <2>1, <2>2, <2>3
  <1>13. RightRange(u, lo2, hi2)
    <2> SUFFICES ASSUME NEW x \in Allocated(u), Right(u, x) # Null
                 PROVE  /\ Right(u, x) \in Allocated(u)
                        /\ lo2[Right(u, x)] = Pid(t, x) /\ hi2[Right(u, x)] = hi2[x]
      BY DEF RightRange
    <2>1. CASE Right(t, x) = n
      <3>1. Right(u, x) = s /\ s \in Allocated(u)
        BY <1>8, <2>1
      <3>2. lo[n] = Pid(t, x) /\ hi[n] = hi[x]
        BY <1>1, <1>7, <2>1
      <3> QED BY <1>1, <1>3, <1>4, <1>7, <1>8, <3>1, <3>2
    <2>2. CASE Right(t, x) # n
      <3>1. Right(u, x) = Right(t, x) /\ Right(t, x) \in Allocated(u)
        BY <1>7, <2>2
      <3> QED BY <1>7, <3>1
    <2> QED BY <2>1, <2>2
  <1>14. Nested(u, lo2, hi2)
    <2> SUFFICES ASSUME NEW x \in Allocated(u), NEW y \in Allocated(u), x # y
                 PROVE  \/ hi2[x] <= lo2[y] \/ hi2[y] <= lo2[x]
                        \/ Under(u, lo2, hi2, x, y) \/ Under(u, lo2, hi2, y, x)
      BY DEF Nested
    <2>1. Pid(u, x) = Pid(t, x) /\ Pid(u, y) = Pid(t, y)
      OBVIOUS
    <2>2. \/ hi[x] <= lo[y]
          \/ hi[y] <= lo[x]
          \/ lo[y] <= lo[x] /\ hi[x] <= Pid(t, y)
          \/ Pid(t, y) <= lo[x] /\ hi[x] <= hi[y]
          \/ lo[x] <= lo[y] /\ hi[y] <= Pid(t, x)
          \/ Pid(t, x) <= lo[y] /\ hi[y] <= hi[x]
      BY <1>7, Apart
    <2>3. ASSUME NEW z \in Allocated(u)
          PROVE  \/ hi[z] <= lo[n]
                 \/ hi[n] <= lo[z]
                 \/ lo[n] <= lo[z] /\ hi[z] <= m
                 \/ m <= lo[z] /\ hi[z] <= hi[n]
                 \/ lo[z] <= lo[n] /\ hi[n] <= Pid(t, z)
                 \/ Pid(t, z) <= lo[n] /\ hi[n] <= hi[z]
      BY <1>7, Apart DEF m
    <2> QED BY <1>1, <1>3, <1>7, <2>1, <2>2, <2>3 DEF Under
  <1>15. Filled(u, lo2, hi2)
    <2> SUFFICES ASSUME NEW x \in Allocated(u), NEW y \in Allocated(u)
                 PROVE  /\ lo2[x] < Pid(t, y) /\ Pid(t, y) < Pid(t, x) => Left(u, x) # Null
                        /\ Pid(t, x) < Pid(t, y) /\ Pid(t, y) < hi2[x] => Right(u, x) # Null
      BY DEF Filled
    <2>1. /\ lo[x] < Pid(t, y) /\ Pid(t, y) < Pid(t, x) => Left(t, x) # Null
          /\ Pid(t, x) < Pid(t, y) /\ Pid(t, y) < hi[x] => Right(t, x) # Null
      BY <1>7, Children
    <2>2. ASSUME lo2[x] < Pid(t, y), Pid(t, y) < Pid(t, x), Left(u, x) = Null PROVE FALSE
      <3>1. CASE Right(t, n) # Null /\ x = low
        <4>1. Left(u, x) = Left(t, n) /\ lo2[x] = lo[n] /\ Left(t, x) = Null /\ lo[x] = m
          BY <1>5, <1>7, <3>1
        <4>2. e = Pid(t, x)
          BY <1>5, <3>1
        <4> QED BY <1>1, <1>7, <1>9, <2>2, <4>1, <4>2
      <3>2. CASE ~(Right(t, n) # Null /\ x = low) /\ Left(t, x) = n
        <4>1. s = Null /\ lo[n] = lo[x] /\ hi[n] = Pid(t, x) /\ lo2[x] = lo[n]
          BY <1>1, <1>7, <2>2, <3>2
        <4>2. Left(t, n) = Null /\ Right(t, n) = Null
          BY <1>8, <4>1
        <4> QED BY <1>1, <1>7, <1>9, <2>2, <4>1, <4>2
      <3>3. CASE ~(Right(t, n) # Null /\ x = low) /\ Left(t, x) # n
        <4>1. Left(t, x) = Null /\ Pid(t, y) <= lo[x] /\ lo[x] = m /\ lo2[x] = lo[n]
          BY <1>1, <1>7, <2>1, <2>2, <3>3
        <4>2. Right(t, n) # Null /\ x # low
          BY <1>7, <3>3, <4>1
        <4>3. /\ low \in Allocated(t) /\ Pid(t, low) \in Int /\ m < Pid(t, low)
              /\ e = Pid(t, low) /\ Pid(t, low) # Pid(t, x)
          BY <1>3, <1>5, <1>7, <4>2, PidsDiffer
        <4>4. ~(lo[x] < Pid(t, low) /\ Pid(t, low) < Pid(t, x))
          BY <1>7, <4>1, <4>3, Children
        <4> QED BY <1>1, <1>7, <4>1, <4>3, <4>4
      <3> QED BY <3>1, <3>2, <3>3
    <2>3. ASSUME Pid(t, x) < Pid(t, y), Pid(t, y) < hi2[x], Right(u, x) = Null PROVE FALSE
      <3>1. CASE Right(t, x) = n
        <4>1. s = Null /\ lo[n] = Pid(t, x) /\ hi[n] = hi[x] /\ hi2[x] = hi[n]
          BY <1>1, <1>7, <2>3, <3>1
        <4>2. Left(t, n) = Null /\ Right(t, n) = Null
          BY <1>8, <4>1
        <4> QED BY <1>1, <1>7, <1>9, <2>3, <4>1, <4>2
      <3>2. CASE Right(t, x) # n
        <4>1. Right(t, x) = Null /\ hi[x] <= Pid(t, y) /\ hi[x] = m /\ hi2[x] = e
          BY <1>1, <1>7, <2>1, <2>3, <3>2
        <4> QED BY <1>1, <1>3, <1>7, <2>3, <4>1
      <3> QED BY <3>1, <3>2
    <2> QED BY <2>2, <2>3
  <1> QED BY <1>6, <1>10, <1>11, <1>12, <1>13, <1>14, <1>15 DEF Ranges

\* What BstDelete does to a tree that has a node for the pid.
LEMMA Deleted ==
    ASSUME NEW t, NEW lo, NEW hi, Ranges(t, lo, hi), NEW p \in 0 .. MaxPid,
           NEW n, n = BstLookup(t, p), n # Null, NEW u, u = BstDelete(t, p)
    PROVE  /\ \E lo2, hi2 : Ranges(u, lo2, hi2)
           /\ n \in Allocated(t) /\ Pid(t, n) = p /\ Allocated(u) = Allocated(t) \ {n}
           /\ \A x \in Allocated(u) :
                 Pid(u, x) = Pid(t, x) /\ Name(u, x) = Name(t, x) /\ Cache(u, x) = Cache(t, x)
  <1> DEFINE s == Successor(t, n)
             low == Lowest(t, Right(t, n))
             r == Redirect(t, p, n, s)
             Attach(x) == Left(t, n) # Null /\ Right(t, n) # Null /\ x = low
             node(x) == IF Attach(x) THEN [r.nodes[x] EXCEPT !.left = Left(t, n)]
                                     ELSE r.nodes[x]
  <1>1. n \in Allocated(t) /\ Pid(t, n) = p
    BY LookupFinds
  <1>2. /\ n \in Addresses /\ n # Null
        /\ Left(t, n) \in Pointers /\ Right(t, n) \in Pointers
    BY <1>1, NodeFacts DEF Ranges
  <1>3. s = IF Right(t, n) = Null THEN Left(t, n) ELSE Right(t, n)
    BY DEF Successor, Left, Right
  <1>4. IsLowest(t, lo, n, low)
    BY <1>1, LowestFacts DEF IsLowest
  <1> HIDE DEF s
  <1>5. /\ r \in [root: Pointers, nodes: [Allocated(t) -> NodeTypes]]
        /\ r.root = IF t.root = n THEN s ELSE t.root
        /\ \A x \in Allocated(t) :
              /\ Pid(r, x) = Pid(t, x) /\ Name(r, x) = Name(t, x) /\ Cache(r, x) = Cache(t, x)
              /\ Left(r, x) = IF Has(lo, hi, x, p) /\ p < Pid(t, x) /\ Left(t, x) = n
                              THEN s ELSE Left(t, x)
              /\ Right(r, x) = IF Has(lo, hi, x, p) /\ Pid(t, x) < p /\ Right(t, x) = n
                               THEN s ELSE Right(t, x)
    BY <1>2, <1>3, Redirected
  <1>6. ASSUME NEW x \in Allocated(t)
        PROVE  /\ Left(r, x) = IF Left(t, x) = n THEN s ELSE Left(t, x)
               /\ Right(r, x) = IF Right(t, x) = n THEN s ELSE Right(t, x)
    <2>1. Left(t, x) = n => Has(lo, hi, x, p) /\ p < Pid(t, x)
      BY <1>1, <1>2, Numbers, Children DEF Has
    <2>2. Right(t, x) = n => Has(lo, hi, x, p) /\ Pid(t, x) < p
      BY <1>1, <1>2, Numbers, Children DEF Has
    <2> HIDE DEF r
    <2> QED BY <1>5, <2>1, <2>2
  <1>7. u = [r EXCEPT !.nodes = [x \in Allocated(t) \ {n} |-> node(x)]]
    BY DEF BstDelete, s, Left, Right
  <1> HIDE DEF r, low
  <1>8. ASSUME NEW x \in Allocated(t)
        PROVE  /\ node(x) \in NodeTypes
               /\ node(x).pid = Pid(t, x) /\ node(x).name = Name(t, x)
               /\ node(x).cache = Cache(t, x) /\ node(x).right = Right(r, x)
               /\ node(x).left = IF Attach(x) THEN Left(t, n) ELSE Left(r, x)
    <2>1. r.nodes[x] \in NodeTypes
      BY <1>5
    <2>2. /\ r.nodes[x].pid = Pid(t, x) /\ r.nodes[x].name = Name(t, x)
          /\ r.nodes[x].cache = Cache(t, x)
      BY <1>5 DEF Pid, Name, Cache
    <2>3. CASE Attach(x)
      <3>1. node(x) = [r.nodes[x] EXCEPT !.left = Left(t, n)]
        BY <2>3
      <3> HIDE DEF node, Attach
      <3> QED BY <1>2, <2>1, <2>2, <2>3, <3>1 DEF NodeTypes, Right
    <2>4. CASE ~Attach(x)
      <3>1. node(x) = r.nodes[x]
        BY <2>4
      <3> HIDE DEF node, Attach
      <3> QED BY <2>1, <2>2, <2>4, <3>1 DEF Left, Right
    <2> QED BY <2>3, <2>4
  <1> HIDE DEF node
  <1>9. /\ u.root = r.root /\ Allocated(u) = Allocated(t) \ {n}
        /\ u \in [root: Pointers, nodes: [Allocated(t) \ {n} -> NodeTypes]]
        /\ \A x \in Allocated(u) : u.nodes[x] = node(x)
    BY <1>5, <1>7, <1>8 DEF Allocated
  <1>10. TreeTypes(u)
    BY <1>9 DEF Ranges, TreeTypes
  <1>11. ASSUME NEW x \in Allocated(u)
         PROVE  /\ Pid(u, x) = Pid(t, x) /\ Name(u, x) = Name(t, x)
                /\ Cache(u, x) = Cache(t, x)
                /\ Left(u, x) = IF Right(t, n) # Null /\ x = low THEN Left(t, n)
                                ELSE IF Left(t, x) = n THEN s ELSE Left(t, x)
                /\ Right(u, x) = IF Right(t, x) = n THEN s ELSE Right(t, x)
    <2>1. x \in Allocated(t) /\ u.nodes[x] = node(x)
      BY <1>9
    <2>2. /\ Pid(u, x) = Pid(t, x) /\ Name(u, x) = Name(t, x)
          /\ Cache(u, x) = Cache(t, x) /\ Right(u, x) = Right(r, x)
          /\ Left(u, x) = IF Attach(x) THEN Left(t, n) ELSE Left(r, x)
      <3> HIDE DEF Attach
      <3> QED BY <1>8, <2>1 DEF Pid, Name, Cache, Left, Right
    <2>3. Right(t, n) # Null /\ x = low => Left(t, x) = Null
      BY <1>4 DEF IsLowest
    <2> QED BY <1>2, <1>6, <2>1, <2>2, <2>3
  <1>12. \E lo2, hi2 : Ranges(u, lo2, hi2)
    BY <1>1, <1>3, <1>4, <1>5, <1>9, <1>10, <1>11, DeletedRanges
  <1> QED BY <1>1, <1>9, <1>11, <1>12
--------------------------------------------------------------------------------
(* The other operations *)

\* The intervals depend on pids and pointers alone.
LEMMA SameShape ==
    ASSUME NEW t, NEW lo, NEW hi, Ranges(t, lo, hi),
           NEW u, TreeTypes(u), Allocated(u) = Allocated(t), u.root = t.root,
           \A x \in Allocated(t) :
              Pid(u, x) = Pid(t, x) /\ Left(u, x) = Left(t, x) /\ Right(u, x) = Right(t, x)
    PROVE  Ranges(u, lo, hi)
  <1>1. RootRange(u, lo, hi) /\ OwnRange(u, lo, hi)
    BY DEF Ranges, RootRange, OwnRange
  <1>2. LeftRange(u, lo, hi) /\ RightRange(u, lo, hi)
    BY DEF Ranges, LeftRange, RightRange
  <1>3. Nested(u, lo, hi)
    BY DEF Ranges, Nested, Under
  <1>4. Filled(u, lo, hi)
    BY DEF Ranges, Filled
  <1> QED BY <1>1, <1>2, <1>3, <1>4 DEF Ranges

\* All nodes are below the root.
LEMMA AllBelowRoot ==
    ASSUME NEW t, NEW lo, NEW hi, Ranges(t, lo, hi), NEW a \in Allocated(t)
    PROVE  a \in Below(t, t.root)
  <1> DEFINE k == Pid(t, a)
             next == [b \in Allocated(t) |-> {t.nodes[b].left, t.nodes[b].right}]
  <1>1. k \in Int /\ Has(lo, hi, a, k)
    BY NodeFacts DEF Ranges, OwnRange
  <1> HIDE DEF k
  <1>2. a \in Path(t, k)
    BY <1>1, PathHas
  <1>3. ASSUME NEW b \in Allocated(t) PROVE Toward(t, k)[b] \subseteq next[b]
    BY <1>1, Numbers, TowardNode DEF Left, Right
  <1> SUFFICES ASSUME NEW S \in SUBSET Allocated(t), {t.root} \subseteq S \union {Null},
                      \A b \in S : next[b] \subseteq S \union {Null}
               PROVE  a \in S
    BY DEF Below, Visited
  <1>4. \A b \in S : Toward(t, k)[b] \subseteq S \union {Null}
    <2> HIDE DEF next
    <2> QED BY <1>3
  <1> QED BY <1>2, <1>4 DEF Path, Visited

\* What BstFlushEvaluationCache does: no verdict is left, and nothing else has changed.
LEMMA Flushed ==
    ASSUME NEW t, NEW lo, NEW hi, Ranges(t, lo, hi), NEW u, u = BstFlushEvaluationCache(t)
    PROVE  /\ Ranges(u, lo, hi) /\ Allocated(u) = Allocated(t)
           /\ \A x \in Allocated(t) :
                 Pid(u, x) = Pid(t, x) /\ Name(u, x) = Name(t, x) /\ Cache(u, x) = "Empty"
  <1>1. t \in [root: Pointers, nodes: [Allocated(t) -> NodeTypes]]
    BY DEF Ranges, TreeTypes
  <1> DEFINE node(x) == [t.nodes[x] EXCEPT !.cache = "Empty"]
  <1>2. u = [t EXCEPT !.nodes = [x \in Allocated(t) |-> node(x)]]
    BY <1>1, AllBelowRoot DEF BstFlushEvaluationCache
  <1>3. ASSUME NEW x \in Allocated(t)
        PROVE  /\ node(x) \in NodeTypes /\ node(x).cache = "Empty"
               /\ node(x).pid = Pid(t, x) /\ node(x).name = Name(t, x)
               /\ node(x).left = Left(t, x) /\ node(x).right = Right(t, x)
    <2>1. t.nodes[x] \in NodeTypes
      BY <1>1
    <2> QED BY <2>1 DEF NodeTypes, Pid, Name, Left, Right
  <1> HIDE DEF node
  <1>4. /\ u.root = t.root /\ Allocated(u) = Allocated(t)
        /\ u \in [root: Pointers, nodes: [Allocated(t) -> NodeTypes]]
        /\ \A x \in Allocated(t) : u.nodes[x] = node(x)
    BY <1>1, <1>2, <1>3 DEF Allocated
  <1>5. TreeTypes(u)
    BY <1>4 DEF Ranges, TreeTypes
  <1>6. \A x \in Allocated(t) :
           /\ Pid(u, x) = Pid(t, x) /\ Name(u, x) = Name(t, x) /\ Cache(u, x) = "Empty"
           /\ Left(u, x) = Left(t, x) /\ Right(u, x) = Right(t, x)
    BY <1>3, <1>4 DEF Pid, Name, Cache, Left, Right
  <1> QED BY <1>4, <1>5, <1>6, SameShape

\* What keeping a verdict with a node does.
LEMMA Judged ==
    ASSUME NEW t, NEW lo, NEW hi, Ranges(t, lo, hi), NEW n \in Allocated(t),
           NEW verdict \in Verdicts, NEW u, u = [t EXCEPT !.nodes[n].cache = verdict]
    PROVE  /\ Ranges(u, lo, hi) /\ Allocated(u) = Allocated(t)
           /\ \A x \in Allocated(t) :
                 /\ Pid(u, x) = Pid(t, x) /\ Name(u, x) = Name(t, x)
                 /\ Cache(u, x) = IF x = n THEN verdict ELSE Cache(t, x)
  <1>1. t \in [root: Pointers, nodes: [Allocated(t) -> NodeTypes]]
    BY DEF Ranges, TreeTypes
  <1> DEFINE node == [t.nodes[n] EXCEPT !.cache = verdict]
  <1>2. u = [t EXCEPT !.nodes = [t.nodes EXCEPT ![n] = node]]
    BY <1>1
  <1>3. /\ node \in NodeTypes /\ node.cache = verdict
        /\ node.pid = Pid(t, n) /\ node.name = Name(t, n)
        /\ node.left = Left(t, n) /\ node.right = Right(t, n)
    <2>1. t.nodes[n] \in NodeTypes
      BY <1>1
    <2> QED BY <2>1 DEF NodeTypes, Pid, Name, Left, Right
  <1> HIDE DEF node
  <1>4. /\ u.root = t.root /\ Allocated(u) = Allocated(t)
        /\ u \in [root: Pointers, nodes: [Allocated(t) -> NodeTypes]]
        /\ \A x \in Allocated(t) : u.nodes[x] = IF x = n THEN node ELSE t.nodes[x]
    BY <1>1, <1>2, <1>3 DEF Allocated
  <1>5. TreeTypes(u)
    BY <1>4 DEF Ranges, TreeTypes
  <1>6. \A x \in Allocated(t) :
           /\ Pid(u, x) = Pid(t, x) /\ Name(u, x) = Name(t, x)
           /\ Cache(u, x) = IF x = n THEN verdict ELSE Cache(t, x)
           /\ Left(u, x) = Left(t, x) /\ Right(u, x) = Right(t, x)
    BY <1>3, <1>4 DEF Pid, Name, Cache, Left, Right
  <1> QED BY <1>4, <1>5, <1>6, SameShape
--------------------------------------------------------------------------------
(* The registry operations keep the intervals fitting, and are those of ProcessRegistry *)

\* What the registry is, seen through BstLookup
ImageOf(t) ==
    [p \in Pids |-> IF BstLookup(t, p) = Null THEN NoImage ELSE Name(t, BstLookup(t, p))]
CacheOf(t) ==
    [p \in Pids |-> IF BstLookup(t, p) = Null THEN "Empty" ELSE Cache(t, BstLookup(t, p))]

LEMMA PidIsUlong == Pids \subseteq 0 .. MaxPid
  BY PidsAssumption

\* A pid that has the same node in two trees is looked up alike.
LEMMA SameLookup ==
    ASSUME NEW t, NEW lo, NEW hi, Ranges(t, lo, hi),
           NEW u, NEW lo2, NEW hi2, Ranges(u, lo2, hi2), NEW p \in Pids,
           \A x \in Allocated(t) : Pid(t, x) = p => x \in Allocated(u) /\ Pid(u, x) = p,
           \A x \in Allocated(u) : Pid(u, x) = p => x \in Allocated(t) /\ Pid(t, x) = p
    PROVE  BstLookup(u, p) = BstLookup(t, p)
  <1>1. p \in 0 .. MaxPid
    BY PidIsUlong
  <1>2. CASE BstLookup(t, p) # Null
    BY <1>1, <1>2, LookupFinds
  <1>3. CASE BstLookup(t, p) = Null
    <2>1. \A x \in Allocated(t) : x # Null /\ Pid(t, x) # p
      BY <1>1, <1>3, LookupFinds, NodeFacts DEF Ranges
    <2> QED BY <1>1, <1>3, <2>1, LookupFinds
  <1> QED BY <1>2, <1>3

LEMMA RegistryTypes ==
    ASSUME NEW t, NEW lo, NEW hi, Ranges(t, lo, hi), NEW p \in Pids
    PROVE  BstLookup(t, p) # Null => Name(t, BstLookup(t, p)) # NoImage
  <1>1. p \in 0 .. MaxPid
    BY PidIsUlong
  <1>2. ASSUME NEW a \in Allocated(t) PROVE Name(t, a) # NoImage
    <2>1. t.nodes[a] \in NodeTypes
      BY NodeFacts DEF Ranges
    <2> QED BY <2>1, PidsAssumption DEF NodeTypes, Name
  <1> QED BY <1>1, <1>2, LookupFinds

\* The new node is found under its pid, and all others where they were.
LEMMA RegisterStep ==
    ASSUME NEW t, NEW lo, NEW hi, Ranges(t, lo, hi), NEW p \in Pids, NEW name \in Images,
           BstLookup(t, p) = Null, NEW a \in Addresses \ Allocated(t),
           NEW u, u = BstInsert(t, a, BstNewNode(p, name))
    PROVE  /\ \E lo2, hi2 : Ranges(u, lo2, hi2)
           /\ ImageOf(u) = [ImageOf(t) EXCEPT ![p] = name]
           /\ CacheOf(u) = [CacheOf(t) EXCEPT ![p] = "Empty"]
  <1> DEFINE node == BstNewNode(p, name)
  <1>1. /\ node \in NodeTypes /\ node.pid = p /\ node.name = name /\ node.cache = "Empty"
        /\ node.left = Null /\ node.right = Null
    BY DEF NodeTypes, BstNewNode, Pointers
  <1> HIDE DEF node
  <1>2. /\ \E lo2, hi2 : Ranges(u, lo2, hi2)
        /\ Allocated(u) = Allocated(t) \union {a} /\ u.nodes[a] = node
        /\ \A x \in Allocated(t) :
              Pid(u, x) = Pid(t, x) /\ Name(u, x) = Name(t, x) /\ Cache(u, x) = Cache(t, x)
    BY <1>1, Inserted DEF node
  <1>3. PICK lo2, hi2 : Ranges(u, lo2, hi2)
    BY <1>2
  <1>4. Pid(u, a) = p /\ Name(u, a) = name /\ Cache(u, a) = "Empty" /\ a \in Allocated(u)
    BY <1>1, <1>2 DEF Pid, Name, Cache
  <1>5. BstLookup(u, p) = a /\ a # Null
    BY <1>3, <1>4, LookupFinds, PidIsUlong, PidsAssumption
  <1>6. ASSUME NEW k \in Pids, k # p
        PROVE  /\ BstLookup(u, k) = BstLookup(t, k)
               /\ BstLookup(t, k) # Null => /\ Name(u, BstLookup(t, k)) = Name(t, BstLookup(t, k))
                                            /\ Cache(u, BstLookup(t, k)) = Cache(t, BstLookup(t, k))
    <2>1. BstLookup(u, k) = BstLookup(t, k)
      BY <1>2, <1>3, <1>4, <1>6, SameLookup
    <2>2. BstLookup(t, k) # Null => BstLookup(t, k) \in Allocated(t)
      BY LookupFinds, PidIsUlong
    <2> QED BY <1>2, <2>1, <2>2
  <1>7. ImageOf(u) = [ImageOf(t) EXCEPT ![p] = name]
    BY <1>4, <1>5, <1>6 DEF ImageOf
  <1>8. CacheOf(u) = [CacheOf(t) EXCEPT ![p] = "Empty"]
    BY <1>4, <1>5, <1>6 DEF CacheOf
  <1> QED BY <1>2, <1>7, <1>8

\* The pid is gone, and all others are found where they were.
LEMMA UnregisterStep ==
    ASSUME NEW t, NEW lo, NEW hi, Ranges(t, lo, hi), NEW p \in Pids,
           NEW u, u = BstDelete(t, p)
    PROVE  /\ \E lo2, hi2 : Ranges(u, lo2, hi2)
           /\ ImageOf(u) = [ImageOf(t) EXCEPT ![p] = NoImage]
           /\ CacheOf(u) = [CacheOf(t) EXCEPT ![p] = "Empty"]
  <1>1. CASE BstLookup(t, p) = Null
    <2>1. u = t
      BY <1>1 DEF BstDelete
    <2> QED BY <1>1, <2>1 DEF ImageOf, CacheOf
  <1>2. CASE BstLookup(t, p) # Null
    <2> DEFINE n == BstLookup(t, p)
    <2>1. /\ \E lo2, hi2 : Ranges(u, lo2, hi2)
          /\ n \in Allocated(t) /\ Pid(t, n) = p /\ Allocated(u) = Allocated(t) \ {n}
          /\ \A x \in Allocated(u) :
                Pid(u, x) = Pid(t, x) /\ Name(u, x) = Name(t, x) /\ Cache(u, x) = Cache(t, x)
      BY <1>2, Deleted, PidIsUlong
    <2> HIDE DEF n
    <2>2. PICK lo2, hi2 : Ranges(u, lo2, hi2)
      BY <2>1
    <2>3. \A x \in Allocated(u) : Pid(u, x) # p
      BY <2>1, PidsDiffer
    <2>4. BstLookup(u, p) = Null
      BY <2>2, <2>3, LookupFinds, PidIsUlong
    <2>5. ASSUME NEW k \in Pids, k # p
          PROVE  /\ BstLookup(u, k) = BstLookup(t, k)
                 /\ BstLookup(t, k) # Null =>
                       /\ Name(u, BstLookup(t, k)) = Name(t, BstLookup(t, k))
                       /\ Cache(u, BstLookup(t, k)) = Cache(t, BstLookup(t, k))
      <3>1. BstLookup(u, k) = BstLookup(t, k)
        BY <2>1, <2>2, <2>5, SameLookup
      <3>2. BstLookup(u, k) # Null => BstLookup(u, k) \in Allocated(u)
        BY <2>2, LookupFinds, PidIsUlong
      <3> QED BY <2>1, <3>1, <3>2
    <2>6. ImageOf(u) = [ImageOf(t) EXCEPT ![p] = NoImage]
      BY <2>4, <2>5 DEF ImageOf
    <2>7. CacheOf(u) = [CacheOf(t) EXCEPT ![p] = "Empty"]
      BY <2>4, <2>5 DEF CacheOf
    <2> QED BY <2>1, <2>6, <2>7
  <1> QED BY <1>1, <1>2

\* The verdict is kept with the pid it was asked for.
LEMMA CheckStep ==
    ASSUME NEW t, NEW lo, NEW hi, Ranges(t, lo, hi), NEW p \in Pids, NEW verdict \in Verdicts,
           NEW n, n = BstLookup(t, p), n # Null, NEW u, u = [t EXCEPT !.nodes[n].cache = verdict]
    PROVE  /\ Ranges(u, lo, hi) /\ ImageOf(u) = ImageOf(t)
           /\ CacheOf(u) = [CacheOf(t) EXCEPT ![p] = verdict]
  <1>1. n \in Allocated(t) /\ Pid(t, n) = p
    BY LookupFinds, PidIsUlong
  <1>2. /\ Ranges(u, lo, hi) /\ Allocated(u) = Allocated(t)
        /\ \A x \in Allocated(t) :
              /\ Pid(u, x) = Pid(t, x) /\ Name(u, x) = Name(t, x)
              /\ Cache(u, x) = IF x = n THEN verdict ELSE Cache(t, x)
    BY <1>1, Judged
  <1>3. ASSUME NEW k \in Pids
        PROVE  /\ BstLookup(u, k) = BstLookup(t, k)
               /\ BstLookup(t, k) # Null =>
                     /\ BstLookup(t, k) \in Allocated(t)
                     /\ BstLookup(t, k) = n <=> k = p
    <2>1. BstLookup(u, k) = BstLookup(t, k)
      BY <1>2, SameLookup
    <2>2. BstLookup(t, k) # Null => BstLookup(t, k) \in Allocated(t) /\ Pid(t, BstLookup(t, k)) = k
      BY LookupFinds, PidIsUlong
    <2> QED BY <1>1, <2>1, <2>2
  <1>4. ImageOf(u) = ImageOf(t)
    BY <1>2, <1>3 DEF ImageOf
  <1>5. CacheOf(u) = [CacheOf(t) EXCEPT ![p] = verdict]
    BY <1>2, <1>3 DEF CacheOf
  <1> QED BY <1>2, <1>4, <1>5

\* No pid has a verdict.
LEMMA FlushStep ==
    ASSUME NEW t, NEW lo, NEW hi, Ranges(t, lo, hi), NEW u, u = BstFlushEvaluationCache(t)
    PROVE  /\ Ranges(u, lo, hi) /\ ImageOf(u) = ImageOf(t)
           /\ CacheOf(u) = [p \in Pids |-> "Empty"]
  <1>1. /\ Ranges(u, lo, hi) /\ Allocated(u) = Allocated(t)
        /\ \A x \in Allocated(t) :
              Pid(u, x) = Pid(t, x) /\ Name(u, x) = Name(t, x) /\ Cache(u, x) = "Empty"
    BY Flushed
  <1>2. ASSUME NEW k \in Pids
        PROVE  /\ BstLookup(u, k) = BstLookup(t, k)
               /\ BstLookup(t, k) # Null => BstLookup(t, k) \in Allocated(t)
    BY <1>1, SameLookup, LookupFinds, PidIsUlong
  <1>3. ImageOf(u) = ImageOf(t)
    BY <1>1, <1>2 DEF ImageOf
  <1>4. CacheOf(u) = [p \in Pids |-> "Empty"]
    BY <1>1, <1>2 DEF CacheOf
  <1> QED BY <1>1, <1>3, <1>4
--------------------------------------------------------------------------------
(* The theorems *)

LEMMA RangesInitially ==
    ASSUME Init
    PROVE  /\ RangesInv
           /\ ImageOf(tree) = [p \in Pids |-> NoImage]
           /\ CacheOf(tree) = [p \in Pids |-> "Empty"]
  <1> DEFINE lo == [x \in Addresses |-> 0]
  <1>1. /\ tree.root = Null /\ Allocated(tree) = {}
        /\ tree \in [root: Pointers, nodes: [{} -> NodeTypes]]
    BY DEF Init, Empty, Allocated, Pointers
  <1>2. lo \in Ends
    BY PidsAssumption DEF Ends
  <1> HIDE DEF lo
  <1>3. Ranges(tree, lo, lo)
    BY <1>1, <1>2 DEF Ranges, TreeTypes, RootRange, OwnRange, LeftRange, RightRange,
        Nested, Filled
  <1>4. \A p \in Pids : BstLookup(tree, p) = Null
    BY <1>1 DEF BstLookup, Path, Visited
  <1> QED BY <1>3, <1>4 DEF RangesInv, ImageOf, CacheOf

\* Each operation, seen through BstLookup, is one of ProcessRegistry.
RegistryStep ==
    \/ \E p \in Pids :
          \/ \E name \in Images :
                /\ ImageOf(tree)[p] = NoImage
                /\ ImageOf(tree)' = [ImageOf(tree) EXCEPT ![p] = name]
                /\ CacheOf(tree)' = [CacheOf(tree) EXCEPT ![p] = "Empty"]
          \/ /\ ImageOf(tree)' = [ImageOf(tree) EXCEPT ![p] = NoImage]
             /\ CacheOf(tree)' = [CacheOf(tree) EXCEPT ![p] = "Empty"]
          \/ \E verdict \in Verdicts :
                /\ ImageOf(tree)[p] # NoImage /\ CacheOf(tree)[p] = "Empty"
                /\ ImageOf(tree)' = ImageOf(tree)
                /\ CacheOf(tree)' = [CacheOf(tree) EXCEPT ![p] = verdict]
    \/ ImageOf(tree)' = ImageOf(tree) /\ CacheOf(tree)' = [p \in Pids |-> "Empty"]

LEMMA OperationStep ==
    ASSUME RangesInv, Next
    PROVE  RangesInv' /\ RegistryStep
  <1>1. PICK lo, hi : Ranges(tree, lo, hi)
    BY DEF RangesInv
  <1>2. ASSUME NEW p \in Pids, NEW name \in Images, Register(p, name)
        PROVE  RangesInv' /\ RegistryStep
    <2>1. PICK a \in Addresses \ Allocated(tree) :
             tree' = BstInsert(tree, a, BstNewNode(p, name))
      BY <1>2 DEF Register
    <2>2. BstLookup(tree, p) = Null
      BY <1>2 DEF Register
    <2>3. /\ \E lo2, hi2 : Ranges(tree', lo2, hi2)
          /\ ImageOf(tree') = [ImageOf(tree) EXCEPT ![p] = name]
          /\ CacheOf(tree') = [CacheOf(tree) EXCEPT ![p] = "Empty"]
      BY <1>1, <2>1, <2>2, RegisterStep
    <2>4. RangesInv'
      BY <2>3 DEF RangesInv
    <2>5. ImageOf(tree)[p] = NoImage
      BY <2>2 DEF ImageOf
    <2> QED BY <2>3, <2>4, <2>5 DEF RegistryStep
  <1>3. ASSUME NEW p \in Pids, Unregister(p)
        PROVE  RangesInv' /\ RegistryStep
    <2>1. /\ \E lo2, hi2 : Ranges(tree', lo2, hi2)
          /\ ImageOf(tree') = [ImageOf(tree) EXCEPT ![p] = NoImage]
          /\ CacheOf(tree') = [CacheOf(tree) EXCEPT ![p] = "Empty"]
      BY <1>1, <1>3, UnregisterStep DEF Unregister
    <2>2. RangesInv'
      BY <2>1 DEF RangesInv
    <2> QED BY <2>1, <2>2 DEF RegistryStep
  <1>4. ASSUME NEW p \in Pids, NEW verdict \in Verdicts, Check(p, verdict)
        PROVE  RangesInv' /\ RegistryStep
    <2> DEFINE n == BstLookup(tree, p)
    <2>1. n # Null /\ Cache(tree, n) = "Empty" /\ tree' = [tree EXCEPT !.nodes[n].cache = verdict]
      BY <1>4 DEF Check, Cache
    <2>2. /\ Ranges(tree', lo, hi) /\ ImageOf(tree') = ImageOf(tree)
          /\ CacheOf(tree') = [CacheOf(tree) EXCEPT ![p] = verdict]
      BY <1>1, <2>1, CheckStep
    <2>3. RangesInv'
      BY <2>2 DEF RangesInv
    <2>4. ImageOf(tree)[p] # NoImage /\ CacheOf(tree)[p] = "Empty"
      BY <1>1, <2>1, RegistryTypes DEF ImageOf, CacheOf
    <2> QED BY <2>2, <2>3, <2>4 DEF RegistryStep
  <1>5. ASSUME Flush PROVE RangesInv' /\ RegistryStep
    <2>1. /\ Ranges(tree', lo, hi) /\ ImageOf(tree') = ImageOf(tree)
          /\ CacheOf(tree') = [p \in Pids |-> "Empty"]
      BY <1>1, <1>5, FlushStep DEF Flush
    <2>2. RangesInv'
      BY <2>1 DEF RangesInv
    <2> QED BY <2>1, <2>2 DEF RegistryStep
  <1> QED BY <1>2, <1>3, <1>4, <1>5 DEF Next

\* The intervals fit together in every state: the invariant from which all else follows.
THEOREM RangesFit == Spec => []RangesInv
  <1>1. Init => RangesInv
    BY RangesInitially
  <1>2. RangesInv /\ [Next]_tree => RangesInv'
    <2>1. ASSUME RangesInv, tree' = tree PROVE RangesInv'
      BY <2>1 DEF RangesInv
    <2> QED BY <2>1, OperationStep
  <1> QED BY <1>1, <1>2, PTL DEF Spec

\* Below a pointer lie only nodes whose intervals are on its side of the pid.
LEMMA Searchable ==
    ASSUME NEW t, NEW lo, NEW hi, Ranges(t, lo, hi), NEW a \in Allocated(t)
    PROVE  /\ \A b \in Below(t, Left(t, a))  : Pid(t, b) < Pid(t, a)
           /\ \A b \in Below(t, Right(t, a)) : Pid(t, b) > Pid(t, a)
  <1> DEFINE next == [b \in Allocated(t) |-> {t.nodes[b].left, t.nodes[b].right}]
             L == {b \in Allocated(t) : hi[b] <= Pid(t, a)}
             R == {b \in Allocated(t) : Pid(t, a) <= lo[b]}
  <1>1. ASSUME NEW b \in Allocated(t)
        PROVE  /\ Pid(t, b) \in Int /\ lo[b] \in Int /\ hi[b] \in Int /\ Pid(t, a) \in Int
               /\ lo[b] < Pid(t, b) /\ Pid(t, b) < hi[b]
               /\ next[b] = {Left(t, b), Right(t, b)}
    BY Numbers DEF Left, Right
  <1>2. Below(t, Left(t, a)) \subseteq L
    <2>1. {Left(t, a)} \subseteq L \union {Null}
      BY <1>1, Children
    <2>2. ASSUME NEW b \in L PROVE next[b] \subseteq L \union {Null}
      <3>1. Left(t, b) \in L \union {Null} /\ Right(t, b) \in L \union {Null}
        BY <1>1, Children
      <3>2. next[b] = {Left(t, b), Right(t, b)}
        BY <1>1
      <3> HIDE DEF L, next
      <3> QED BY <3>1, <3>2
    <2>3. L \in SUBSET Allocated(t)
      OBVIOUS
    <2>4. Below(t, Left(t, a)) = Visited(t, {Left(t, a)}, next)
      BY DEF Below
    <2> HIDE DEF L, next
    <2> QED BY <2>1, <2>2, <2>3, <2>4, VisitedWithin
  <1>3. Below(t, Right(t, a)) \subseteq R
    <2>1. {Right(t, a)} \subseteq R \union {Null}
      BY <1>1, Children
    <2>2. ASSUME NEW b \in R PROVE next[b] \subseteq R \union {Null}
      <3>1. Left(t, b) \in R \union {Null} /\ Right(t, b) \in R \union {Null}
        BY <1>1, Children
      <3>2. next[b] = {Left(t, b), Right(t, b)}
        BY <1>1
      <3> HIDE DEF R, next
      <3> QED BY <3>1, <3>2
    <2>3. R \in SUBSET Allocated(t)
      OBVIOUS
    <2>4. Below(t, Right(t, a)) = Visited(t, {Right(t, a)}, next)
      BY DEF Below
    <2> HIDE DEF R, next
    <2> QED BY <2>1, <2>2, <2>3, <2>4, VisitedWithin
  <1> QED BY <1>1, <1>2, <1>3

\* Whatever the order in which processes come and go, and wherever the pool puts their nodes,
\* lower pids are on the left and higher pids on the right (Config.c, the Bst functions).
THEOREM StaysSearchTree == Spec => []SearchTree
  <1>1. RangesInv => SearchTree
    BY Searchable DEF RangesInv, SearchTree, Pid, Left, Right
  <1> QED BY <1>1, RangesFit, PTL

\* Every node allocated is found under its pid: deletion leaves none behind.
THEOREM LosesNothing == Spec => []NothingLost
  <1>1. RangesInv => NothingLost
    <2> SUFFICES ASSUME NEW lo, NEW hi, Ranges(tree, lo, hi), NEW a \in Allocated(tree)
                 PROVE  BstLookup(tree, tree.nodes[a].pid) = a
      BY DEF RangesInv, NothingLost
    <2>1. Pid(tree, a) \in 0 .. MaxPid
      BY NodeFacts, PidIsUlong DEF Ranges
    <2> QED BY <2>1, LookupFinds DEF Pid
  <1> QED BY <1>1, RangesFit, PTL

\* Seen through BstLookup, the tree is the map of ProcessRegistry.
THEOREM TreeImplementsRegistry == Spec => ImplementsRegistry
  <1> DEFINE image == [p \in Pids |-> IF NodeOf(p) = Null THEN NoImage
                                                         ELSE tree.nodes[NodeOf(p)].name]
             cache == [p \in Pids |-> IF NodeOf(p) = Null THEN "Empty"
                                                         ELSE tree.nodes[NodeOf(p)].cache]
  <1>1. image = ImageOf(tree) /\ cache = CacheOf(tree)
    BY DEF ImageOf, CacheOf, NodeOf, Name, Cache
  <1>2. image' = ImageOf(tree)' /\ cache' = CacheOf(tree)'
    BY DEF ImageOf, CacheOf, NodeOf, Name, Cache
  <1>3. Init => Registry!Init
    BY <1>1, RangesInitially DEF Registry!Init
  <1>4. RangesInv /\ [Next]_tree => [Registry!Next]_<<image, cache>>
    <2> SUFFICES ASSUME RangesInv, [Next]_tree PROVE [Registry!Next]_<<image, cache>>
      OBVIOUS
    <2>1. CASE tree' = tree
      BY <1>1, <1>2, <2>1
    <2>2. CASE Next
      <3>1. RegistryStep
        BY <2>2, OperationStep
      <3>2. ASSUME NEW p \in Pids, NEW name \in Images, ImageOf(tree)[p] = NoImage,
                   ImageOf(tree)' = [ImageOf(tree) EXCEPT ![p] = name],
                   CacheOf(tree)' = [CacheOf(tree) EXCEPT ![p] = "Empty"]
            PROVE  Registry!Next
        <4>1. Registry!Register(p, name)
          BY <1>1, <1>2, <3>2 DEF Registry!Register, Registry!Known
        <4> QED BY <4>1 DEF Registry!Next
      <3>3. ASSUME NEW p \in Pids, ImageOf(tree)' = [ImageOf(tree) EXCEPT ![p] = NoImage],
                   CacheOf(tree)' = [CacheOf(tree) EXCEPT ![p] = "Empty"]
            PROVE  Registry!Next
        <4>1. Registry!Unregister(p)
          BY <1>1, <1>2, <3>3 DEF Registry!Unregister
        <4> QED BY <4>1 DEF Registry!Next
      <3>4. ASSUME NEW p \in Pids, NEW verdict \in Verdicts,
                   ImageOf(tree)[p] # NoImage, CacheOf(tree)[p] = "Empty",
                   ImageOf(tree)' = ImageOf(tree),
                   CacheOf(tree)' = [CacheOf(tree) EXCEPT ![p] = verdict]
            PROVE  Registry!Next
        <4>1. Registry!Evaluate(p, verdict)
          BY <1>1, <1>2, <3>4 DEF Registry!Evaluate, Registry!Known
        <4> QED BY <4>1 DEF Registry!Next, Verdicts
      <3>5. ASSUME ImageOf(tree)' = ImageOf(tree), CacheOf(tree)' = [p \in Pids |-> "Empty"]
            PROVE  Registry!Next
        <4>1. Registry!Flush
          BY <1>1, <1>2, <3>5 DEF Registry!Flush
        <4> QED BY <4>1 DEF Registry!Next
      <3> QED BY <3>1, <3>2, <3>3, <3>4, <3>5 DEF RegistryStep
    <2> QED BY <2>1, <2>2
  <1> QED BY <1>3, <1>4, RangesFit, PTL DEF Spec, ImplementsRegistry, Registry!Spec
================================================================================
