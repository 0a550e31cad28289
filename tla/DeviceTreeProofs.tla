----------------------------- MODULE DeviceTreeProofs -----------------------------
(***************************************************************************)
(* What DeviceTree promises for any machine and any sequence of arrivals,  *)
(* removals and clicks: a top-level item that was not clicked in vain is   *)
(* checked like its devices, tree and blacklist agree, the blacklist that a*)
(* click rebuilds keeps what the click has not unchecked, and a device that*)
(* arrives gets its item.                                                  *)
(*                                                                         *)
(* The argument is that groups partition the enumerated devices, that the  *)
(* tree and its top-level checks hold a group entirely or not at all, and  *)
(* that the devices a click is about to change all change the same way.    *)
(***************************************************************************)
EXTENDS DeviceTree, FiniteSetTheorems, TLAPS

PresentToTheRoot == \A n \in present : Ancestors[n] \subseteq present

GroupsAreWhole ==
    \A h \in shown : \A k \in Group(h, rows) :
        k \in shown /\ (h \in parents => k \in parents) /\ (h \in vain => k \in vain)

\* Items are about to be checked with their top-level item, or unchecked with it.
ClickUnderWay ==
    /\ todo \intersect vain = {}
    /\ \/ todo \subseteq parents /\ todo \intersect ticked = {}
       \/ todo \intersect parents = {} /\ todo \subseteq ticked

TreeInv ==
    /\ TypeOK /\ PresentToTheRoot /\ GroupsAreWhole /\ ClickUnderWay
    /\ ParentRowMeansAll /\ TreeShowsBlacklist
--------------------------------------------------------------------------------
(* The recursions over the parents *)

\* The nodes on the way up from n that go describes: the least set with n and, with a
\* node, the one that go leads to.
Way(go, n) ==
    {m \in Nodes : \A S \in SUBSET Nodes :
        n \in S /\ (\A k \in S : go[k] \in S \union {NoNode}) => m \in S}

\* A way is its first node and the rest of it.
LEMMA WayEquation ==
    ASSUME NEW go \in [Nodes -> Nodes \union {NoNode}], NEW n \in Nodes
    PROVE  Way(go, n) = {n} \union IF go[n] = NoNode THEN {} ELSE Way(go, go[n])
  <1> DEFINE Closed(S) == \A k \in S : go[k] \in S \union {NoNode}
             Rest == IF go[n] = NoNode THEN {} ELSE Way(go, go[n])
  <1>1. n \in Way(go, n)
    BY DEF Way
  <1>2. Rest \subseteq Way(go, n)
    BY DEF Way
  <1>3. {n} \union Rest \in SUBSET Nodes
    BY DEF Way
  <1>4. Closed({n} \union Rest)
    <2>1. go[n] \in Rest \union {NoNode}
      BY DEF Way
    <2>2. ASSUME NEW k \in Rest PROVE go[k] \in Rest \union {NoNode}
      BY <2>2 DEF Way
    <2> QED BY <2>1, <2>2
  <1>5. Way(go, n) \subseteq {n} \union Rest
    <2> HIDE DEF Rest
    <2> QED BY <1>3, <1>4 DEF Way
  <1> QED BY <1>1, <1>2, <1>5

\* The recursive functions are defined: each has a solution, which ways give.
LEMMA AncestorsEquation == \A n \in Nodes : Ancestors[n] = AncestorsFrom(Ancestors, n)
  <1> DEFINE g == [n \in Nodes |-> Way(Parent, n)]
  <1>1. \A n \in Nodes : Way(Parent, n) = AncestorsFrom(g, n)
    BY WayEquation, NodesAssumption DEF AncestorsFrom
  <1>2. \E f : f = [n \in Nodes |-> AncestorsFrom(f, n)]
    BY <1>1
  <1>3. Ancestors = [n \in Nodes |-> AncestorsFrom(Ancestors, n)]
    BY <1>2 DEF Ancestors
  <1> QED BY <1>3

OneOf(S) == CHOOSE m : m \in S

\* The topmost node of a way without a gap
LEMMA BaseContainerEquation ==
    \A n \in Nodes : BaseContainer[n] = BaseContainerFrom(BaseContainer, n)
  <1> DEFINE Same(n) == Parent[n] # NoNode /\ ContainerId[Parent[n]] = ContainerId[n]
             go == [n \in Nodes |-> IF Same(n) THEN Parent[n] ELSE NoNode]
             Tops(n) == {m \in Way(go, n) : ~Same(m)}
             g == [n \in Nodes |-> IF ContainerId[n] = NoContainerId THEN NoNode
                                   ELSE OneOf(Tops(n))]
  <1>1. go \in [Nodes -> Nodes \union {NoNode}]
    BY NodesAssumption
  <1>2. ASSUME NEW n \in Nodes PROVE g[n] = BaseContainerFrom(g, n)
    <2>1. CASE Same(n)
      <3>1. Parent[n] \in Nodes
        BY <2>1, NodesAssumption
      <3>2. Way(go, n) = {n} \union Way(go, Parent[n])
        BY <1>1, <2>1, <3>1, WayEquation, NodesAssumption
      <3>3. Tops(n) = Tops(Parent[n])
        BY <2>1, <3>2
      <3> HIDE DEF Tops, go
      <3> QED BY <2>1, <3>1, <3>3 DEF BaseContainerFrom
    <2>2. CASE ~Same(n)
      <3>1. Way(go, n) = {n}
        BY <1>1, <2>2, WayEquation
      <3>2. Tops(n) = {n}
        BY <2>2, <3>1
      <3>3. OneOf({n}) = n
        BY DEF OneOf
      <3> HIDE DEF Tops
      <3> QED BY <2>2, <3>2, <3>3 DEF BaseContainerFrom
    <2> QED BY <2>1, <2>2
  <1>3. \E f : f = [n \in Nodes |-> BaseContainerFrom(f, n)]
    <2> HIDE DEF Tops
    <2>1. g = [n \in Nodes |-> BaseContainerFrom(g, n)]
      BY <1>2
    <2> QED BY <2>1
  <1>4. Topmost = [n \in Nodes |-> BaseContainerFrom(Topmost, n)]
    BY <1>3 DEF Topmost
  <1>5. \A n \in Nodes : BaseContainer[n] = Topmost[n]
    BY DEF BaseContainer
  <1>6. \A n \in Nodes : Topmost[n] = BaseContainerFrom(Topmost, n)
    BY <1>4
  <1> QED BY <1>5, <1>6, NodesAssumption DEF BaseContainerFrom

\* The node of a way that ends it for its interface
LEMMA XusbEquation == \A n \in Nodes : Xusb[n] = XusbFrom(Xusb, n)
  <1> DEFINE go == [n \in Nodes |-> IF n \in XusbInterface THEN NoNode ELSE Parent[n]]
             Hits(n) == Way(go, n) \intersect XusbInterface
             g == [n \in Nodes |-> IF Hits(n) = {} THEN NoNode ELSE OneOf(Hits(n))]
  <1>1. go \in [Nodes -> Nodes \union {NoNode}]
    BY NodesAssumption
  <1>2. ASSUME NEW n \in Nodes PROVE g[n] = XusbFrom(g, n)
    <2>1. CASE n \in XusbInterface
      <3>1. Way(go, n) = {n}
        BY <1>1, <2>1, WayEquation
      <3>2. Hits(n) = {n}
        BY <2>1, <3>1
      <3>3. OneOf({n}) = n
        BY DEF OneOf
      <3> HIDE DEF Hits
      <3> QED BY <2>1, <3>2, <3>3 DEF XusbFrom
    <2>2. CASE n \notin XusbInterface /\ Parent[n] = NoNode
      <3>1. Way(go, n) = {n}
        BY <1>1, <2>2, WayEquation
      <3>2. Hits(n) = {}
        BY <2>2, <3>1
      <3> HIDE DEF Hits
      <3> QED BY <2>2, <3>2 DEF XusbFrom
    <2>3. CASE n \notin XusbInterface /\ Parent[n] # NoNode
      <3>1. Parent[n] \in Nodes
        BY <2>3, NodesAssumption
      <3>2. Way(go, n) = {n} \union Way(go, Parent[n])
        BY <1>1, <2>3, <3>1, WayEquation, NodesAssumption
      <3>3. Hits(n) = Hits(Parent[n])
        BY <2>3, <3>2
      <3> HIDE DEF Hits, go
      <3> QED BY <2>3, <3>1, <3>3 DEF XusbFrom
    <2> QED BY <2>1, <2>2, <2>3
  <1>3. \E f : f = [n \in Nodes |-> XusbFrom(f, n)]
    <2> HIDE DEF Hits
    <2>1. g = [n \in Nodes |-> XusbFrom(g, n)]
      BY <1>2
    <2> QED BY <2>1
  <1>4. NearestXusb = [n \in Nodes |-> XusbFrom(NearestXusb, n)]
    BY <1>3 DEF NearestXusb
  <1>5. \A n \in Nodes : Xusb[n] = NearestXusb[n]
    BY DEF Xusb
  <1>6. \A n \in Nodes : NearestXusb[n] = XusbFrom(NearestXusb, n)
    BY <1>4
  <1> QED BY <1>5, <1>6, NodesAssumption DEF XusbFrom
--------------------------------------------------------------------------------
(* Device nodes *)

\* An ancestor's ancestors are ancestors.
LEMMA AncestorsTransitive ==
    \A n \in Nodes : \A k \in Ancestors[n] : Ancestors[k] \subseteq Ancestors[n]
  <1> DEFINE Bad == {n \in Nodes : \E k \in Ancestors[n] : ~(Ancestors[k] \subseteq Ancestors[n])}
  <1> SUFFICES ASSUME Bad # {} PROVE FALSE
    OBVIOUS
  <1>1. PICK n \in Bad : Parent[n] \notin Bad
    BY ParentsAssumption
  <1>2. n \in Nodes /\ Ancestors[n] = AncestorsFrom(Ancestors, n)
    BY <1>1, AncestorsEquation
  <1>3. PICK k \in Ancestors[n] : ~(Ancestors[k] \subseteq Ancestors[n])
    BY <1>1
  <1>4. /\ Parent[n] # NoNode /\ k \in Ancestors[Parent[n]]
        /\ Ancestors[Parent[n]] \subseteq Ancestors[n]
    BY <1>2, <1>3 DEF AncestorsFrom
  <1>5. Parent[n] \in Nodes \ Bad
    BY <1>1, <1>2, <1>4, NodesAssumption
  <1> QED BY <1>3, <1>4, <1>5

\* A base container is its own base container: no gap lies above it.
LEMMA BaseContainerTwice ==
    \A n \in Nodes : /\ BaseContainer[n] \in Nodes \union {NoNode}
                     /\ BaseContainer[n] # NoNode
                           => BaseContainer[BaseContainer[n]] = BaseContainer[n]
  <1> DEFINE Bad == {n \in Nodes : ~ /\ BaseContainer[n] \in Nodes \union {NoNode}
                                     /\ BaseContainer[n] # NoNode
                                          => BaseContainer[BaseContainer[n]] = BaseContainer[n]}
  <1> SUFFICES ASSUME Bad # {} PROVE FALSE
    OBVIOUS
  <1>1. PICK n \in Bad : Parent[n] \notin Bad
    BY ParentsAssumption
  <1>2. n \in Nodes /\ BaseContainer[n] = BaseContainerFrom(BaseContainer, n)
    BY <1>1, BaseContainerEquation
  <1>3. CASE ContainerId[n] = NoContainerId
    BY <1>1, <1>2, <1>3 DEF BaseContainerFrom
  <1>4. CASE /\ ContainerId[n] # NoContainerId /\ Parent[n] # NoNode
             /\ ContainerId[Parent[n]] = ContainerId[n]
    <2>1. BaseContainer[n] = BaseContainer[Parent[n]]
      BY <1>2, <1>4 DEF BaseContainerFrom
    <2>2. Parent[n] \in Nodes \ Bad
      BY <1>1, <1>2, <1>4, NodesAssumption
    <2> QED BY <1>1, <2>1, <2>2
  <1>5. CASE /\ ContainerId[n] # NoContainerId
             /\ ~(Parent[n] # NoNode /\ ContainerId[Parent[n]] = ContainerId[n])
    <2>1. BaseContainer[n] = n
      BY <1>2, <1>5 DEF BaseContainerFrom
    <2> QED BY <1>1, <1>2, <2>1
  <1> QED BY <1>3, <1>4, <1>5

\* The ancestor that is found has the XUSB interface.
LEMMA XusbHasInterface == \A n \in Nodes : Xusb[n] \in XusbInterface \union {NoNode}
  <1> DEFINE Bad == {n \in Nodes : Xusb[n] \notin XusbInterface \union {NoNode}}
  <1> SUFFICES ASSUME Bad # {} PROVE FALSE
    OBVIOUS
  <1>1. PICK n \in Bad : Parent[n] \notin Bad
    BY ParentsAssumption
  <1>2. n \in Nodes /\ Xusb[n] = XusbFrom(Xusb, n)
    BY <1>1, XusbEquation
  <1>3. n \notin XusbInterface /\ Parent[n] # NoNode /\ Xusb[n] = Xusb[Parent[n]]
    BY <1>1, <1>2 DEF XusbFrom
  <1>4. Parent[n] \in Nodes \ Bad
    BY <1>1, <1>2, <1>3, NodesAssumption
  <1> QED BY <1>1, <1>3, <1>4

\* The groups partition the devices.
LEMMA GroupsPartition ==
    ASSUME NEW devices, NEW h \in devices, NEW k \in devices
    PROVE  /\ h \in Group(h, devices) /\ Group(h, devices) \subseteq devices
           /\ k \in Group(h, devices) => Group(k, devices) = Group(h, devices)
           /\ k \notin Group(h, devices) => Group(k, devices) \intersect Group(h, devices) = {}
  BY DEF Group
--------------------------------------------------------------------------------
(* Steps *)

LEMMA TreeInit == Init => TreeInv
  <1> SUFFICES ASSUME Init PROVE TreeInv
    OBVIOUS
  <1>1. filter \in Filters /\ count \in [Nodes -> Nat]
    BY DEF Init, Filters
  <1>2. {visible, arrived, pending} \subseteq BOOLEAN
    BY DEF Init
  <1>3. present \subseteq known /\ known \subseteq Nodes
    BY DEF Init
  <1>4. TypeOK
    BY <1>1, <1>2, <1>3 DEF Init, TypeOK
  <1> QED BY <1>4 DEF TreeInv, PresentToTheRoot, GroupsAreWhole, ClickUnderWay,
                      ParentRowMeansAll, TreeShowsBlacklist, Init

\* A refresh shows a group entirely or not at all, and checks it as the blacklist says.
LEMMA RefreshStep ==
    ASSUME TreeInv, OnUserMessageRefresh
    PROVE  TreeInv'
  <1> DEFINE G(h) == Group(h, rows')
  <1>1. /\ TypeOK /\ pending' = FALSE
        /\ rows' = HidInterface \intersect known
        /\ count' = [n \in Nodes |-> BaseContainerDeviceCount(n)]
        /\ UNCHANGED <<known, present, bl, filter, visible, arrived>>
        /\ parents' = {h \in shown' : TopLevelBlacklisted(G(h)) \/ G(h) \subseteq bl}
        /\ ticked' = {h \in shown' : TopLevelBlacklisted(G(h)) \/ h \in bl}
        /\ todo' = {} /\ vain' = {} /\ collapsed' = {}
    BY DEF TreeInv, OnUserMessageRefresh, IterateAllHidDevicesPresentOrNotPresent,
           machineVars, dialogVars
  <1>2. PICK gaming \in MayReportGaming : shown' = {h \in rows' : Shown(G(h), gaming)}
    BY DEF OnUserMessageRefresh, IterateAllHidDevicesPresentOrNotPresent
  <1>3. TypeOK'
    <2>1. count' \in [Nodes -> Nat]
      <3>1. ASSUME NEW n \in Nodes PROVE BaseContainerDeviceCount(n) \in Nat
        <4>1. IsFiniteSet({m \in present : Parent[m] = n})
          BY <1>1, NodesAssumption, FS_Subset DEF TypeOK
        <4> QED BY <4>1, FS_CardinalityType DEF BaseContainerDeviceCount
      <3> QED BY <1>1, <3>1
    <2>2. {visible', arrived', pending'} \subseteq BOOLEAN
      BY <1>1 DEF TypeOK
    <2>3. /\ rows' \subseteq HidInterface /\ shown' \subseteq rows'
          /\ parents' \subseteq shown' /\ ticked' \subseteq shown'
      BY <1>1, <1>2
    <2> QED BY <1>1, <2>1, <2>2, <2>3 DEF TypeOK
  <1>4. ASSUME NEW h \in shown', NEW k \in G(h)
        PROVE  G(k) = G(h) /\ k \in shown' /\ (h \in parents' => k \in parents')
    BY <1>1, <1>2, GroupsPartition
  <1>5. ASSUME NEW h \in shown'
        PROVE  h \in parents' <=> G(h) \subseteq ticked'
    <2>1. CASE TopLevelBlacklisted(G(h))
      BY <1>1, <1>4, <2>1
    <2>2. CASE ~TopLevelBlacklisted(G(h))
      BY <1>1, <1>4, <2>2
    <2> QED BY <2>1, <2>2
  <1>6. ASSUME NEW h \in rows' \intersect bl
        PROVE  h \in ticked'
    <2>1. h \in G(h)
      BY GroupsPartition
    <2>2. Shown(G(h), gaming)
      BY <2>1 DEF Shown
    <2> QED BY <1>1, <1>2, <2>2
  <1>7. \A h \in ticked' : h \in bl' \/ TopLevelBlacklisted(Group(h, rows))'
    BY <1>1 DEF TopLevelBlacklisted, Group
  <1>8. ASSUME NEW h \in rows', NEW n \in {BaseContainer[h], Xusb[h]} \intersect bl
        PROVE  h \in ticked'
    <2>1. TopLevelBlacklisted(G(h))
      BY GroupsPartition DEF TopLevelBlacklisted
    <2> QED BY <1>1, <1>2, <2>1 DEF Shown
  <1>9. TreeShowsBlacklist'
    BY <1>1, <1>6, <1>7, <1>8 DEF TreeShowsBlacklist
  <1>10. GroupsAreWhole' /\ ClickUnderWay'
    BY <1>1, <1>4 DEF GroupsAreWhole, ClickUnderWay
  <1>11. PresentToTheRoot' /\ ParentRowMeansAll'
    BY <1>1, <1>5 DEF TreeInv, PresentToTheRoot, ParentRowMeansAll
  <1> QED BY <1>3, <1>9, <1>10, <1>11 DEF TreeInv

\* Checks of items, some of them about to be, that treat groups as a whole, but for odd ones
Coherent(top, own, rest, odd) ==
    /\ top \subseteq shown /\ own \subseteq shown /\ rest \subseteq shown /\ odd \subseteq shown
    /\ \A h \in shown : \A k \in Group(h, rows) :
          k \in shown /\ (h \in top => k \in top) /\ (h \in odd => k \in odd)
    /\ \A h \in shown \ odd : h \in top <=> Group(h, rows) \subseteq own \union rest
    /\ rest \intersect odd = {}
    /\ \/ rest \subseteq top /\ rest \intersect own = {}
       \/ rest \intersect top = {} /\ rest \subseteq own

\* A blacklist of nodes, all of them of items that are checked, about to be, or odd
Accounted(list, own, rest, odd) ==
    /\ list \subseteq Nodes
    /\ own \subseteq list
    /\ \A n \in list : \E k \in own \union rest \union odd : n \in {k, BaseContainer[k], Xusb[k]}
    /\ \A n \in rows \intersect list : n \in own \/ \E k \in rest \union odd : n = BaseContainer[k]

\* The blacklist that is chosen from the checked items names devices, base containers and
\* XUSB nodes of theirs.
LEMMA ChosenNodes ==
    ASSUME TypeOK, NEW top, NEW own, NEW rest, NEW odd, Coherent(top, own, rest, odd)
    PROVE  Accounted(Chosen(top, own), own, rest, odd)
  <1> USE DEF Coherent
  <1>1. shown \subseteq rows /\ rows \subseteq Nodes /\ NoNode \notin Nodes
        /\ rows \intersect XusbInterface = {} /\ XusbInterface \subseteq Nodes
    BY NodesAssumption DEF TypeOK
  <1>2. ASSUME NEW k \in shown
        PROVE  /\ BaseContainer[k] \in Nodes \union {NoNode}
               /\ Xusb[k] \in XusbInterface \union {NoNode}
    BY <1>1, <1>2, BaseContainerTwice, XusbHasInterface
  <1>3. ASSUME NEW h \in top
        PROVE  /\ First(Group(h, rows)) \in shown
               /\ h \in own \union rest \union odd
               /\ First(Group(h, rows)) \in own \union rest \union odd
    <2>1. h \in Group(h, rows)
      BY DEF Group
    <2>2. First(Group(h, rows)) \in Group(h, rows)
      BY <2>1 DEF First
    <2> HIDE DEF First
    <2> QED BY <2>1, <2>2
  <1> HIDE DEF First
  <1>4. ASSUME NEW n \in Chosen(top, own)
        PROVE  /\ n # NoNode
               /\ \/ \E h \in top : n = BaseContainer[h]
                  \/ \E k \in own \union rest \union odd : k \in shown /\ n = Xusb[k]
                  \/ n \in own
    BY <1>3 DEF Chosen
  <1>5. Chosen(top, own) \subseteq Nodes
    BY <1>1, <1>2, <1>4
  <1>6. own \subseteq Chosen(top, own)
    BY <1>1 DEF Chosen
  <1>7. \A n \in Chosen(top, own) : \E k \in own \union rest \union odd :
           n \in {k, BaseContainer[k], Xusb[k]}
    BY <1>3, <1>4
  <1>8. ASSUME NEW n \in rows \intersect Chosen(top, own), n \notin own
        PROVE  \E k \in rest \union odd : n = BaseContainer[k]
    <2>1. PICK h \in top : n = BaseContainer[h]
      BY <1>1, <1>2, <1>4, <1>8
    <2>2. BaseContainer[n] = n /\ n # NoNode
      BY <1>1, <1>4, <2>1, BaseContainerTwice
    <2>3. n \in Group(h, rows)
      BY <2>1, <2>2 DEF Group
    <2>4. n \in own \union rest \union odd
      BY <2>3
    <2> QED BY <1>8, <2>2, <2>4
  <1> QED BY <1>5, <1>6, <1>7, <1>8 DEF Accounted

\* One run of the handler, in the middle of a click or at its end
LEMMA WriteStep ==
    ASSUME TreeInv, NEW top, NEW own, NEW rest, Write(top, own, rest),
           Coherent(top, own, rest, vain')
    PROVE  TreeInv'
  <1>1. /\ TypeOK /\ parents' = top /\ ticked' = own /\ todo' = rest /\ bl' = Chosen(top, own)
        /\ UNCHANGED <<known, present, rows, count, shown, collapsed, filter, visible,
                       arrived, pending>>
    BY DEF TreeInv, Write, machineVars, filledVars, dialogVars
  <1>2. Accounted(Chosen(top, own), own, rest, vain')
    BY <1>1, ChosenNodes
  <1> HIDE DEF Chosen
  <1>3. TypeOK'
    BY <1>1, <1>2 DEF TypeOK, Coherent, Accounted
  <1>4. PresentToTheRoot'
    BY <1>1 DEF TreeInv, PresentToTheRoot
  <1>5. GroupsAreWhole'
    BY <1>1 DEF GroupsAreWhole, Group, Coherent
  <1>6. ClickUnderWay'
    BY <1>1 DEF ClickUnderWay, Coherent
  <1>7. ParentRowMeansAll'
    BY <1>1 DEF ParentRowMeansAll, Group, Coherent
  <1>8. TreeShowsBlacklist'
    BY <1>1, <1>2 DEF TreeShowsBlacklist, LooseContainers, Accounted
  <1> QED BY <1>3, <1>4, <1>5, <1>6, <1>7, <1>8 DEF TreeInv

\* The groups of the items in the tree, and that between two clicks no change is due
LEMMA Items ==
    ASSUME TreeInv, NEW h \in shown
    PROVE  /\ parents \subseteq shown /\ ticked \subseteq shown /\ vain \subseteq shown
           /\ h \in Group(h, rows) /\ Group(h, rows) \subseteq shown
           /\ \A k \in shown :
                 /\ k \in Group(k, rows)
                 /\ k \in Group(h, rows) => Group(k, rows) = Group(h, rows)
                 /\ k \notin Group(h, rows) => Group(k, rows) \intersect Group(h, rows) = {}
           /\ \A k \in shown : \A m \in Group(k, rows) :
                 m \in shown /\ (k \in parents => m \in parents) /\ (k \in vain => m \in vain)
           /\ \A k \in shown \ vain :
                 k \in parents <=> Group(k, rows) \subseteq ticked \union todo
  <1>1. shown \subseteq rows
    BY DEF TreeInv, TypeOK
  <1> QED BY <1>1, GroupsPartition DEF TreeInv, TypeOK, GroupsAreWhole, ParentRowMeansAll

LEMMA TopLevelStep ==
    ASSUME TreeInv, NEW h \in shown, ClickTopLevel(h)
    PROVE  TreeInv'
  <1> DEFINE group == Group(h, rows)
  <1>1. todo = {} /\ vain' = vain \ group
    BY DEF ClickTopLevel, Input
  <1>2. CASE h \in parents
    <2>1. PICK done \in SUBSET (group \intersect ticked) :
             /\ group \intersect ticked # {} => done # {}
             /\ Write(parents \ group, Toggled({} \union done),
                      (group \intersect ticked) \ done)
      BY <1>2 DEF ClickTopLevel, ToggleChildren
    <2>2. Toggled({} \union done) = ticked \ done
      BY DEF Toggled
    <2>3. \A k \in shown \ vain' :
             k \in parents \ group
               <=> Group(k, rows)
                     \subseteq (ticked \ done) \union ((group \intersect ticked) \ done)
      <3>1. CASE group \intersect ticked = {}
        BY <1>1, <2>1, <3>1, Items
      <3>2. CASE group \intersect ticked # {}
        BY <1>1, <2>1, <3>2, Items
      <3> QED BY <3>1, <3>2
    <2>4. \A k \in shown : \A m \in Group(k, rows) :
             /\ k \in parents \ group => m \in parents \ group
             /\ k \in vain' => m \in vain'
      BY <1>1, Items
    <2> HIDE DEF group
    <2> QED BY <1>1, <2>1, <2>2, <2>3, <2>4, Items, WriteStep DEF Coherent
  <1>3. CASE h \notin parents
    <2>1. PICK done \in SUBSET (group \ ticked) :
             Write(parents \union group, Toggled({} \union done), (group \ ticked) \ done)
      BY <1>3 DEF ClickTopLevel, ToggleChildren
    <2>2. Toggled({} \union done) = ticked \union done
      BY DEF Toggled
    <2>3. \A k \in shown \ vain' :
             k \in parents \union group
               <=> Group(k, rows) \subseteq (ticked \union done) \union ((group \ ticked) \ done)
      BY <1>1, <2>1, Items
    <2>4. \A k \in shown : \A m \in Group(k, rows) :
             /\ k \in parents \union group => m \in parents \union group
             /\ k \in vain' => m \in vain'
      BY <1>1, Items
    <2>5. group \subseteq shown
      BY Items
    <2> HIDE DEF group
    <2> QED BY <1>1, <2>1, <2>2, <2>3, <2>4, <2>5, Items, WriteStep DEF Coherent
  <1> QED BY <1>2, <1>3

\* A click in vain excepts the group from what the tree means.
LEMMA IgnoredStep ==
    ASSUME TreeInv, NEW h \in shown, ClickIgnored(h)
    PROVE  TreeInv'
  <1> DEFINE group == Group(h, rows)
  <1>1. /\ TypeOK /\ todo = {} /\ vain' = vain \union group
        /\ parents' = parents \ group \/ parents' = parents \union group
        /\ UNCHANGED <<known, present, bl, rows, count, shown, ticked, todo, collapsed,
                       filter, visible, arrived, pending>>
    BY DEF TreeInv, ClickIgnored, Input, machineVars, filledVars, dialogVars
  <1>2. TypeOK'
    BY <1>1, Items DEF TypeOK
  <1>3. GroupsAreWhole'
    <2>1. \A k \in shown : \A m \in Group(k, rows) :
             m \in shown /\ (k \in parents' => m \in parents') /\ (k \in vain' => m \in vain')
      BY <1>1, Items
    <2> QED BY <1>1, <2>1 DEF GroupsAreWhole, Group
  <1>4. ParentRowMeansAll'
    BY <1>1, Items DEF ParentRowMeansAll, Group
  <1>5. TreeShowsBlacklist'
    BY <1>1 DEF TreeInv, TreeShowsBlacklist, TopLevelBlacklisted, LooseContainers, Group
  <1> QED BY <1>1, <1>2, <1>3, <1>4, <1>5 DEF TreeInv, PresentToTheRoot, ClickUnderWay

\* The devices that are still to be changed are in no group that was clicked in vain, and
\* all in groups that are being checked or all in groups that are being unchecked.
LEMMA SetStep ==
    ASSUME TreeInv, NEW done \in SUBSET todo, SetDevices(done)
    PROVE  TreeInv'
  <1>1. /\ Write(parents, Toggled(done), todo \ done) /\ vain' = vain
        /\ todo \subseteq shown /\ parents \subseteq shown
        /\ ticked \subseteq shown /\ vain \subseteq shown
    BY DEF SetDevices, TreeInv, TypeOK
  <1>2. \A k \in shown : \A m \in Group(k, rows) :
           m \in shown /\ (k \in parents => m \in parents) /\ (k \in vain => m \in vain)
    BY Items
  <1>3. \A k \in shown \ vain : k \in parents <=> Group(k, rows) \subseteq ticked \union todo
    BY Items
  <1>4. CASE todo \subseteq parents /\ todo \intersect ticked = {}
    <2>1. Toggled(done) = ticked \union done
      BY <1>4 DEF Toggled
    <2>2. (ticked \union done) \union (todo \ done) = ticked \union todo
      OBVIOUS
    <2> QED BY <1>1, <1>2, <1>3, <1>4, <2>1, <2>2, WriteStep DEF TreeInv, ClickUnderWay, Coherent
  <1>5. CASE todo \intersect parents = {} /\ todo \subseteq ticked
    <2>1. Toggled(done) = ticked \ done
      BY <1>5 DEF Toggled
    <2>2. ASSUME NEW k \in shown \ vain
          PROVE  k \in parents <=> Group(k, rows) \subseteq (ticked \ done) \union (todo \ done)
      <3>1. CASE k \in parents
        BY <1>2, <1>3, <1>5, <3>1
      <3>2. CASE k \notin parents
        BY <1>3, <1>5, <3>2
      <3> QED BY <3>1, <3>2
    <2>3. (todo \ done) \intersect vain = {}
      BY DEF TreeInv, ClickUnderWay
    <2> QED BY <1>1, <1>2, <1>5, <2>1, <2>2, <2>3, WriteStep DEF Coherent
  <1> QED BY <1>4, <1>5 DEF TreeInv, ClickUnderWay

\* A device that is checked checks its group's item with the last one only.
LEMMA TickStep ==
    ASSUME TreeInv, NEW h \in shown, TickChild(h)
    PROVE  TreeInv'
  <1> DEFINE group == Group(h, rows)
             own == ticked \union {h}
  <1>1. /\ todo = {} /\ vain' = vain \ Completed(h, own)
        /\ Write(parents \union Completed(h, own), own, {})
    BY DEF TickChild, Input
  <1>2. \/ group \subseteq own /\ Completed(h, own) = group
        \/ ~(group \subseteq own) /\ Completed(h, own) = {}
    BY DEF Completed
  <1> HIDE DEF group
  <1>3. \A k \in shown \ vain' :
           k \in parents \union Completed(h, own) <=> Group(k, rows) \subseteq own \union {}
    <2>1. CASE group \subseteq own /\ Completed(h, own) = group
      BY <1>1, <2>1, Items DEF group
    <2>2. CASE ~(group \subseteq own) /\ Completed(h, own) = {}
      BY <1>1, <2>2, Items DEF group
    <2> QED BY <1>2, <2>1, <2>2
  <1>4. \A k \in shown : \A m \in Group(k, rows) :
           /\ m \in shown
           /\ k \in parents \union Completed(h, own) => m \in parents \union Completed(h, own)
           /\ k \in vain' => m \in vain'
    <2>1. CASE Completed(h, own) = group
      <3>1. vain' = vain \ group
        BY <1>1, <2>1
      <3> QED BY <2>1, <3>1, Items DEF group
    <2>2. CASE Completed(h, own) = {}
      BY <1>1, <2>2, Items
    <2> QED BY <1>2, <2>1, <2>2
  <1>5. /\ group \subseteq shown /\ own \subseteq shown
        /\ parents \subseteq shown /\ vain \subseteq shown
    BY Items DEF group
  <1>6. parents \union Completed(h, own) \subseteq shown /\ vain' \subseteq shown
    BY <1>1, <1>2, <1>5
  <1>7. Write(parents \union Completed(h, own), own, {})
    BY <1>1
  <1> HIDE DEF own
  <1> QED BY <1>3, <1>4, <1>5, <1>6, <1>7, WriteStep DEF Coherent

\* A device that is unchecked unchecks its group's item, and that may uncheck the others.
LEMMA UntickStep ==
    ASSUME TreeInv, NEW h \in shown, UntickChild(h)
    PROVE  TreeInv'
  <1> DEFINE group == Group(h, rows)
             others == (group \intersect ticked) \ {h}
  <1>1. todo = {} /\ h \in ticked /\ vain' = vain \ group
    BY DEF UntickChild, Input
  <1>2. PICK done, rest :
           /\ done \subseteq group \intersect ticked /\ h \in done
           /\ rest \subseteq (group \intersect ticked) \ done
           /\ Write(parents \ group, ticked \ done, rest)
    <2>1. CASE Write(parents \ group, ticked \ {h}, {})
      <3>1. h \in group
        BY Items
      <3> QED BY <1>1, <2>1, <3>1
    <2>2. CASE ToggleChildren(parents \ group, {h}, others)
      <3>1. PICK done \in SUBSET others :
               Write(parents \ group, Toggled({h} \union done), others \ done)
        BY <2>2 DEF ToggleChildren
      <3>2. Toggled({h} \union done) = ticked \ ({h} \union done)
        BY <1>1 DEF Toggled
      <3>3. others \ done = (group \intersect ticked) \ ({h} \union done)
        OBVIOUS
      <3>4. h \in group
        BY Items
      <3>5. {h} \union done \subseteq group \intersect ticked
        BY <1>1, <3>4
      <3> HIDE DEF group, others
      <3> QED BY <3>1, <3>2, <3>3, <3>5
    <2> QED BY <2>1, <2>2 DEF UntickChild
  <1>3. \A k \in shown \ vain' :
           k \in parents \ group <=> Group(k, rows) \subseteq (ticked \ done) \union rest
    BY <1>1, <1>2, Items
  <1>4. \A k \in shown : \A m \in Group(k, rows) :
           /\ k \in parents \ group => m \in parents \ group
           /\ k \in vain' => m \in vain'
    BY <1>1, Items
  <1>5. rest \subseteq ticked \ done /\ rest \subseteq group
    BY <1>2
  <1> HIDE DEF group
  <1> QED BY <1>1, <1>2, <1>3, <1>4, <1>5, Items, WriteStep DEF Coherent

\* Devices that come and go, and all that asks for a refresh, leave tree and blacklist
\* alone; so do items that are expanded or collapsed.
LEMMA QuietStep ==
    ASSUME TreeInv,
           \/ \E h \in shown : Expand(h) \/ Collapse(h)
           \/ \E n \in Removable : Plug(n) \/ Unplug(n) \/ Uninstall(n)
           \/ OnCmNotificationCallback \/ OnShowWindow
           \/ OnBnClickedCheckFilter \/ OnBnClickedCheckGaming
           \/ UNCHANGED vars
    PROVE  TreeInv' /\ bl' = bl
  <1>1. /\ TypeOK /\ collapsed' \subseteq shown
        /\ UNCHANGED <<bl, rows, count, shown, parents, ticked, todo, vain>>
    <2>1. TypeOK /\ collapsed \subseteq shown
      BY DEF TreeInv, TypeOK
    <2>2. ASSUME NEW h \in shown, Expand(h) \/ Collapse(h)
          PROVE  /\ collapsed' \subseteq shown
                 /\ UNCHANGED <<bl, rows, count, shown, parents, ticked, todo, vain>>
      BY <2>1, <2>2, Items DEF Expand, Collapse, filledVars, checkVars
    <2> QED BY <2>1, <2>2 DEF Plug, Unplug, Uninstall, OnCmNotificationCallback, OnShowWindow,
           OnBnClickedCheckFilter, OnBnClickedCheckGaming, vars, treeVars, filledVars, checkVars
  <1>2. present' \subseteq known' /\ known' \subseteq Nodes /\ PresentToTheRoot'
    <2>1. PresentToTheRoot /\ present \subseteq known /\ known \subseteq Nodes
      BY DEF TreeInv, TypeOK
    <2>2. ASSUME NEW n \in Removable, Plug(n)
          PROVE  present' \subseteq known' /\ known' \subseteq Nodes /\ PresentToTheRoot'
      <3>1. n \in Nodes /\ Ancestors[n] = AncestorsFrom(Ancestors, n)
        BY NodesAssumption, AncestorsEquation
      <3>2. Ancestors[n] \subseteq present'
        BY <2>1, <2>2, <3>1 DEF AncestorsFrom, Plug, PresentToTheRoot
      <3> QED BY <2>1, <2>2, <3>1, <3>2 DEF Plug, PresentToTheRoot
    <2>3. ASSUME NEW n \in Removable, Unplug(n)
          PROVE  present' \subseteq known' /\ known' \subseteq Nodes /\ PresentToTheRoot'
      <3>1. present' = present \ Below(n) /\ known' = known
        BY <2>3 DEF Unplug
      <3>2. \A m \in present : \A k \in Ancestors[m] : k \in Below(n) => m \in Below(n)
        BY <2>1, AncestorsTransitive DEF Below
      <3> QED BY <2>1, <3>1, <3>2 DEF PresentToTheRoot
    <2>4. ASSUME NEW n \in Removable, Uninstall(n)
          PROVE  present' \subseteq known' /\ known' \subseteq Nodes /\ PresentToTheRoot'
      <3>1. n \notin present /\ present' = present /\ known' = known \ Below(n)
        BY <2>4 DEF Uninstall
      <3>2. present \intersect Below(n) = {}
        BY <2>1, <3>1 DEF Below, PresentToTheRoot
      <3> QED BY <2>1, <3>1, <3>2 DEF PresentToTheRoot
    <2>5. CASE UNCHANGED <<known, present>>
      BY <2>1, <2>5 DEF PresentToTheRoot
    <2> QED BY <2>2, <2>3, <2>4, <2>5
            DEF Expand, Collapse, OnCmNotificationCallback, OnShowWindow,
                OnBnClickedCheckFilter, OnBnClickedCheckGaming, machineVars, vars
  <1>3. filter' \in Filters
    BY <1>1 DEF TypeOK, Filters, Expand, Collapse, Plug, Unplug, Uninstall,
                OnCmNotificationCallback,
                OnShowWindow, OnBnClickedCheckFilter, OnBnClickedCheckGaming,
                dialogVars, vars
  <1>4. {visible', arrived', pending'} \subseteq BOOLEAN
    BY <1>1, Zenon DEF TypeOK, Expand, Collapse, Plug, Unplug, Uninstall,
                OnCmNotificationCallback,
                RefreshAfterArrival, OnShowWindow, OnBnClickedCheckFilter,
                OnBnClickedCheckGaming, dialogVars, vars
  <1>5. TypeOK'
    BY <1>1, <1>2, <1>3, <1>4 DEF TypeOK
  <1>6. GroupsAreWhole' /\ ClickUnderWay' /\ ParentRowMeansAll' /\ TreeShowsBlacklist'
    BY <1>1 DEF TreeInv, GroupsAreWhole, ClickUnderWay, ParentRowMeansAll,
                TreeShowsBlacklist, LooseContainers, TopLevelBlacklisted
  <1> QED BY <1>1, <1>2, <1>5, <1>6 DEF TreeInv

LEMMA TreeStep == TreeInv /\ [Next]_vars => TreeInv'
  BY RefreshStep, TopLevelStep, IgnoredStep, TickStep, UntickStep, SetStep, QuietStep
     DEF Next, SetRest

\* Tree and blacklist agree, and the tree has whole groups, through every refresh, click,
\* arrival and removal.
THEOREM TreeInvariant == Spec => []TreeInv
  <1> QED BY TreeInit, TreeStep, PTL DEF Spec

\* Only devices that were enumerated are in the tree, and only items in it are checked.
THEOREM TreeTypeCorrect == Spec => []TypeOK
  <1>1. TreeInv => TypeOK
    BY DEF TreeInv
  <1> QED BY <1>1, TreeInvariant, PTL

\* OnTvnItemChangedTreeBlacklist keeps a top-level item checked exactly while all its
\* devices are, or are about to be, on any machine and whichever items are clicked, but for
\* the items that were clicked in vain.
THEOREM CheckedParentsAreWhole == Spec => []ParentRowMeansAll
  <1>1. TreeInv => ParentRowMeansAll
    BY DEF TreeInv
  <1> QED BY <1>1, TreeInvariant, PTL

\* What the tree shows as checked is what the driver hides, and the other way round for
\* the devices that were enumerated.
THEOREM TreeIsTheBlacklist == Spec => []TreeShowsBlacklist
  <1>1. TreeInv => TreeShowsBlacklist
    BY DEF TreeInv
  <1> QED BY <1>1, TreeInvariant, PTL

\* Rebuilding the blacklist from the tree drops none of the devices that were
\* enumerated but those that the click has unchecked.
THEOREM NoDeviceIsForgotten == Spec => KnownEntriesKept
  <1>1. TreeInv /\ [Next]_vars
          => [(rows \intersect bl) \ bl' \subseteq (ticked \ ticked') \union LooseContainers]_vars
    <2> SUFFICES ASSUME TreeInv, Next
                 PROVE  (rows \intersect bl) \ bl'
                            \subseteq (ticked \ ticked') \union LooseContainers
      OBVIOUS
    <2>1. rows \intersect bl \subseteq ticked \union LooseContainers
      BY DEF TreeInv, TreeShowsBlacklist
    <2>2. CASE ticked' \ {NoNode} \subseteq bl'
      <3>1. NoNode \notin rows
        BY NodesAssumption DEF TreeInv, TypeOK
      <3> HIDE DEF LooseContainers
      <3> QED BY <2>1, <2>2, <3>1
    <2>3. CASE bl' = bl
      BY <2>3
    <2>4. ASSUME NEW top, NEW own, NEW rest, Write(top, own, rest)
          PROVE  ticked' \ {NoNode} \subseteq bl'
      BY <2>4 DEF Write, Chosen
    <2>5. ASSUME NEW h \in shown,
                 ClickTopLevel(h) \/ TickChild(h) \/ UntickChild(h)
          PROVE  \E top, own, rest : Write(top, own, rest)
      BY <2>5 DEF ClickTopLevel, TickChild, UntickChild, ToggleChildren
    <2>6. ASSUME NEW h \in shown, ClickIgnored(h)
          PROVE  bl' = bl
      BY <2>6 DEF ClickIgnored
    <2>7. ASSUME NEW done, SetDevices(done)
          PROVE  \E top, own, rest : Write(top, own, rest)
      BY <2>7 DEF SetDevices
    <2>8. OnUserMessageRefresh => bl' = bl
      BY DEF OnUserMessageRefresh
    <2> HIDE DEF LooseContainers
    <2> QED BY <2>2, <2>3, <2>4, <2>5, <2>6, <2>7, <2>8, QuietStep DEF Next, SetRest
  <1> QED BY <1>1, TreeInvariant, PTL DEF Spec, KnownEntriesKept
--------------------------------------------------------------------------------
(* Arrivals *)

\* No change of an item is due.
Idle == todo = {}

\* A message that is posted can be handled, and so can a notification that is due, and a
\* handler can go on: what the fairness of the three actions rests on.
MessagesCanBeHandled ==
    /\ [](pending /\ Idle => ENABLED <<OnUserMessageRefresh>>_vars)
    /\ [](arrived => ENABLED <<OnCmNotificationCallback>>_vars)
    /\ [](~Idle => ENABLED <<SetRest>>_vars)

\* The user looks at a tree that should have an item of the device, and has not.
Overdue(h) == Wanted(h) /\ h \notin shown

\* No such device is forgotten: a refresh is posted, or Windows is about to ask for one.
ArrivalsRemembered == \A h \in HidInterface : Overdue(h) => arrived \/ pending

\* A refresh enumerates everything that is there, and shows it unless a filter is on.
LEMMA RefreshShows ==
    ASSUME TypeOK, OnUserMessageRefresh, NEW h \in HidInterface
    PROVE  ~Overdue(h)'
  <1> SUFFICES ASSUME Wanted(h)' PROVE h \in shown'
    BY DEF Overdue
  <1>1. h \in present /\ ~filter.gaming
    BY DEF Wanted, OnUserMessageRefresh, machineVars, dialogVars
  <1>2. h \in IterateAllHidDevicesPresentOrNotPresent
    BY <1>1 DEF TypeOK, IterateAllHidDevicesPresentOrNotPresent
  <1> DEFINE devices == IterateAllHidDevicesPresentOrNotPresent
  <1>3. Group(h, devices) \intersect present # {}
    BY <1>1 DEF Group
  <1>4. \A gaming : Shown(Group(h, devices), gaming)
    BY <1>1, <1>3 DEF Shown
  <1>5. PICK gaming : shown' = {k \in devices : Shown(Group(k, devices), gaming)}
    BY DEF OnUserMessageRefresh
  <1> HIDE DEF devices
  <1> QED BY <1>2, <1>4, <1>5 DEF devices

\* No other step takes an item away, and none begins a change while a refresh is posted.
LEMMA OverdueStep ==
    ASSUME TypeOK, [Next]_vars, NEW h \in HidInterface, Overdue(h)'
    PROVE  /\ ~OnUserMessageRefresh
           /\ pending => pending'
           /\ pending /\ Idle => Idle'
           /\ \/ Overdue(h) /\ (arrived => arrived' \/ pending')
              \/ arrived' \/ pending'
           /\ OnCmNotificationCallback => pending'
           /\ SetRest => Idle'
  <1> USE DEF Overdue, Wanted, Idle
  <1>1. ~OnUserMessageRefresh
    BY RefreshShows
  <1>2. OnCmNotificationCallback => pending'
    BY Zenon DEF OnCmNotificationCallback, RefreshAfterArrival
  <1>3. SetRest => Idle'
    BY DEF SetRest, SetDevices, Write
  <1>4. CASE OnShowWindow \/ OnBnClickedCheckFilter \/ OnBnClickedCheckGaming
    <2>1. pending'
      BY <1>4, Zenon DEF OnShowWindow, OnBnClickedCheckFilter, OnBnClickedCheckGaming
    <2>2. todo' = todo
      BY <1>4 DEF OnShowWindow, OnBnClickedCheckFilter, OnBnClickedCheckGaming, treeVars,
                  checkVars
    <2> QED BY <1>1, <1>2, <1>3, <2>1, <2>2
  <1>5. ASSUME NEW n \in Removable, Plug(n)
        PROVE  arrived' /\ pending' = pending /\ todo' = todo
    BY <1>5, Zenon DEF Plug, treeVars, checkVars
  <1>6. ASSUME NEW n \in Removable, Unplug(n) \/ Uninstall(n)
        PROVE  /\ present' \subseteq present
               /\ UNCHANGED <<shown, filter, visible, arrived, pending, todo>>
    BY <1>6 DEF Unplug, Uninstall, treeVars, filledVars, checkVars, dialogVars
  <1>7. ASSUME NEW top, NEW own, NEW rest, Write(top, own, rest)
        PROVE  /\ UNCHANGED <<present, shown, filter, visible, arrived, pending>>
               /\ todo' = rest
    BY <1>7 DEF Write, machineVars, filledVars, dialogVars
  <1>8. ASSUME NEW k \in shown,
               \/ ClickTopLevel(k) \/ ClickIgnored(k) \/ TickChild(k) \/ UntickChild(k)
               \/ Expand(k) \/ Collapse(k)
        PROVE  /\ UNCHANGED <<present, shown, filter, visible, arrived, pending>>
               /\ ~pending
    <2>1. ~pending
      BY <1>8 DEF ClickTopLevel, ClickIgnored, TickChild, UntickChild, Expand, Collapse, Input
    <2>2. CASE ClickTopLevel(k) \/ TickChild(k) \/ UntickChild(k)
      BY <1>7, <2>1, <2>2 DEF ClickTopLevel, TickChild, UntickChild, ToggleChildren
    <2>3. CASE ClickIgnored(k) \/ Expand(k) \/ Collapse(k)
      BY <2>1, <2>3 DEF ClickIgnored, Expand, Collapse, machineVars, filledVars, dialogVars
    <2> QED BY <1>8, <2>2, <2>3
  <1>9. ASSUME NEW done, SetDevices(done)
        PROVE  /\ UNCHANGED <<present, shown, filter, visible, arrived, pending>>
               /\ Idle => Idle'
    BY <1>7, <1>9 DEF SetDevices
  <1>10. CASE UNCHANGED vars
    BY <1>1, <1>2, <1>3, <1>10
       DEF vars, machineVars, treeVars, filledVars, checkVars, dialogVars
  <1>11. CASE OnCmNotificationCallback
    <2>1. todo' = todo
      BY <1>11 DEF OnCmNotificationCallback, treeVars, checkVars
    <2> QED BY <1>1, <1>2, <1>3, <1>11, <2>1
  <1> QED BY <1>1, <1>2, <1>3, <1>4, <1>5, <1>6, <1>8, <1>9, <1>10, <1>11 DEF Next, SetRest

\* A device that arrives while the tab is hidden, between a click and a refresh, or while
\* a refresh is already posted is still on its way to the tree (OnCmNotificationCallback).
THEOREM NoArrivalIsForgotten == Spec => []ArrivalsRemembered
  <1>1. Init => ArrivalsRemembered
    BY DEF Init, ArrivalsRemembered, Overdue, Wanted
  <1>2. TypeOK /\ ArrivalsRemembered /\ [Next]_vars => ArrivalsRemembered'
    <2> SUFFICES ASSUME TypeOK, ArrivalsRemembered, [Next]_vars,
                        NEW h \in HidInterface, Overdue(h)'
                 PROVE  arrived' \/ pending'
      BY DEF ArrivalsRemembered
    <2> QED BY OverdueStep DEF ArrivalsRemembered
  <1> QED BY <1>1, <1>2, TreeTypeCorrect, PTL DEF Spec

\* One device: the notification leads to a posted refresh, the handler that runs returns,
\* and the refresh makes the item.
LEMMA ArrivalIsShown ==
    ASSUME NEW h \in HidInterface
    PROVE  Spec /\ MessagesCanBeHandled => (Wanted(h) ~> (h \in shown \/ ~Wanted(h)))
  <1>1. ArrivalsRemembered /\ Overdue(h) => arrived \/ pending
    BY DEF ArrivalsRemembered
  <1>2. TypeOK /\ [Next]_vars /\ pending => pending' \/ ~Overdue(h)'
    BY OverdueStep
  <1>3. TypeOK /\ [Next]_vars /\ pending /\ Idle => Idle' \/ ~Overdue(h)'
    BY OverdueStep
  <1>4. TypeOK /\ [Next]_vars /\ <<OnUserMessageRefresh>>_vars => ~Overdue(h)'
    BY OverdueStep
  <1>5. TypeOK /\ [Next]_vars /\ <<OnCmNotificationCallback>>_vars => pending' \/ ~Overdue(h)'
    BY OverdueStep
  <1>6. TypeOK /\ [Next]_vars /\ <<SetRest>>_vars => Idle' \/ ~Overdue(h)'
    BY OverdueStep
  <1>7. ~Overdue(h) <=> (h \in shown \/ ~Wanted(h))
    BY DEF Overdue
  <1> QED BY <1>1, <1>2, <1>3, <1>4, <1>5, <1>6, <1>7, NoArrivalIsForgotten, TreeTypeCorrect,
             PTL DEF Spec, Fairness, MessagesCanBeHandled

\* A device that is there while the user looks at a tree that is not limited to gaming
\* devices gets its item, on any machine and with any arrivals and removals in between.
THEOREM ArrivalsAreShown == Spec /\ MessagesCanBeHandled => ArrivalShown
  BY ArrivalIsShown DEF ArrivalShown
================================================================================
