------------------------------- MODULE DeviceTree -------------------------------
(***************************************************************************)
(* The tree of devices in the configuration client (BlacklistDlg.cpp) and  *)
(* the enumeration of human interface devices it is filled from (HID.cpp). *)
(*                                                                         *)
(* The blacklist is rebuilt from the ticks in the tree at every click, and *)
(* the tree from the blacklist and the devices at every refresh.  Devices  *)
(* come and go meanwhile.  The dialog has the control device for itself    *)
(* and writes through, so bl is the driver's list as well as the proxy's;  *)
(* a request that fails ends the dialog, which is ClientSession's subject. *)
(***************************************************************************)
EXTENDS Naturals, FiniteSets

CONSTANTS
    Nodes,          \* device instance paths of the machine's device nodes
    NoNode,         \* the empty path
    Parent,         \* parent of each node
    ContainerId,    \* base container id of each node
    NoContainerId,  \* no such property, or that of the system
    HidInterface,   \* nodes with a HID interface
    XusbInterface,  \* nodes with an XUSB interface
    HidXusbClass,   \* nodes of the classes HIDCLASS and XUSBCLASS, which HidHide filters
    Gaming,         \* human interface devices whose usage is a gaming one
    Foreign,        \* paths on the blacklist that name no node
    Removable       \* nodes that come and go in this instance

ASSUME NodesAssumption ==
    /\ NoNode \notin Nodes \union Foreign
    /\ Foreign \intersect Nodes = {}
    /\ Parent \in [Nodes -> Nodes \union {NoNode}]
    /\ DOMAIN ContainerId = Nodes
    /\ HidInterface \subseteq Nodes
    /\ XusbInterface \subseteq Nodes
    /\ HidInterface \intersect XusbInterface = {}
    /\ Removable \subseteq Nodes
    /\ IsFiniteSet(Nodes)

\* No node is below itself: in every set of nodes, one has its parent outside of it.
ASSUME ParentsAssumption ==
    \A S \in SUBSET Nodes : S # {} => \E n \in S : Parent[n] \notin S

VARIABLES
    known,    \* nodes that Windows knows, present or not
    present,  \* those that are there
    bl,       \* the blacklist
    rows,     \* m_BlacklistItemData: the devices that were enumerated last
    count,    \* baseContainerDeviceCount, as it was then
    shown,    \* the devices with an item in the tree
    parents,  \* those whose top-level item is checked
    ticked,   \* those whose own item is checked
    todo,     \* those whose own item a click is about to change, like the top-level item
    vain,     \* history: those whose top-level item was clicked in vain
    collapsed,  \* those whose top-level item was expanded, and is not any more
    filter,   \* the check boxes "present only" and "gaming only"
    visible,  \* the tab of the devices is selected
    arrived,  \* Windows is about to call OnCmNotificationCallback
    pending   \* WM_USER_CM_NOTIFICATION_REFRESH is posted

machineVars == <<known, present>>
filledVars  == <<rows, count, shown>>
checkVars   == <<parents, ticked, todo, vain>>
treeVars    == <<filledVars, checkVars, collapsed>>
dialogVars  == <<filter, visible>>
vars == <<machineVars, bl, treeVars, dialogVars, arrived, pending>>

Filters == [present: BOOLEAN, gaming: BOOLEAN]

\* The type invariant: only devices that were enumerated have items, and only items ticks.
TypeOK ==
    /\ present \subseteq known /\ known \subseteq Nodes
    /\ bl \subseteq Nodes \union Foreign
    /\ rows \subseteq HidInterface
    /\ count \in [Nodes -> Nat]
    /\ shown \subseteq rows /\ parents \subseteq shown /\ ticked \subseteq shown
    /\ todo \subseteq shown /\ vain \subseteq shown /\ collapsed \subseteq shown
    /\ filter \in Filters
    /\ {visible, arrived, pending} \subseteq BOOLEAN
--------------------------------------------------------------------------------
(* The device nodes (HID.cpp) *)

AncestorsFrom(up, n) == {n} \union IF Parent[n] = NoNode THEN {} ELSE up[Parent[n]]
Ancestors[n \in Nodes] == AncestorsFrom(Ancestors, n)
Below(n) == {m \in Nodes : n \in Ancestors[m]}

\* The topmost node with the same base container id, without a gap in between
BaseContainerFrom(up, n) ==
    IF ContainerId[n] = NoContainerId THEN NoNode
    ELSE IF Parent[n] # NoNode /\ ContainerId[Parent[n]] = ContainerId[n]
         THEN up[Parent[n]]
         ELSE n
Topmost[n \in Nodes] == BaseContainerFrom(Topmost, n)
BaseContainer == [n \in Nodes |-> Topmost[n]]

\* FindAncestorWithDeviceInterface: the nearest node with the XUSB interface
XusbFrom(up, n) ==
    IF n \in XusbInterface THEN n
    ELSE IF Parent[n] = NoNode THEN NoNode
    ELSE up[Parent[n]]
NearestXusb[n \in Nodes] == XusbFrom(NearestXusb, n)
Xusb == [n \in Nodes |-> NearestXusb[n]]

\* CM_Get_Child and CM_Get_Sibling walk the nodes that are there.
BaseContainerDeviceCount(n) == Cardinality({m \in present : Parent[m] = n})

IterateAllHidDevicesPresentOrNotPresent == HidInterface \intersect known

\* A gaming device is told from the usage it reports, so it must be there, and not
\* opened exclusively by another program.
MayReportGaming == SUBSET (Gaming \intersect present)

\* HidDevices: the devices of a base container form a group; a device without
\* one is a group of its own.
Group(h, devices) ==
    {h} \union {k \in devices : BaseContainer[h] # NoNode /\ BaseContainer[k] = BaseContainer[h]}
--------------------------------------------------------------------------------
(* OnUserMessageRefresh *)

TopLevelBlacklisted(group) ==
    \E h \in group : BaseContainer[h] \in bl \/ Xusb[h] \in bl

\* Mutant: the filters apply to blacklisted devices as well.
ShownWhenListed(group, gaming) ==
    /\ ~filter.gaming \/ group \intersect gaming # {}
    /\ ~filter.present \/ group \intersect present # {}

\* The filters are for groups that are not blacklisted.
Shown(group, gaming) ==
    \/ TopLevelBlacklisted(group) \/ group \intersect bl # {}
    \/ /\ ~filter.gaming \/ group \intersect gaming # {}
       /\ ~filter.present \/ group \intersect present # {}

OnUserMessageRefresh ==
    LET devices == IterateAllHidDevicesPresentOrNotPresent
        G(h)    == Group(h, devices)
    IN
    /\ pending /\ todo = {}
    /\ pending' = FALSE
    /\ rows' = devices
    /\ count' = [n \in Nodes |-> BaseContainerDeviceCount(n)]
    /\ \E gaming \in MayReportGaming : shown' = {h \in devices : Shown(G(h), gaming)}
    /\ parents' = {h \in shown' : TopLevelBlacklisted(G(h)) \/ G(h) \subseteq bl}
    /\ ticked' = {h \in shown' : TopLevelBlacklisted(G(h)) \/ h \in bl}
    /\ todo' = {} /\ vain' = {} /\ collapsed' = {}
    /\ UNCHANGED <<machineVars, bl, dialogVars, arrived>>
--------------------------------------------------------------------------------
(* OnTvnItemChangedTreeBlacklist *)

\* The base container is blocked when as many devices of its group are in the tree
\* as it had child devices.
CanBeBlocked(h) ==
    /\ BaseContainer[h] \in HidXusbClass
    /\ Cardinality(Group(h, rows)) = count[BaseContainer[h]]

\* Some order of the devices of a group
First(group) == CHOOSE h \in group : TRUE

\* Mutant: a base container that is blocked stands for its devices.
ChosenContainers(top, own) ==
    LET blocked == {h \in top : CanBeBlocked(h)} IN
    ({BaseContainer[h] : h \in blocked} \union {Xusb[First(Group(h, rows))] : h \in top}
        \union {Xusb[h] : h \in own} \union (own \ blocked)) \ {NoNode}

\* The new blacklist: what the checked top-level items stand for, and the checked devices.
Chosen(top, own) ==
    ({BaseContainer[h] : h \in {k \in top : CanBeBlocked(k)}}
        \union {Xusb[First(Group(h, rows))] : h \in top}
        \union {Xusb[h] : h \in own} \union own) \ {NoNode}

\* One run of the handler, or of a handler nested in it, writes its own blacklist.
Write(top, own, rest) ==
    /\ parents' = top /\ ticked' = own /\ todo' = rest
    /\ bl' = Chosen(top, own)
    /\ UNCHANGED <<machineVars, filledVars, collapsed, dialogVars, arrived, pending>>

\* A posted message is handled before further input of the user, and input before the
\* handler has returned is not.
Input == visible /\ ~pending /\ todo = {}

\* The test of line 262: an item that is collapsed carries TVIS_EXPANDEDONCE alone, which
\* none of the eight transitions has.
Noticed(h) == h \notin collapsed

Toggled(devices) == (ticked \ devices) \union (devices \ ticked)

\* The items of some devices change, one after the other.  The tree control may notify of
\* every single change, and the handler is entered again for each: the first run that
\* writes has changed some of them, up to all.
ToggleChildren(top, before, devices) ==
    \E done \in SUBSET devices :
       /\ devices # {} => done # {}
       /\ Write(top, Toggled(before \union done), devices \ done)

\* The top-level item and its devices
ClickTopLevel(h) ==
    LET group == Group(h, rows) IN
    /\ Input /\ Noticed(h)
    /\ IF h \in parents THEN ToggleChildren(parents \ group, {}, group \intersect ticked)
                        ELSE ToggleChildren(parents \union group, {}, group \ ticked)
    /\ vain' = vain \ group

\* The tree control checks the item, and the handler returns at once.
ClickIgnored(h) ==
    LET group == Group(h, rows) IN
    /\ Input /\ ~Noticed(h)
    /\ parents' = IF h \in parents THEN parents \ group ELSE parents \union group
    /\ vain' = vain \union group
    /\ UNCHANGED <<machineVars, bl, filledVars, ticked, todo, collapsed, dialogVars,
                   arrived, pending>>

\* Nested runs of the handler, one of which is the last
SetDevices(done) ==
    /\ Write(parents, Toggled(done), todo \ done)
    /\ UNCHANGED vain

SetRest == todo # {} /\ SetDevices(todo)

\* Mutant: devices of the group that are not in the tree are checked, too.
CompletedUnseen(h, own) ==
    IF Group(h, rows) \subseteq own THEN Group(h, HidInterface) ELSE {}

\* Mutant: the top-level item is not checked with the last of its devices.
CompletedNever(h, own) == {}

\* The last device that is checked checks its top-level item.
Completed(h, own) == IF Group(h, rows) \subseteq own THEN Group(h, rows) ELSE {}

\* The items of devices are only there to be clicked while their group is expanded.
TickChild(h) ==
    LET own == ticked \union {h} IN
    /\ Input /\ h \notin collapsed \union ticked
    /\ Write(parents \union Completed(h, own), own, {})
    /\ vain' = vain \ Completed(h, own)

\* The top-level item is unchecked with any of its devices.  When the tree control
\* notifies of that change as well, the handler is entered again and unchecks the
\* others.
UntickChild(h) ==
    LET group == Group(h, rows) IN
    /\ Input /\ h \in ticked \ collapsed
    /\ \/ Write(parents \ group, ticked \ {h}, {})
       \/ /\ h \in parents
          /\ ToggleChildren(parents \ group, {h}, (group \intersect ticked) \ {h})
    /\ vain' = vain \ group

\* That an item has never been expanded, or is, makes no difference to the handler.
Expand(h) ==
    /\ Input /\ h \in collapsed
    /\ collapsed' = collapsed \ Group(h, rows)
    /\ UNCHANGED <<machineVars, bl, filledVars, checkVars, dialogVars, arrived, pending>>

Collapse(h) ==
    /\ Input /\ h \notin collapsed
    /\ collapsed' = collapsed \union Group(h, rows)
    /\ UNCHANGED <<machineVars, bl, filledVars, checkVars, dialogVars, arrived, pending>>
--------------------------------------------------------------------------------
(* Everything that asks for a refresh *)

\* A node starts.  The dialog is told on a thread of Windows, somewhat later.
Plug(n) ==
    /\ n \notin present
    /\ Parent[n] \in present \union {NoNode}
    /\ present' = present \union {n}
    /\ known' = known \union {n}
    /\ arrived' = TRUE
    /\ UNCHANGED <<bl, treeVars, dialogVars, pending>>

\* A node is removed with all below it; the dialog only acts on arrivals.
Unplug(n) ==
    /\ n \in present
    /\ present' = present \ Below(n)
    /\ UNCHANGED <<known, bl, treeVars, dialogVars, arrived, pending>>

\* A node that is not there is uninstalled.
Uninstall(n) ==
    /\ n \in known \ present
    /\ known' = known \ Below(n)
    /\ UNCHANGED <<present, bl, treeVars, dialogVars, arrived, pending>>

\* Mutant: nothing is refreshed while the tab is selected.
RefreshAfterArrivalHidden == pending' = (pending \/ ~visible)

RefreshAfterArrival == pending' = TRUE

OnCmNotificationCallback ==
    /\ arrived
    /\ arrived' = FALSE
    /\ RefreshAfterArrival
    /\ UNCHANGED <<machineVars, bl, treeVars, dialogVars>>

\* The user selects the tab, or the other one.
OnShowWindow ==
    /\ todo = {}
    /\ visible' = ~visible
    /\ pending' = TRUE
    /\ UNCHANGED <<machineVars, bl, treeVars, filter, arrived>>

OnBnClickedCheckFilter ==
    /\ Input
    /\ filter' = [filter EXCEPT !.present = ~@]
    /\ pending' = TRUE
    /\ UNCHANGED <<machineVars, bl, treeVars, visible, arrived>>

OnBnClickedCheckGaming ==
    /\ Input
    /\ filter' = [filter EXCEPT !.gaming = ~@]
    /\ pending' = TRUE
    /\ UNCHANGED <<machineVars, bl, treeVars, visible, arrived>>
--------------------------------------------------------------------------------
Init ==
    /\ known \in {S \in SUBSET Nodes : \A n \in S : Ancestors[n] \subseteq S}
    /\ present \in {S \in SUBSET known : \A n \in S : Ancestors[n] \subseteq S}
    /\ Nodes \ Removable \subseteq present
    /\ bl \in SUBSET (Nodes \union Foreign)
    /\ rows = {} /\ shown = {} /\ parents = {} /\ ticked = {} /\ todo = {}
    /\ vain = {} /\ collapsed = {}
    /\ count = [n \in Nodes |-> 0]
    /\ filter = [present |-> TRUE, gaming |-> TRUE]
    /\ visible = FALSE /\ arrived = FALSE /\ pending = FALSE

Next ==
    \/ OnUserMessageRefresh
    \/ \E h \in shown :
          \/ ClickTopLevel(h) \/ ClickIgnored(h) \/ TickChild(h) \/ UntickChild(h)
          \/ Expand(h) \/ Collapse(h)
    \/ \E done \in SUBSET todo \ {{}} : SetDevices(done)
    \/ \E n \in Removable : Plug(n) \/ Unplug(n) \/ Uninstall(n)
    \/ OnCmNotificationCallback
    \/ OnShowWindow
    \/ OnBnClickedCheckFilter
    \/ OnBnClickedCheckGaming

\* Windows delivers its notifications, the dialog handles its messages, and a handler that
\* runs returns.
Fairness ==
    WF_vars(OnUserMessageRefresh) /\ WF_vars(OnCmNotificationCallback) /\ WF_vars(SetRest)

Spec == Init /\ [][Next]_vars /\ Fairness
--------------------------------------------------------------------------------
\* "A top-level change is also applied to all of its children" (BlacklistDlg.cpp:267), and
\* theirs to it: a top-level item is checked when, and only when, all its devices are, or
\* are about to be.  Only a click on an item that has been collapsed can undo this.
ParentRowMeansAll ==
    \A h \in shown \ vain : h \in parents <=> Group(h, rows) \subseteq ticked \union todo

\* Base containers of groups that are in the middle of a click, or were clicked in vain
LooseContainers == {BaseContainer[h] : h \in todo \union vain}

\* The tree shows what the driver hides.  A device that is blacklisted has a checked
\* item, whatever the filters; a device with a checked item is blacklisted, itself or
\* with the group it is shown in; and a base container or XUSB node of the devices is
\* only blacklisted with a device whose item is checked.
TreeShowsBlacklist ==
    /\ rows \intersect bl \subseteq ticked \union LooseContainers
    /\ \A h \in ticked : h \in bl \/ TopLevelBlacklisted(Group(h, rows))
    /\ \A h \in rows : \A n \in {BaseContainer[h], Xusb[h]} \intersect bl :
          \E k \in ticked \union todo \union vain : n \in {k, BaseContainer[k], Xusb[k]}

\* Although every click rebuilds the blacklist from the tree, no device that was
\* enumerated leaves the blacklist but one the click has unchecked.
KnownEntriesKept ==
    [][(rows \intersect bl) \ bl' \subseteq (ticked \ ticked') \union LooseContainers]_vars

\* The device is there and the user looks at a tree that is not limited to gaming devices.
Wanted(h) == h \in present /\ visible /\ ~filter.gaming

\* Such a device gets its item, unless it goes again or the user looks at something else.
ArrivalShown == \A h \in HidInterface : Wanted(h) ~> (h \in shown \/ ~Wanted(h))
================================================================================
