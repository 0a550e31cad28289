----------------------------- MODULE ClientSession -----------------------------
(***************************************************************************)
(* The clients of the control device: the command line HidHideCLI and the  *)
(* configuration client HidHideClient.  Both keep a copy of the settings   *)
(* in a FilterDriverProxy.  The configuration client writes every change   *)
(* through; the command line collects changes and applies them, one        *)
(* setting after the other, when its input ends.                           *)
(*                                                                         *)
(* Every request to the driver is a step, may be refused, and may be the   *)
(* last one before the client is killed.  What the driver does with a      *)
(* request is HidHideDriver's subject; here it is the settings that the    *)
(* Get requests report.                                                    *)
(***************************************************************************)
EXTENDS Naturals

CONSTANTS
    Clients,       \* programs that open the control device
    CommandLines,  \* those that are HidHideCLI; the others are HidHideClient
    Attended,      \* command lines that prompt a user for their commands
    NoClient,      \* the control device is free
    Apps,          \* full image names
    Own,           \* the image of each client's own program; none when it has no name
    Missing,       \* images whose file does not exist any more
    Paths          \* device instance paths

ASSUME ClientsAssumption ==
    /\ CommandLines \subseteq Clients
    /\ Attended \subseteq CommandLines
    /\ NoClient \notin Clients
    /\ Own \in [Clients -> SUBSET Apps]
    /\ Missing \subseteq Apps

VARIABLES
    reg,     \* the settings as the Get requests report them
    holder,  \* who has the control device open; the device is exclusive
    pc,      \* where each client is
    cache,   \* the members of its FilterDriverProxy
    found,   \* history: the settings when the session was opened
    box,     \* the entries of the whitelist's list box (HidHideClient)
    stale    \* a refresh of that list box has been posted

vars == <<reg, holder, pc, cache, found, box, stale>>
dialogVars == <<box, stale>>

Settings == [whitelist: SUBSET Apps, blacklist: SUBSET Paths,
             active: BOOLEAN, inverse: BOOLEAN]
Blank == [whitelist |-> {}, blacklist |-> {}, active |-> FALSE, inverse |-> FALSE]

Guis == Clients \ CommandLines
WriteThrough(c) == c \in Guis

Reading  == {"readActive", "readBlacklist", "readWhitelist", "readInverse", "own"}
Applying == {"applyWhitelist", "applyBlacklist", "applyActive", "applyInverse"}
CommandLineLabels == {"closed", "commands"} \union Reading \union Applying
GuiLabels == {"closed", "probing", "asking", "probed", "open", "exception"} \union Reading

\* The type invariant: each kind of client stays in its own part of the program.
TypeOK ==
    /\ reg \in Settings
    /\ holder \in Clients \union {NoClient}
    /\ pc \in [Clients -> CommandLineLabels \union GuiLabels]
    /\ \A c \in CommandLines : pc[c] \in CommandLineLabels
    /\ \A c \in Guis : pc[c] \in GuiLabels
    /\ cache \in [Clients -> Settings]
    /\ found \in Settings
    /\ box \in [Clients -> SUBSET Apps]
    /\ stale \in [Clients -> BOOLEAN]

Init ==
    /\ reg \in Settings
    /\ holder = NoClient
    /\ pc = [c \in Clients |-> "closed"]
    /\ cache = [c \in Clients |-> Blank]
    /\ found = Blank
    /\ box = [c \in Clients |-> {}]
    /\ stale = [c \in Clients |-> FALSE]
--------------------------------------------------------------------------------
(* Requests: the settings that the driver may have afterwards *)

Done(s)   == [settings |-> s, ok |-> TRUE]
Failed(s) == [settings |-> s, ok |-> FALSE]

\* A Get request fails or changes nothing; so does a setter with nothing to do.
NoRequest  == {Done(reg)}
GetRequest == {Done(reg), Failed(reg)}

\* A list is persisted before it is loaded: it can be in force, persisted, or neither.
ListRequest(s) == {Done(s), Failed(s), Failed(reg)}
SetWhitelistRequest(w) == ListRequest([reg EXCEPT !.whitelist = w])
SetBlacklistRequest(b) == ListRequest([reg EXCEPT !.blacklist = b])

\* A switch that could not be persisted is not changed.
SwitchRequest(s) == {Done(s), Failed(reg)}
SetActiveRequest(a)  == SwitchRequest([reg EXCEPT !.active = a])
SetInverseRequest(i) == SwitchRequest([reg EXCEPT !.inverse = i])

\* Mutant: the device stays open.
Unreleased(c) == holder

Released(c) == IF holder = c THEN NoClient ELSE holder

Proceed(c, s, label) ==
    /\ pc' = [pc EXCEPT ![c] = label]
    /\ cache' = [cache EXCEPT ![c] = s]
    /\ UNCHANGED <<holder, found>>

\* The FilterDriverProxy is destroyed, and its handle closed.
Leave(c, label) ==
    /\ pc' = [pc EXCEPT ![c] = label]
    /\ holder' = Released(c)
    /\ cache' = [cache EXCEPT ![c] = Blank]
    /\ found' = IF holder = c THEN Blank ELSE found

\* Mutant: the command line shows a message box as well.
ThrowInBox(c, s) == Leave(c, "exception")

\* Mutant: an exception in the dialog is swallowed.
ThrowSwallowed(c, s) ==
    IF pc[c] = "open" THEN Proceed(c, s, "open")
    ELSE Leave(c, IF c \in CommandLines THEN "closed" ELSE "exception")

\* An exception ends the session.  The command line prints it and returns; the
\* configuration client shows a message box, and a dialog that was open, with its
\* proxy, is only destroyed after it.
Throw(c, s) ==
    IF pc[c] = "open" THEN Proceed(c, s, "exception")
    ELSE Leave(c, IF c \in CommandLines THEN "closed" ELSE "exception")

\* Client c, with s as its copy of the settings, sends a request and goes on at label.
Send(c, request, s, label) ==
    \E outcome \in request :
        /\ reg' = outcome.settings
        /\ IF outcome.ok THEN Proceed(c, s, label) ELSE Throw(c, s)

\* The program ends.
End(c) ==
    /\ Leave(c, "closed")
    /\ box' = [box EXCEPT ![c] = {}]
    /\ stale' = [stale EXCEPT ![c] = FALSE]
    /\ UNCHANGED reg

Kill(c) == pc[c] # "closed" /\ End(c)
--------------------------------------------------------------------------------
(* Opening a session: the constructor of FilterDriverProxy *)

\* Mutant: the control device is not exclusive.
Shared == TRUE

Free == holder = NoClient

Device(c) ==
    /\ pc[c] = IF c \in CommandLines THEN "closed" ELSE "probed"
    /\ Free
    /\ holder' = c
    /\ found' = reg
    /\ pc' = [pc EXCEPT ![c] = "readActive"]
    /\ UNCHANGED <<reg, cache, dialogVars>>

\* Somebody took the device after the probe.  (A command line just returns.)
DeviceFails(c) ==
    /\ pc[c] = "probed"
    /\ ~Free
    /\ pc' = [pc EXCEPT ![c] = "exception"]
    /\ UNCHANGED <<reg, holder, cache, found, dialogVars>>

GetActive(c) ==
    /\ pc[c] = "readActive"
    /\ Send(c, GetRequest, [cache[c] EXCEPT !.active = reg.active], "readBlacklist")
    /\ UNCHANGED dialogVars

GetBlacklist(c) ==
    /\ pc[c] = "readBlacklist"
    /\ Send(c, GetRequest, [cache[c] EXCEPT !.blacklist = reg.blacklist], "readWhitelist")
    /\ UNCHANGED dialogVars

GetWhitelist(c) ==
    /\ pc[c] = "readWhitelist"
    /\ Send(c, GetRequest, [cache[c] EXCEPT !.whitelist = reg.whitelist], "readInverse")
    /\ UNCHANGED dialogVars

GetInverse(c) ==
    /\ pc[c] = "readInverse"
    /\ Send(c, GetRequest, [cache[c] EXCEPT !.inverse = reg.inverse], "own")
    /\ UNCHANGED dialogVars

\* The client's program is taken off the whitelist when the list is inverse, and
\* put on it otherwise.
WithOwnEntry(c, s) ==
    [s EXCEPT !.whitelist = IF s.inverse THEN @ \ Own[c] ELSE @ \union Own[c]]

\* The dialog starts with an empty list box and posts its first refresh when shown.
OwnEntry(c) ==
    LET s == WithOwnEntry(c, cache[c]) IN
    /\ pc[c] = "own"
    /\ Send(c, IF s = cache[c] THEN NoRequest ELSE SetWhitelistRequest(s.whitelist), s,
            IF c \in CommandLines THEN "commands" ELSE "open")
    /\ stale' = [stale EXCEPT ![c] = pc'[c] = "open"]
    /\ UNCHANGED box
--------------------------------------------------------------------------------
(* FilterDriverProxy's setters: a value that does not change is not sent *)

Through(c, changed, request) == IF WriteThrough(c) /\ changed THEN request ELSE NoRequest

SetWhitelist(c, w) ==
    Send(c, Through(c, w # cache[c].whitelist, SetWhitelistRequest(w)),
         [cache[c] EXCEPT !.whitelist = w], pc[c])

SetBlacklist(c, b) ==
    Send(c, Through(c, b # cache[c].blacklist, SetBlacklistRequest(b)),
         [cache[c] EXCEPT !.blacklist = b], pc[c])

SetActive(c, a) ==
    Send(c, Through(c, a # cache[c].active, SetActiveRequest(a)),
         [cache[c] EXCEPT !.active = a], pc[c])

SetInverse(c, i) ==
    Send(c, Through(c, i # cache[c].inverse, SetInverseRequest(i)),
         [cache[c] EXCEPT !.inverse = i], pc[c])

WhitelistAddEntry(c, a) == SetWhitelist(c, cache[c].whitelist \union {a})
WhitelistDelEntry(c, a) == SetWhitelist(c, cache[c].whitelist \ {a})
BlacklistAddEntry(c, p) == SetBlacklist(c, cache[c].blacklist \union {p})
BlacklistDelEntry(c, p) == SetBlacklist(c, cache[c].blacklist \ {p})
--------------------------------------------------------------------------------
(* The command line *)

AppReg(c)   == \E a \in Apps \ Missing : WhitelistAddEntry(c, a)
AppUnreg(c) == \E a \in Apps : WhitelistDelEntry(c, a)

\* One WhitelistDelEntry for each entry without a file; none of them sends a request.
AppClean(c)    == SetWhitelist(c, cache[c].whitelist \ Missing)
DevHide(c)     == \E p \in Paths : BlacklistAddEntry(c, p)
DevUnhinde(c)  == \E p \in Paths : BlacklistDelEntry(c, p)
CloakOn(c)     == SetActive(c, TRUE)
CloakOff(c)    == SetActive(c, FALSE)
CloakToggle(c) == SetActive(c, ~cache[c].active)
InvOn(c)       == SetInverse(c, TRUE)
InvOff(c)      == SetInverse(c, FALSE)

ExecuteCommand(c) ==
    /\ pc[c] = "commands"
    /\ \/ AppReg(c) \/ AppUnreg(c) \/ AppClean(c)
       \/ DevHide(c) \/ DevUnhinde(c)
       \/ CloakOn(c) \/ CloakOff(c) \/ CloakToggle(c)
       \/ InvOn(c) \/ InvOff(c)
    /\ UNCHANGED dialogVars

\* "--cancel", or, when nobody is prompted, a line with an error: what has been
\* collected is dropped.  A prompted user corrects the line.
Cancel(c)    == pc[c] = "commands" /\ End(c)
LineError(c) == pc[c] = "commands" /\ c \notin Attended /\ End(c)

EndOfInput(c) ==
    /\ pc[c] = "commands"
    /\ pc' = [pc EXCEPT ![c] = "applyWhitelist"]
    /\ UNCHANGED <<reg, holder, cache, found, dialogVars>>

\* ApplyConfigurationChanges sends what differs from what the driver reports.
Apply(c, label, differs, request, next) ==
    /\ pc[c] = label
    /\ Send(c, IF differs THEN request ELSE GetRequest, cache[c], next)
    /\ UNCHANGED dialogVars

ApplyWhitelist(c) ==
    Apply(c, "applyWhitelist", reg.whitelist # cache[c].whitelist,
          SetWhitelistRequest(cache[c].whitelist), "applyBlacklist")

ApplyBlacklist(c) ==
    Apply(c, "applyBlacklist", reg.blacklist # cache[c].blacklist,
          SetBlacklistRequest(cache[c].blacklist), "applyActive")

ApplyActive(c) ==
    Apply(c, "applyActive", reg.active # cache[c].active,
          SetActiveRequest(cache[c].active), "applyInverse")

\* The last setting; whether it succeeds or throws, the session is over.
ApplyInverse(c) ==
    /\ pc[c] = "applyInverse"
    /\ \E outcome \in IF reg.inverse # cache[c].inverse
                      THEN SetInverseRequest(cache[c].inverse) ELSE GetRequest :
          reg' = outcome.settings
    /\ Leave(c, "closed")
    /\ UNCHANGED dialogVars
--------------------------------------------------------------------------------
(* The configuration client *)

\* InitInstance, DeviceStatus: the device is opened, and closed again.
Probe(c) ==
    /\ pc[c] = "closed"
    /\ IF Free
       THEN holder' = c /\ pc' = [pc EXCEPT ![c] = "probing"]
       ELSE pc' = [pc EXCEPT ![c] = "asking"] /\ UNCHANGED holder
    /\ UNCHANGED <<reg, cache, found, dialogVars>>

ProbeClose(c) ==
    /\ pc[c] = "probing"
    /\ holder' = Released(c)
    /\ pc' = [pc EXCEPT ![c] = "probed"]
    /\ UNCHANGED <<reg, cache, found, dialogVars>>

\* The user answers the box that says that the device is in use.
Answer(c) ==
    /\ pc[c] = "asking"
    /\ pc' = [pc EXCEPT ![c] = "closed"]
    /\ UNCHANGED <<reg, holder, cache, found, dialogVars>>

\* A posted message is handled before further input of the user.
Input(c) == pc[c] = "open" /\ ~stale[c]

RefreshBox(c) ==
    /\ pc[c] = "open" /\ stale[c]
    /\ box' = [box EXCEPT ![c] = cache[c].whitelist]
    /\ stale' = [stale EXCEPT ![c] = FALSE]
    /\ UNCHANGED <<reg, holder, pc, cache, found>>

\* OnShowWindow, when the user returns to the tab of the applications
ShowTab(c) ==
    /\ Input(c)
    /\ stale' = [stale EXCEPT ![c] = TRUE]
    /\ UNCHANGED <<reg, holder, pc, cache, found, box>>

\* The list box is changed first; its entries become the whitelist.  The refresh
\* is posted unless the request throws.
SetFromBox(c, entries) ==
    /\ Input(c)
    /\ SetWhitelist(c, entries)
    /\ box' = [box EXCEPT ![c] = entries]
    /\ stale' = [stale EXCEPT ![c] = pc'[c] = "open"]

Insert(c) == \E a \in (Apps \ Missing) \ box[c] : SetFromBox(c, box[c] \union {a})
Delete(c) == \E selected \in SUBSET box[c] : SetFromBox(c, box[c] \ selected)

\* Mutant: the list box is not refreshed after a drop.
DropUnseen(c) ==
    \E dropped \in SUBSET (Apps \ Missing) :
        /\ ~(dropped \subseteq cache[c].whitelist)
        /\ Input(c)
        /\ SetWhitelist(c, cache[c].whitelist \union dropped)
        /\ UNCHANGED dialogVars

\* Files that are dropped are added to the proxy's whitelist; nothing happens
\* when none is new.
Drop(c) ==
    \E dropped \in SUBSET (Apps \ Missing) :
        /\ ~(dropped \subseteq cache[c].whitelist)
        /\ Input(c)
        /\ SetWhitelist(c, cache[c].whitelist \union dropped)
        /\ stale' = [stale EXCEPT ![c] = pc'[c] = "open"]
        /\ UNCHANGED box

CheckInverse(c) == Input(c) /\ SetInverse(c, ~cache[c].inverse) /\ UNCHANGED dialogVars
CheckEnable(c)  == Input(c) /\ SetActive(c, ~cache[c].active) /\ UNCHANGED dialogVars

\* What the tree of devices makes of the blacklist is DeviceTree's subject.
ChangeTree(c) ==
    /\ Input(c)
    /\ \E b \in SUBSET Paths : SetBlacklist(c, b)
    /\ UNCHANGED dialogVars

\* The user closes the dialog, or the message box after an exception.
Close(c) == pc[c] \in {"open", "exception"} /\ End(c)
--------------------------------------------------------------------------------
OpenSession(c) ==
    \/ GetActive(c) \/ GetBlacklist(c) \/ GetWhitelist(c) \/ GetInverse(c)
    \/ OwnEntry(c)

ApplyConfigurationChanges(c) ==
    \/ ApplyWhitelist(c) \/ ApplyBlacklist(c) \/ ApplyActive(c) \/ ApplyInverse(c)

CommandLine(c) ==
    \/ ExecuteCommand(c) \/ Cancel(c) \/ LineError(c) \/ EndOfInput(c)
    \/ ApplyConfigurationChanges(c)

Edit(c) ==
    \/ Insert(c) \/ Delete(c) \/ Drop(c) \/ CheckInverse(c) \/ CheckEnable(c)
    \/ ChangeTree(c)

Gui(c) ==
    \/ Probe(c) \/ ProbeClose(c) \/ Answer(c) \/ DeviceFails(c)
    \/ RefreshBox(c) \/ ShowTab(c) \/ Edit(c) \/ Close(c)

Next ==
    \/ \E c \in Clients : Device(c) \/ OpenSession(c) \/ Kill(c)
    \/ \E c \in CommandLines : CommandLine(c)
    \/ \E c \in Guis : Gui(c)

\* Where it is up to a user to go on: an open dialog without messages, the message
\* box after an exception, a prompt.
AwaitsUser(c) ==
    Input(c) \/ pc[c] = "exception" \/ (pc[c] = "commands" /\ c \in Attended)

\* The program that has the device open goes on by itself.
HolderStep ==
    \E c \in Clients :
        /\ holder = c /\ ~AwaitsUser(c)
        /\ \/ OpenSession(c) \/ EndOfInput(c) \/ ApplyConfigurationChanges(c)
           \/ ProbeClose(c) \/ RefreshBox(c)

\* A program that is scheduled goes on, and a script ends; users need not act.
Fairness == WF_vars(HolderStep)

Spec == Init /\ [][Next]_vars /\ Fairness
--------------------------------------------------------------------------------
\* While its dialog works, what the configuration client shows and edits is what
\* the driver has in force: a request that fails leaves no value behind that a
\* later edit would take for sent.
CacheInForce == \A c \in Guis : pc[c] = "open" => cache[c] = reg

\* The whitelist is rebuilt from the entries of the list box, so input must never
\* find a list box that shows anything else than the whitelist.
BoxIsTheWhitelist == \A c \in Guis : Input(c) => box[c] = cache[c].whitelist

\* The settings that a command line has applied when it is at a label.
Applied(label) ==
    CASE label = "applyBlacklist" -> {"whitelist"}
      [] label = "applyActive"    -> {"whitelist", "blacklist"}
      [] label = "applyInverse"   -> {"whitelist", "blacklist", "active"}
      [] OTHER                    -> {}

\* A command line changes nothing but the entry of its own program before its
\* input has ended; then the settings it has applied are as it wants them, and
\* those still to do are as it found them.  Whatever ends it in between, nobody
\* else's change was lost or mixed in.
AppliedPrefix ==
    \A c \in CommandLines : pc[c] \in Applying \union {"commands"} =>
        reg = [f \in DOMAIN reg |->
                  IF f \in Applied(pc[c]) THEN cache[c][f] ELSE WithOwnEntry(c, found)[f]]

\* The control device is not kept: whoever has it open closes it, or leaves it to a
\* user to do so.
DeviceReleased == \A c \in Clients : holder = c ~> (holder # c \/ AwaitsUser(c))
================================================================================
