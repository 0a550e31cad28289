---------------------------- MODULE HidHideVerdicts ----------------------------
(***************************************************************************)
(* HidHideDriver with a history variable that remembers, for each file     *)
(* create in progress, which verdicts were in force since it entered       *)
(* OnDeviceFileCreate. The handler takes the lock four times, so its       *)
(* verdict combines values read at four different moments.                 *)
(***************************************************************************)
EXTENDS HidHideDriver

VARIABLE hist

MaxChanges == 2    \* bound: changes[r] counts 0, 1 and "more"

NoHistory == [seen |-> {}, changes |-> 0, tainted |-> FALSE]
History   == [seen: SUBSET BOOLEAN, changes: 0..MaxChanges, tainted: BOOLEAN]

\* What a lookup of the process made now would answer.
WhitelistedNow(p) ==
    /\ p \in Pids
    /\ Registered(p)
    /\ IF cache[p] # "Empty" THEN cache[p] = "Found"
                             ELSE image[p] \in pool[ctx.wl].names

\* The four inputs of the verdict on file create r, and the verdict they give.
Inputs(r) ==
    [active  |-> ctx.active,
     hidden  |-> ctx.bl # Dangling /\ Blacklisted(req[r].dev, req[r].session),
     listed  |-> WhitelistedNow(req[r].pid),
     inverse |-> ctx.inverse]

GrantedNow(r) ==
    LET in == Inputs(r)
    IN (req[r].pid # SystemPid /\ in.active /\ in.hidden) => in.listed # in.inverse

InProgress(r) == req[r].pc \notin {"idle", "done"}

\* Neither list is gone because its reload failed.
ListsLoaded == ctx.bl # Dangling /\ pool[ctx.wl].live

\* The whitelist was deleted under this create, or under an earlier one whose
\* verdict is still cached for the same process; or a list is gone, and there is
\* no verdict to compare with.
TaintedNow(r) ==
    \/ req[r].pid \in poisoned
    \/ req[r].pc = "check" /\ ~pool[req[r].coll].live
    \/ InProgress(r) /\ ~ListsLoaded

Remember(r) ==
    IF req'[r].pc = "idle" THEN NoHistory
    ELSE IF req[r].pc = "idle"
         THEN [seen |-> {GrantedNow(r)'}, changes |-> 0, tainted |-> TaintedNow(r)']
    ELSE IF ~InProgress(r) THEN hist[r]
    ELSE [seen    |-> hist[r].seen \union {GrantedNow(r)'},
          changes |-> IF Inputs(r)' = Inputs(r) \/ hist[r].changes = MaxChanges
                      THEN hist[r].changes
                      ELSE hist[r].changes + 1,
          tainted |-> hist[r].tainted \/ TaintedNow(r)']

VerdictInit == Init /\ hist = [r \in Requests |-> NoHistory]
VerdictNext == Next /\ hist' = [r \in Requests |-> Remember(r)]
VerdictSpec == VerdictInit /\ [][VerdictNext]_<<vars, hist>>

\* A file create that finds both lists loaded, overlapped by at most one change of
\* the settings, the session entries or the registry of processes, gets a verdict
\* that the driver as a whole stood for at some moment between its entry and its
\* completion. (With two changes it may not: see the README.)
VerdictInForce ==
    \A r \in Requests :
       req[r].pc = "done" /\ hist[r].changes < MaxChanges /\ ~hist[r].tainted =>
          req[r].granted \in hist[r].seen

================================================================================
