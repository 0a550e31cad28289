----------------------------- MODULE HidHideDriver -----------------------------
(***************************************************************************)
(* The access-control core of the HidHide filter driver (HidHide/src/      *)
(* Logic.c and Config.c): the settings kept in the registry and in the     *)
(* control-device context, the process-id registry with its evaluation     *)
(* cache, the process-lifetime blacklist, and the evaluation of a file     *)
(* create on a filtered device.                                            *)
(*                                                                         *)
(* Every region the driver runs under s_criticalSectionLock is one action. *)
(* What it does outside that lock (registry writes, the read of the        *)
(* whitelist handle) is an action of its own, so that any other thread may *)
(* run in between, as WdfIoQueueDispatchParallel and concurrent creates    *)
(* allow.                                                                  *)
(***************************************************************************)
EXTENDS Naturals, Sequences, SequencesExt

CONSTANTS
    Pids,         \* process ids of ordinary processes
    SystemPid,    \* SYSTEM_PID
    EarlyPids,    \* processes that may be running before the driver is loaded
    Executables,  \* full image names of executables
    Modules,      \* full image names of the other modules a process loads
    NoImage,      \* no node, or no executable
    Devices,      \* device instance paths, as reported and as blacklisted
    SessionIds,   \* terminal-session ids of callers; 0 never matches a jail
    Whitelists,   \* whitelists a client may set
    Blacklists,   \* blacklists a client may set: sequences of Entry
    Dangling,     \* blacklist handle whose collection was deleted
    Collections,  \* addresses at which a whitelist collection can be created
    Setters,      \* I/O control requests that can be in progress at one time
    Ops,          \* the settings that clients change in this instance
    Requests,     \* file creates that can be in progress at one time
    Faults        \* the failures that may happen in this instance

Images  == Executables \union Modules
Callers == Pids \union {SystemPid}
Entry   == [path: Devices, jail: Nat]      \* "path" (jail 0) or "path!jail"

ASSUME ConstantsAssumption ==
    /\ SystemPid \notin Pids
    /\ EarlyPids \subseteq Pids
    /\ NoImage \notin Images
    /\ Collections # {}
    /\ SessionIds \subseteq Nat
    /\ Whitelists \subseteq SUBSET Images
    /\ Blacklists \subseteq Seq(Entry)
    /\ Dangling \notin Blacklists
    /\ Ops \subseteq {"whitelist", "blacklist", "active", "inverse", "session"}
    /\ Faults \subseteq {"register", "reload", "restart"}

VARIABLES
    reg,       \* settings persisted under the driver's Parameters key
    ctx,       \* CONTROL_DEVICE_CONTEXT; wl is a handle into pool
    pool,      \* whitelist collections by handle
    sessions,  \* the entries of sessionBlacklistHead
    proc,      \* life cycle of each process
    exe,       \* the executable each process was started from
    image,     \* fullImageName of the process' tree node, NoImage without node
    cache,     \* evaluationCache of that node
    poisoned,  \* history: nodes whose verdict came from a deleted collection
    setter,    \* progress of each I/O control request that changes a setting
    req        \* progress of each file create on a filtered device

driverVars   == <<reg, ctx, pool>>
processVars  == <<proc, exe>>
registryVars == <<image, cache, poisoned>>
vars == <<driverVars, sessions, processVars, registryVars, setter, req>>

Settings == [wl: Whitelists, bl: Blacklists, active: BOOLEAN, inverse: BOOLEAN]
Context  == [wl: Collections, bl: Blacklists \union {Dangling},
             active: BOOLEAN, inverse: BOOLEAN]
Deleted     == [live |-> FALSE, names |-> {}]
Loaded(w)   == [live |-> TRUE, names |-> w]
Setter      == [pc: {"idle", "wlReload", "wlFlush", "blReload", "active", "inverse"},
                val: BOOLEAN]
IdleSetter  == [pc |-> "idle", val |-> FALSE]
Create(labels, pids) ==
    [pc: labels, pid: pids, dev: Devices, session: SessionIds,
     coll: Collections, listed: BOOLEAN, granted: BOOLEAN]
Evaluation  == Create({"blacklist", "handle", "check", "inverse"}, Pids)
Answered    == Create({"done"}, Callers)
IdleRequest == [pc |-> "idle"]

\* One type invariant: every variable holds what its C counterpart can hold.
\* An idle file create has no other fields, and the system process is never evaluated.
TypeOK ==
    /\ reg \in Settings
    /\ ctx \in Context
    /\ pool \in [Collections -> [live: BOOLEAN, names: SUBSET Images]]
    /\ sessions \subseteq [owner: Pids, path: Devices]
    /\ proc \in [Pids -> {"none", "created", "running", "exiting"}]
    /\ exe \in [Pids -> Executables \union {NoImage}]
    /\ image \in [Pids -> Images \union {NoImage}]
    /\ cache \in [Pids -> {"Empty", "Found", "NotFound"}]
    /\ poisoned \subseteq Pids
    /\ setter \in [Setters -> Setter]
    /\ req \in [Requests -> {IdleRequest} \union Evaluation \union Answered]
--------------------------------------------------------------------------------
(* Loading the driver *)

\* OnControlDeviceCreate: every setting comes from the registry.
LoadContext(r, c) ==
    [wl |-> c, bl |-> r.bl, active |-> r.active, inverse |-> r.inverse]

StartPool(r, c) == [h \in Collections |-> IF h = c THEN Loaded(r.wl) ELSE Deleted]

\* Processes started before the load-image callback was set are not in the tree.
EarlyProcesses ==
    {st \in [Pids -> {"none", "running"}] : \A p \in Pids \ EarlyPids : st[p] = "none"}

Init ==
    /\ reg \in Settings
    /\ \E c \in Collections :
          /\ ctx = LoadContext(reg, c)
          /\ pool = StartPool(reg, c)
    /\ sessions = {}
    /\ proc \in EarlyProcesses
    /\ exe \in {x \in [Pids -> Executables \union {NoImage}] :
                   \A p \in Pids : x[p] = NoImage <=> proc[p] = "none"}
    /\ image = [p \in Pids |-> NoImage]
    /\ cache = [p \in Pids |-> "Empty"]
    /\ poisoned = {}
    /\ setter = [t \in Setters |-> IdleSetter]
    /\ req = [r \in Requests |-> IdleRequest]

\* A bug check, a power loss or a reboot: only the registry survives.
Restart ==
    /\ "restart" \in Faults
    /\ \E c \in Collections :
          /\ ctx' = LoadContext(reg, c)
          /\ pool' = StartPool(reg, c)
    /\ sessions' = {}
    /\ proc' \in EarlyProcesses
    /\ exe' \in {x \in [Pids -> Executables \union {NoImage}] :
                    \A p \in Pids : x[p] = NoImage <=> proc'[p] = "none"}
    /\ image' = [p \in Pids |-> NoImage]
    /\ cache' = [p \in Pids |-> "Empty"]
    /\ poisoned' = {}
    /\ setter' = [t \in Setters |-> IdleSetter]
    /\ req' = [r \in Requests |-> IdleRequest]
    /\ UNCHANGED reg

--------------------------------------------------------------------------------
(* The process-id registry (HidHideProcessId... in Config.c) *)

Registered(p) == image[p] # NoImage

\* Mutant: the guard against a second registration is missing.
RegisterAlways(p, name) ==
    /\ image' = [image EXCEPT ![p] = name]
    /\ cache' = [cache EXCEPT ![p] = "Empty"]
    /\ UNCHANGED poisoned

\* HidHideProcessIdRegister: nothing happens when the pid is already registered.
Register(p, name) ==
    IF Registered(p)
    THEN UNCHANGED registryVars
    ELSE /\ image' = [image EXCEPT ![p] = name]
         /\ cache' = [cache EXCEPT ![p] = "Empty"]
         /\ UNCHANGED poisoned

\* Mutant: only the cached verdict goes, the node stays.
UnregisterKeepsNode(p) ==
    /\ cache' = [cache EXCEPT ![p] = "Empty"]
    /\ poisoned' = poisoned \ {p}
    /\ UNCHANGED image

\* HidHideProcessIdUnregister: the node and its cached verdict are gone.
Unregister(p) ==
    /\ image' = [image EXCEPT ![p] = NoImage]
    /\ cache' = [cache EXCEPT ![p] = "Empty"]
    /\ poisoned' = poisoned \ {p}

\* Mutant: only refusals are forgotten.
FlushedRefusals == [p \in Pids |-> IF cache[p] = "Found" THEN "Found" ELSE "Empty"]

\* BstFlushEvaluationCache: every node is visited.
FlushedCache == [p \in Pids |-> "Empty"]

--------------------------------------------------------------------------------
(* Processes come and go (OnSystemLoadImage, OnSystemProcessChange) *)

RequestPending(p) == \E r \in Requests : req[r].pc # "idle" /\ req[r].pid = p

\* The system creates a process; the driver ignores that notification.
ProcessCreate(p, x) ==
    /\ proc[p] = "none"
    /\ proc' = [proc EXCEPT ![p] = "created"]
    /\ exe' = [exe EXCEPT ![p] = x]
    /\ UNCHANGED <<driverVars, sessions, registryVars, setter, req>>

\* The first load-image notification of a process names its executable.
LoadExecutable(p) ==
    /\ proc[p] = "created"
    /\ proc' = [proc EXCEPT ![p] = "running"]
    /\ Register(p, exe[p])
    /\ UNCHANGED <<driverVars, sessions, exe, setter, req>>

\* The same, without an image name or without memory for the node.
LoadExecutableUnregistered(p) ==
    /\ "register" \in Faults
    /\ proc[p] = "created"
    /\ proc' = [proc EXCEPT ![p] = "running"]
    /\ UNCHANGED <<driverVars, sessions, exe, registryVars, setter, req>>

\* Every later notification names a module and takes the same path.
LoadModule(p, m) ==
    /\ proc[p] = "running"
    /\ Register(p, m)
    /\ UNCHANGED <<driverVars, sessions, processVars, setter, req>>

\* OnSystemProcessChange, first locked region. The threads of the process are
\* gone, so none of them is still inside OnDeviceFileCreate.
ProcessExit(p) ==
    /\ proc[p] \in {"created", "running"}
    /\ ~RequestPending(p)
    /\ proc' = [proc EXCEPT ![p] = "exiting"]
    /\ Unregister(p)
    /\ UNCHANGED <<driverVars, sessions, exe, setter, req>>

\* Mutant: the owner is not compared.
WithoutAnybody(p) == {}

\* SessionBlacklistCleanupForPid
WithoutOwner(p) == {e \in sessions : e.owner # p}

\* OnSystemProcessChange, second locked region; the pid may be reused after it.
ProcessExitCleanup(p) ==
    /\ proc[p] = "exiting"
    /\ sessions' = WithoutOwner(p)
    /\ proc' = [proc EXCEPT ![p] = "none"]
    /\ exe' = [exe EXCEPT ![p] = NoImage]
    /\ UNCHANGED <<driverVars, registryVars, setter, req>>

\* OnControlDeviceIoAddSessionBlacklist: the whole list is built before one
\* splice under the lock; a malformed list or an allocation failure changes nothing.
AddSessionBlacklist(p, paths) ==
    /\ "session" \in Ops
    /\ proc[p] = "running"
    /\ sessions' = sessions \union [owner: {p}, path: paths]
    /\ UNCHANGED <<driverVars, processVars, registryVars, setter, req>>

\* OnControlDeviceIoClearSessionBlacklist
ClearSessionBlacklist(p) ==
    /\ "session" \in Ops
    /\ proc[p] = "running"
    /\ sessions' = WithoutOwner(p)
    /\ UNCHANGED <<driverVars, processVars, registryVars, setter, req>>

--------------------------------------------------------------------------------
(* Changing a setting: the registry first, the context under the lock after it. *)
(* A registry write that fails changes nothing and returns.                     *)

At(t, label) == setter[t].pc = label
Goto(t, label) == setter' = [setter EXCEPT ![t].pc = label]
Return(t) == setter' = [setter EXCEPT ![t] = IdleSetter]

SetWhitelist(t, w) ==
    /\ "whitelist" \in Ops /\ At(t, "idle")
    /\ reg' = [reg EXCEPT !.wl = w]
    /\ Goto(t, "wlReload")
    /\ UNCHANGED <<ctx, pool, sessions, processVars, registryVars, req>>

\* Mutant: the old collection is forgotten instead of deleted.
PoolWithForgotten(h) == pool

\* The collection is deleted, and the new one may get the address of the old one.
PoolWithout(h) == [pool EXCEPT ![h] = Deleted]

\* Mutant: the names are added to the ones that were loaded.
AddedWhitelist == Loaded(reg.wl \union pool[ctx.wl].names)

ReloadedWhitelist == Loaded(reg.wl)

ReloadWhitelist(t) ==
    /\ At(t, "wlReload")
    /\ \E c \in Collections :
          /\ ~PoolWithout(ctx.wl)[c].live
          /\ pool' = [PoolWithout(ctx.wl) EXCEPT ![c] = ReloadedWhitelist]
          /\ ctx' = [ctx EXCEPT !.wl = c]
    /\ Goto(t, "wlFlush")
    /\ UNCHANGED <<reg, sessions, processVars, registryVars, req>>

\* HidHideDriverCreateCollectionForMultiStringProperty deletes what it created
\* and leaves the handle; SetWhitelist returns before the flush.
ReloadWhitelistFails(t) ==
    /\ "reload" \in Faults
    /\ At(t, "wlReload")
    /\ \E c \in Collections :
          /\ ~PoolWithout(ctx.wl)[c].live
          /\ ctx' = [ctx EXCEPT !.wl = c]
    /\ pool' = PoolWithout(ctx.wl)
    /\ Return(t)
    /\ UNCHANGED <<reg, sessions, processVars, registryVars, req>>

FlushEvaluationCache(t) ==
    /\ At(t, "wlFlush")
    /\ cache' = FlushedCache
    /\ poisoned' = {}
    /\ Return(t)
    /\ UNCHANGED <<driverVars, sessions, processVars, image, req>>

SetBlacklist(t, b) ==
    /\ "blacklist" \in Ops /\ At(t, "idle")
    /\ reg' = [reg EXCEPT !.bl = b]
    /\ Goto(t, "blReload")
    /\ UNCHANGED <<ctx, pool, sessions, processVars, registryVars, req>>

\* Mutant: the paths are added to the ones that were loaded.
AddedBlacklist == IF ctx.bl = Dangling THEN reg.bl ELSE ctx.bl \o reg.bl

ReloadedBlacklist == reg.bl

ReloadBlacklist(t) ==
    /\ At(t, "blReload")
    /\ ctx' = [ctx EXCEPT !.bl = ReloadedBlacklist]
    /\ Return(t)
    /\ UNCHANGED <<reg, pool, sessions, processVars, registryVars, req>>

ReloadBlacklistFails(t) ==
    /\ "reload" \in Faults
    /\ At(t, "blReload")
    /\ ctx' = [ctx EXCEPT !.bl = Dangling]
    /\ Return(t)
    /\ UNCHANGED <<reg, pool, sessions, processVars, registryVars, req>>

SetActive(t, v) ==
    /\ "active" \in Ops /\ At(t, "idle")
    /\ reg' = [reg EXCEPT !.active = v]
    /\ setter' = [setter EXCEPT ![t] = [pc |-> "active", val |-> v]]
    /\ UNCHANGED <<ctx, pool, sessions, processVars, registryVars, req>>

ApplyActive(t) ==
    /\ At(t, "active")
    /\ ctx' = [ctx EXCEPT !.active = setter[t].val]
    /\ Return(t)
    /\ UNCHANGED <<reg, pool, sessions, processVars, registryVars, req>>

SetInverse(t, v) ==
    /\ "inverse" \in Ops /\ At(t, "idle")
    /\ reg' = [reg EXCEPT !.inverse = v]
    /\ setter' = [setter EXCEPT ![t] = [pc |-> "inverse", val |-> v]]
    /\ UNCHANGED <<ctx, pool, sessions, processVars, registryVars, req>>

\* Mutant: the wrong field, as copied from SetActive.
ApplyInverseToActive(t) ==
    /\ At(t, "inverse")
    /\ ctx' = [ctx EXCEPT !.active = setter[t].val]
    /\ Return(t)
    /\ UNCHANGED <<reg, pool, sessions, processVars, registryVars, req>>

ApplyInverse(t) ==
    /\ At(t, "inverse")
    /\ ctx' = [ctx EXCEPT !.inverse = setter[t].val]
    /\ Return(t)
    /\ UNCHANGED <<reg, pool, sessions, processVars, registryVars, req>>

--------------------------------------------------------------------------------
(* A file create on a filtered device (OnDeviceFileCreate) *)

requestFrame == <<driverVars, sessions, processVars, setter>>

\* Blacklisted, persistent part: the first entry for the device decides; it lets
\* only callers of the jailed session see the device.
FirstMatch(b, d) == SelectInSeq(b, LAMBDA e : e.path = d)
JailedIn(e, s) == s # 0 /\ e.jail # 0 /\ s = e.jail
Blacklisted(d, s) ==
    LET i == FirstMatch(ctx.bl, d)
    IN IF i # 0 THEN ~JailedIn(ctx.bl[i], s)
                ELSE \E e \in sessions : e.path = d

\* Mutant: SYSTEM_PID is not compared.
EvaluatedAlways(p) == ctx.active

\* GetActive, and the exception for the system process.
Evaluated(p) == p # SystemPid /\ ctx.active

\* The caller enters; the handle is not read yet.
Unread == CHOOSE c \in Collections : TRUE

OnDeviceFileCreate(r, p, d, s) ==
    /\ req[r].pc = "idle"
    /\ p \in Pids => proc[p] = "running"
    /\ req' = [req EXCEPT ![r] =
          [pc |-> IF Evaluated(p) THEN "blacklist" ELSE "done",
           pid |-> p, dev |-> d, session |-> s, coll |-> Unread,
           listed |-> FALSE, granted |-> TRUE]]
    /\ UNCHANGED <<requestFrame, registryVars>>

CheckBlacklist(r) ==
    /\ req[r].pc = "blacklist"
    /\ \E hidden \in BOOLEAN :
          /\ ctx.bl # Dangling => hidden = Blacklisted(req[r].dev, req[r].session)
          /\ req' = [req EXCEPT ![r].pc = IF hidden THEN "handle" ELSE "done"]
    /\ UNCHANGED <<requestFrame, registryVars>>

\* Whitelisted reads the handle without holding the lock.
ReadWhitelistHandle(r) ==
    /\ req[r].pc = "handle"
    /\ req' = [req EXCEPT ![r].pc = "check", ![r].coll = ctx.wl]
    /\ UNCHANGED <<requestFrame, registryVars>>

Verdict(found) == IF found THEN "Found" ELSE "NotFound"
Answer(r, listed) ==
    req' = [req EXCEPT ![r].pc = "inverse", ![r].coll = Unread,
                       ![r].listed = listed]

\* HidHideProcessIdCheckFullImageNameAgainstWhitelist, without an evaluation:
\* no node, or a verdict in the cache.
CheckWhitelistCached(r) ==
    LET p == req[r].pid IN
    /\ req[r].pc = "check"
    /\ Registered(p) => cache[p] # "Empty"
    /\ Answer(r, Registered(p) /\ cache[p] = "Found")
    /\ UNCHANGED <<requestFrame, registryVars>>

\* With an evaluation, whose result is cached. Scanning a collection that has
\* been deleted can return anything.
CheckWhitelistScan(r) ==
    LET p == req[r].pid
        c == req[r].coll
    IN
    /\ req[r].pc = "check"
    /\ Registered(p) /\ cache[p] = "Empty"
    /\ \E found \in BOOLEAN :
          /\ pool[c].live => found = (image[p] \in pool[c].names)
          /\ cache' = [cache EXCEPT ![p] = Verdict(found)]
          /\ Answer(r, found)
    /\ poisoned' = IF pool[c].live THEN poisoned ELSE poisoned \union {p}
    /\ UNCHANGED <<requestFrame, image>>

\* Mutant: inverse only ever takes access away.
GrantedUnlessInverse(listed) == listed /\ ~ctx.inverse

\* GetInverse, and the verdict.
Granted(listed) == listed # ctx.inverse

ReadInverse(r) ==
    /\ req[r].pc = "inverse"
    /\ req' = [req EXCEPT ![r].pc = "done",
                          ![r].granted = Granted(req[r].listed)]
    /\ UNCHANGED <<requestFrame, registryVars>>

\* The request is forwarded or completed with STATUS_ACCESS_DENIED.
Complete(r) ==
    /\ req[r].pc = "done"
    /\ req' = [req EXCEPT ![r] = IdleRequest]
    /\ UNCHANGED <<requestFrame, registryVars>>

--------------------------------------------------------------------------------
ProcessNext ==
    \E p \in Pids :
       \/ \E x \in Executables : ProcessCreate(p, x)
       \/ LoadExecutable(p)
       \/ LoadExecutableUnregistered(p)
       \/ \E m \in Modules : LoadModule(p, m)
       \/ ProcessExit(p)
       \/ ProcessExitCleanup(p)
       \/ \E paths \in SUBSET Devices : AddSessionBlacklist(p, paths)
       \/ ClearSessionBlacklist(p)

SetterNext ==
    \E t \in Setters :
       \/ \E w \in Whitelists : SetWhitelist(t, w)
       \/ ReloadWhitelist(t)
       \/ ReloadWhitelistFails(t)
       \/ FlushEvaluationCache(t)
       \/ \E b \in Blacklists : SetBlacklist(t, b)
       \/ ReloadBlacklist(t)
       \/ ReloadBlacklistFails(t)
       \/ \E v \in BOOLEAN : SetActive(t, v)
       \/ ApplyActive(t)
       \/ \E v \in BOOLEAN : SetInverse(t, v)
       \/ ApplyInverse(t)

RequestNext ==
    \E r \in Requests :
       \/ \E p \in Callers, d \in Devices, s \in SessionIds :
             OnDeviceFileCreate(r, p, d, s)
       \/ CheckBlacklist(r)
       \/ ReadWhitelistHandle(r)
       \/ CheckWhitelistCached(r)
       \/ CheckWhitelistScan(r)
       \/ ReadInverse(r)
       \/ Complete(r)

Next == ProcessNext \/ SetterNext \/ RequestNext \/ Restart

Spec == Init /\ [][Next]_vars

--------------------------------------------------------------------------------
(* Properties *)

NoneAt(label) == \A t \in Setters : setter[t].pc # label

\* The whitelist the driver consults is the persisted one as soon as no writer is
\* between its registry write and its reload, whatever the order in which
\* concurrent writers reloaded, and unless the last reload failed.
WhitelistConverges ==
    NoneAt("wlReload") /\ pool[ctx.wl].live => pool[ctx.wl].names = reg.wl

\* The same for the blacklist.
BlacklistConverges ==
    NoneAt("blReload") /\ ctx.bl # Dangling => ctx.bl = reg.bl

\* The on/off settings in force are the persisted ones when no writer is between
\* "Persist the new setting" and "Apply the new setting".
SwitchesConverge ==
    /\ NoneAt("active")  => ctx.active = reg.active
    /\ NoneAt("inverse") => ctx.inverse = reg.inverse

\* A cached verdict is the one the loaded whitelist gives, once every SetWhitelist
\* has flushed. Verdicts that came out of a deleted collection are excepted.
CacheCoherent ==
    NoneAt("wlFlush") /\ pool[ctx.wl].live =>
       \A p \in Pids \ poisoned :
          Registered(p) /\ cache[p] # "Empty" =>
             (cache[p] = "Found" <=> image[p] \in pool[ctx.wl].names)

\* Only the loaded whitelist is ever allocated: no reload leaks a collection, and
\* none is in use under two handles.
OnlyLoadedWhitelistLive == \A c \in Collections : pool[c].live => c = ctx.wl

\* The file create evaluates a whitelist that still exists (Logic.c:18-19: the
\* lock protects the control-device context from multi-threading).
WhitelistHandleLive ==
    \A r \in Requests : req[r].pc = "check" => pool[req[r].coll].live

\* A pid that has been reused starts without the node, the verdict or the session
\* entries of the process that had it before.
NothingInherited ==
    \A p \in Pids :
       /\ proc[p] \in {"none", "created", "exiting"} => ~Registered(p)
       /\ proc[p] \in {"none", "created"} => \A e \in sessions : e.owner # p

\* The name checked against the whitelist is the one of the executable
\* (Logic.c:118: the first load notification is the executable's).
RegisteredIsExecutable ==
    \A p \in Pids : Registered(p) => image[p] = exe[p]

\* The entry by which a process hides a device is on the list until that process exits or
\* clears its own, or the machine restarts: no step of another process, of a setting or
\* of a create takes it away. (Whether the device is hidden then is for Blacklisted to say.)
OnlyOwnerUnhides ==
    [][\A e \in sessions \ sessions' :
          ProcessExitCleanup(e.owner) \/ ClearSessionBlacklist(e.owner) \/ Restart]_vars

\* What the registry of processes does here is what ProcessRegistry promises and
\* ProcessIdTree implements: a name stays until its process exits, and a verdict
\* until it does or everything is flushed.
Registry == INSTANCE ProcessRegistry
ImplementsRegistry == Registry!Spec
================================================================================
