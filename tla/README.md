# HidHide in TLA+

HidHide hides human interface devices (game controllers) from applications. A
kernel-mode filter driver sits on every HID device and refuses to open a hidden
device to any process that is not on a whitelist. A command-line tool and a GUI
change the settings through a control device; a watchdog service keeps the driver
registered as a class filter and records diagnostics.

This directory specifies the program as it is in `src/`, checks small instances with
TLC and proves the most important facts with TLAPS. All paths below are relative to
`src/`; `Logic.c`, `Config.c`, `Logic.h`, `ControlDevice.c`, `Device.c` and `Driver.c`
are those of `HidHide/src/`. `PROJECT.json` lists the components, the runs, the mutated
definitions that each property detects, the source lines behind every definition, the
findings, the hazards and the theorems.

## The system

| Component | State it keeps | Operations | Status |
|---|---|---|---|
| Settings and access control (`Logic.c`, `Config.c`, `ControlDevice.c`) | settings in the registry; `CONTROL_DEVICE_CONTEXT` (whitelist and blacklist collections, `active`, `whitelistedInverse`, session entries) | nine I/O control requests; `OnDeviceFileCreate` for every open of a filtered device | `HidHideDriver`, `HidHideVerdicts` |
| Process registry (`Config.c`) | a binary search tree from process id to image name, with a cached verdict per node | register, unregister, check with cache, flush, self-test | `ProcessRegistry`, `ProcessIdTree` |
| Driver and device lifetime (`Logic.c`, `ControlDevice.c`, `Device.c`, `Driver.c`) | the control device, its list and pointer, the lock, the notification routines, the device count, the pending shutdown | load with roll-back, add and remove a filter device, shutdown, delete the control device | `DriverLifetime` |
| Session-blacklist list (`Logic.c:591-741`) | a doubly linked list of entries with their owner | add a multi-string, clear, clean up for a process | as a set, in `HidHideDriver` |
| Client proxy and command line (`HidHideCLI/src`) | a cached copy of the four settings, write-through flag | get, set, apply, cancel; command interpreter | `ClientSession` |
| Configuration client (`HidHideClient/src`) | dialog state, list box, tree, the devices it enumerated | probe with retries, handlers that write lists back, refreshes | `ClientSession`, `DeviceTree` |
| HID enumeration (`HidHideCLI/src/HID.cpp`) | none: it reads the machine's device nodes | base containers, XUSB ancestors, groups, presence | `DeviceTree` |
| Watchdog and installer (`Watchdog/App.cpp`, `Installer/Program.cs`) | class-filter entries in the system registry | five-second poll; install, uninstall | `FilterWatchdog` |
| Diagnostics trace (`Watchdog/DiagnosticsTraceService.cpp`, `EtwTraceSession.cpp`, `DiagnosticsTraceHandler.cpp`) | capture state, file, tuned channels, kernel session | start, stop, discard, download from HTTP handlers | `DiagnosticsTrace` |
| Multi-strings and jails (`Config.c`, `Logic.c:755-791`, `Utils.cpp`) | none | parse and format lists | not modelled |
| Volumes, logging, manifests, packages | none of their own | queries, output | not modelled |

How they interact:

- Windows calls the driver from arbitrary threads: process and image notifications
  (`OnSystemProcessChange`, `OnSystemLoadImage`), device arrival and removal, file
  creates on any filtered device, and the shutdown notification. Clients send I/O
  control requests to one queue with `WdfIoQueueDispatchParallel`
  (`ControlDevice.c:59`). The control device is exclusive (`ControlDevice.c:40`): there
  is one handle at a time, but one client may have several requests in flight on it.
- All of these share the control-device context and the process tree, protected by
  one lock, `s_criticalSectionLock`. Regions under the lock are atomic; nothing spans
  two of them. A file create takes the lock four times (`GetActive`, `Blacklisted`, the
  cached whitelist check, `GetInverse`), a setting is written to the registry outside
  the lock and applied under it afterwards, `SetWhitelist` flushes the cache in a
  third step.
- Settings survive in the registry; everything else starts anew with the driver.
- The clients are programs of their own. Each opens the control device when it can,
  copies the settings into its `FilterDriverProxy`, and works on the copy: the GUI
  sends each change at once, the command line all of them when its input ends.
- The GUI enumerates devices on its own thread, while Windows tells it of arrivals
  on another; it turns the tree of devices into a blacklist and the other way round.
- The watchdog and the installer write the same class filters, and neither knows of
  the other. Both look at a driver that Windows starts and stops.
- The driver unloads only when the control device has been deleted
  (`Logic.c:14-15`), which has to happen after the shutdown and after the last filter
  device, in whatever order those come.

What is hard: steps of two requests between two locked regions; a handle that is
read without the lock and used after it; pids that Windows reuses; verdicts cached
over a change of the whitelist; reloads that fail half-way; a stop between registry
and context; a load that fails in the middle; the last device racing the
shutdown; captures whose steps fail, or outlive the watchdog, half-way; a client
that is refused or killed between two of the settings it applies; a dialog that
rebuilds a list from what it shows while devices come and go; and two writers of
the class filters. `PROJECT.json` lists each hazard at its line with the properties
aimed at it, or with the reason why there is none.

## The modules

### `HidHideDriver`: settings, processes and file creates

One action per region the driver runs under its lock, and one per step outside it.

| Variable | Code |
|---|---|
| `reg` | the four values under the driver's `Parameters` key |
| `ctx` | `CONTROL_DEVICE_CONTEXT`; `ctx.wl` is the whitelist handle, `ctx.bl` the blacklist or `Dangling` |
| `pool` | the whitelist collections by address: alive or deleted, and their names |
| `sessions` | the entries of `sessionBlacklistHead` |
| `image`, `cache` | name and `evaluationCache` of the tree node of each pid |
| `proc`, `exe` | what Windows knows of each process |
| `setter` | where each I/O control request that changes a setting stands |
| `req` | where each file create stands, and the values it has read |
| `poisoned` | history: nodes whose verdict was computed on a deleted collection |

- Processes: `ProcessCreate`, `LoadExecutable`, `LoadModule` (both are
  `OnSystemLoadImage`; the driver cannot tell them apart), `ProcessExit` and
  `ProcessExitCleanup` (the two locked regions of `OnSystemProcessChange`).
- Settings: `SetWhitelist` writes the registry, `ReloadWhitelist` deletes the old
  collection and loads the new one, `FlushEvaluationCache` forgets the verdicts; the
  blacklist and the two switches in the same way. `ReloadWhitelistFails` is the early
  return of `Logic.c:881`: the old collection is gone and the flush is skipped.
- File creates: `OnDeviceFileCreate` (with `GetActive`), `CheckBlacklist`,
  `ReadWhitelistHandle` (the unlocked read of `Logic.c:751`), `CheckWhitelistCached` or
  `CheckWhitelistScan`, `ReadInverse`, `Complete`. A scan of a deleted collection is
  undefined, and returns any answer; so does a blacklist check on a dangling handle.
- `Restart` is a bug check, a power loss or a reboot at any point: only `reg`
  survives. It also stands for the crash that undefined behaviour may end in.

Device paths and image names are members of small sets; a whitelist is a set of
names; a blacklist is a sequence, because its first entry for a device decides, and
an entry carries its jail, the one session that may see the device.

`HidHideVerdicts` extends it with a history of the verdicts the driver as a whole
would have given at each moment of a file create.

### `ProcessRegistry` and `ProcessIdTree`: the registry and the tree behind it

`ProcessRegistry` is the abstract specification: a map from pid to name and verdict.
`ProcessIdTree` has the `Bst...` functions of `Config.c` on nodes and pointers, the registry
operations on top of them, and the self-test (`HidHideVerifyInternalConsistency`) with
its pattern and expected counts. `tree.root` is the static pointer, `tree.nodes` the nodes
allocated by their addresses; a node is a record of pid, name, cached verdict and two
pointers. The recursive functions of the code differ in where they go on from a node
(`Toward` a pid, to both children, or down the left), and `Visited` is the set of nodes
that such a recursion passes: the least one that has the start and is closed under that
choice. `Redirect` is what `BstInsert` and `BstDelete` assign through the pointer
they have come to. Both
`ProcessIdTree` and `HidHideDriver` implement `ProcessRegistry` (`ImplementsRegistry`),
which is what lets the driver module use the map instead of the tree.

### `DriverLifetime`: load, devices, shutdown

`load` walks through the calls of `OnDriverCreate`, `HidHideControlDeviceCreate` and
`OnControlDeviceCreate`; `MayFail` says which may fail. `RollBack` is what the framework
does with a driver that failed to load, including `OnControlDeviceContextCleanup`.
Each filter device goes through creation (`HidHideCreateDevice`), counting, removal
and `OnDeviceContextCleanup`. `UpdateDataForControlDevice...WhenNeeded` is split where
the code releases the lock: `UpdateData` decides, `DeleteControlDevice` and
`ClearPointer` act, and other threads run in between.

### `DiagnosticsTrace`: captures of the watchdog

`state`, `scope`, `tune`, `didTune` and `path` are the members of
`DiagnosticsTraceService`, `handle` that of its `EtwTraceSession`. `session`, `files` and
`tuned` are what Windows keeps, whether the watchdog runs or not: the file that the
kernel session `HidHideFieldTrace` records into, the captures on disk, and the event
channels that are not at their defaults. `Start`, `Stop` and `DiscardCapture` hold one
mutex, so one call is under way at a time; `pc` and `todo` say where it is, because the
process may `Exit` between any two calls to Windows, and any of those may fail. A
download (`GetEtlPathForDownload`, `OpenEtl`, `Served`) takes the mutex for its first
step only. `lost` is a history of the channels, and of the session, that a failed step
or an exit has left behind.

Names of captures are the time of `Start`. A new one is any name that no file, no
session and no download has; that it is later than all others is all that is used.
The session of an earlier watchdog may or may not be taken for stale
(`LoggerThreadIndicatesSafeToStop`), so a start over it may replace it or fail.

### `ClientSession`: the command line and the configuration client

| Variable | Code |
|---|---|
| `reg` | the settings as the driver's Get requests report them |
| `holder` | who has the control device open; the driver lets one in |
| `pc` | where a client is: closed, in the constructor of `FilterDriverProxy`, collecting commands, applying, in its dialog, in a message box |
| `cache` | the members of its `FilterDriverProxy` |
| `box`, `stale` | the entries of `CWhitelistDlg`'s list box; a refresh of it that is posted |
| `found` | history: the settings when the session was opened |

Each request to the driver is a step with its possible outcomes. `ListRequest` may
leave a list in force, persisted but not loaded, or untouched, for that is how
`HidHideDriver` orders the write and the reload; `SwitchRequest` fails or succeeds
as a whole. `Throw` is the exception that a refused request becomes: the command line
closes, a dialog that was open keeps its device until its message box is answered.
`Kill` ends any client between any two requests.

- Opening: `Device`, then `GetActive`, `GetBlacklist`, `GetWhitelist`, `GetInverse` and
  `OwnEntry`, which puts the client's own program on the right side of the whitelist.
- Command line: `ExecuteCommand` has one disjunct per command that changes a setting;
  `Cancel`, `LineError`, `EndOfInput`; `ApplyWhitelist` to `ApplyInverse` compare with
  the driver and send what differs.
- GUI: `Probe`, `ProbeClose`, `Answer` and `DeviceFails` (the device can be taken between
  the probe and the dialog); `Insert`, `Delete` and `Drop` of applications,
  `CheckInverse`, `CheckEnable`, `ChangeTree`; `RefreshBox` and `ShowTab`.

The driver is reduced to the settings it reports: requests of two clients cannot be
in flight together, because the device is exclusive, and a client sends one at a time.

### `DeviceTree`: the tree of devices and the blacklist

`Nodes`, `Parent`, `ContainerId` and the sets of interfaces and classes describe a
machine. `BaseContainer`, `Xusb` and `BaseContainerDeviceCount` are what `HID.cpp` finds
by walking it, and `Group` is what it puts under one top-level item.

| Variable | Code |
|---|---|
| `known`, `present` | the nodes Windows knows, and those that are there |
| `bl` | the blacklist, in the proxy and in the driver |
| `rows`, `count` | `m_BlacklistItemData` of the last refresh, and `baseContainerDeviceCount` then |
| `shown`, `parents`, `ticked` | items of the tree, checked top-level items, checked devices |
| `todo` | devices that the handler under way is still to change with their top-level item |
| `collapsed` | groups whose item carries `TVIS_EXPANDEDONCE` alone |
| `vain` | history: groups whose item was clicked in that state since the last refresh, or the last click that was heeded |
| `filter`, `visible` | the two check boxes; the tab is selected |
| `arrived`, `pending` | `OnCmNotificationCallback` is to be called; the refresh is posted |

`OnUserMessageRefresh` enumerates, filters and ticks in one step, on the thread of the
dialog; `Plug`, `Unplug` and `Uninstall` come between any two of its steps. A click is
`ClickTopLevel`, `TickChild` or `UntickChild`, and ends in `Chosen`, the new blacklist.
The tree control may notify of the changes that the handler itself makes, and the handler
is entered again for each and writes a blacklist of its own: `Write` is one such run, the
click takes the first, and `SetDevices` the others until `todo` is empty. That every
change is notified, that none is, and anything in between, are all behaviours of the
model. `ClickIgnored` is the early return of `BlacklistDlg.cpp:262` (see "A click that is
filtered out" below).
A device that another program has opened exclusively does not report its usage, so the
set of gaming devices of one refresh is any subset of those present (`MayReportGaming`).

### `FilterWatchdog`: who writes the class filters

`filters` has the device classes with an entry, `service` the state of the driver's
service. `dog` and `class` are where `WatchdogTask::runTask` is, `setup` where the
installer is. Each call that reads or writes an entry is a step and may fail, the query
(`HasDeviceClassFilter`) and the addition that follows it among them; the watchdog
may be stopped and started, the installer may be ended at any step, and the service
changes at any time. `swept` is a history: what the watchdog saw at the start of a cycle
that neither a failure nor the installer has disturbed since.

## What the runs show

| Run | Instance | Question |
|---|---|---|
| `driver_lists` | two list writers, two creates, two collections, failing reloads and registrations, restarts | lists in force converge on the persisted ones whatever the order of the writers; a collection never leaks; cached verdicts agree with the loaded whitelist |
| `driver_processes` | two pids reused without bound, two executables, a module, two devices, one create, one writer of the switches, restarts | a reused pid inherits nothing; the registered name is the executable's; only a step of its owner, or a restart, takes a session entry away; the switches in force are the persisted ones when none is being written; the driver uses the registry as `ProcessRegistry` allows |
| `verdicts` | one client that changes every setting, jails, session entries, failing reloads, restarts, one create | with at most one change during a create, its verdict is one the driver stood for in that time |
| `process_tree` | four pids in any order, their nodes at any of four addresses | the tree stays a search tree and loses no node, implements the registry, and its self-test passes |
| `driver_lifetime` | three devices around a shutdown, failing loads and devices | the control device is deleted once, after everything that needs it, and in the end; the count is exact |
| `diagnostics_trace` | four capture files, two downloads, every call failing, exits | what is offered or served is complete; a service that says it records does; what stays changed in Windows is accounted for by a failure or an exit |
| `client_session` | a script, a prompt and a GUI, three applications, one device, every request refused, clients killed | a working dialog edits what is in force; its list box is the whitelist whenever input is read; a command line that stops half-way has applied a prefix of its changes and nobody else's are lost; the device is released |
| `device_tree` | a controller with an XUSB container and two devices, one of which arrives, goes and is uninstalled; a keyboard | but for groups that were clicked in vain: the tree shows what is blacklisted; a top-level item is checked like its devices; a click takes no device off the blacklist but those it unchecks. A device that is there gets its item |
| `filter_watchdog` | three classes, two failing calls, the service in any state, install and uninstall | an undisturbed cycle leaves all classes alike; a watchdog that is left alone clears the entries of a driver that is not loaded, and restores those of one that is |

Three runs show where the code does something else than its own comments say:

- `driver_stale_handle`: `Whitelisted` reads the collection handle without the lock
  (`Logic.c:751`), and `SetWhitelist` deletes that collection before it is used.
- `driver_concurrent_switches`: two `SetActive` requests in parallel persist one value
  and apply the other (`Logic.c:958-967`).
- `driver_early_process`: a process that ran before the driver is registered under
  the next module it loads, not under its executable (`Logic.c:118-119`).

### A click that is filtered out

The handler of clicks in the tree of devices acts on eight transitions of an item's state
(`BlacklistDlg.cpp:262`): of items that are not expanded (0x1000, 0x1002) and of items that
are (0x1060, 0x1062). An item that has been expanded and is collapsed again carries
`TVIS_EXPANDEDONCE` without `TVIS_EXPANDED` (0x1040, 0x1042), and a click on it returns at
once: its box is checked, its devices and the blacklist are not, although the comment at
`BlacklistDlg.cpp:267` says that "A top-level change is also applied to all of its
children". The next click anywhere finds the box checked and blacklists the base container
and the XUSB node of a group of which no device is ticked; the other way round, a group
whose box was unchecked in vain stays hidden by its devices.

The model has the click (`ClickIgnored`), and `ParentRowMeansAll`, `TreeShowsBlacklist` and
`KnownEntriesKept` except the groups in `vain`, which a refresh or a click that is heeded
puts right. So they say that this click is the only way in which the tree and the
blacklist come apart. Without the exception TLC finds the sequence in a few steps:
`Collapse` and `ClickIgnored` violate `ParentRowMeansAll`, and a click on the keyboard
after them violates `TreeShowsBlacklist`. No run of its own is spent on it; it is listed
as a hazard.

### Other exceptions

`VerdictInForce` is stated for at most one change because with two it does not hold,
and nothing in the code says it should: a create may read `active` before it is
switched off, and the blacklist after a device has been added, and deny an access
that was allowed both before and after. Creates whose whitelist was deleted under
them are excepted, here and in `CacheCoherent`: they are the first finding.
`VerdictInForce` also excepts a create during which a list was gone, because a reload
had deleted it and then failed to load the new one: nothing says what it should be told.

### Bounds

- Two writers and two creates are enough for each pair of steps to interleave; a third
  adds no new pair, since a writer only touches shared state. Two collection
  addresses let a new whitelist get another address or the one just freed.
- Two pids let one process act while the other exits, and either pid be reused; all
  counts of reuse are covered, as processes have no identity beyond the pid.
- Four pids give a node two subtrees of which the right one has its lowest node below
  its first, which `BstDelete` needs for its interesting case; every insertion order
  occurs. The self-test has its own ten pids. What larger trees do is proved.
- Three devices give an addition, a removal and a failure at one time, next to the
  shutdown.
- Four capture files: one that an earlier watchdog still records, the service's own, and
  one for each download. No step touches more.
- Three clients are one of each kind: a command line that ends by itself, one that waits
  for a user, a GUI. The device lets one in at a time, so what a client meets is what
  the one before it has left. Three applications are the two programs and one whose
  file is gone; a list is only ever compared, extended and reduced, so one device path
  is enough next to it.
- Two devices in a base container are one that is clicked and one that is not; the
  keyboard is a device without a base container, and the group that another click is
  on. One of the two devices comes and goes (`Removable`), which lets a group be whole,
  partly there or known from before, and makes the counts of `CanBeBlocked` differ. As its
  sibling stays, the filter "present only" hides no group in this instance; what it
  does in others is part of what is proved. Every subset of the nodes may be blacklisted
  at the start.
- `MaxFailures = 2` in `FilterWatchdog` lets a cycle fail and the one that repairs it
  fail again.
- `MaxChanges = 2` in `HidHideVerdicts` counts changes as 0, 1 and more.
- Every other counter of the models is bounded by its constants.

Symmetry is used in `driver_lists`, over writers and creates, in `diagnostics_trace`, over
files and downloads, and in `process_tree`, over addresses; nothing distinguishes them.
The one temporal property among these runs, `ImplementsRegistry` of `process_tree`, is
about single steps, and the map it speaks of has no addresses in it.

### Fairness and deadlock

`driver_lifetime` checks `ShutdownDeletes`, under weak fairness of the threads inside the
driver as a whole: as long as one of them has something to do (the rest of
`OnSystemShutdown`, a deletion that was decided), one of them does it. The code
has no wait there but for the lock, which is held for a few statements. Nothing is
assumed about Windows shutting down or removing devices, so the property starts when
both have happened. The comment at `Logic.c:1045-1051` says that its author never saw
the deletion run: what the model shows is that the driver's part leads there
once all devices are gone, and that comment is about devices that are not removed.

`client_session` checks `DeviceReleased`, under weak fairness of the one program that
has the device open, as long as it has something to do: the requests of a constructor and
of `ApplyConfigurationChanges`, the end of a script's input, the messages in a dialog's
queue. Users are not assumed to do
anything, so a prompt, a dialog and a message box may keep the device, and nothing is
assumed of the programs that wait for it. `device_tree`
checks `ArrivalShown`, under weak fairness of the notification that Windows owes the
dialog, of the refresh it has posted to itself, and of a handler that runs, which has a
few items to go through. The property is about a user who looks at a tree that is not
limited to gaming devices: the filter "present only" then lets every device pass that is
there. `filter_watchdog` checks
`DriverlessClassesCleared` and `MissingFiltersRestored`, under weak fairness of the
watchdog's thread; that its calls do not fail for ever is the bound `MaxFailures`, and
that it is left alone is the premise of both properties.

`driver_lifetime` does not check deadlock: an unloaded driver has no next step. All
other runs do.

## What is proved

The `...Proofs` modules hold for every value of the constants: any number of processes,
devices, writers, creates, captures, downloads and clients, any machine, any choice of
failures. The assumptions are the named `ASSUME`s of the modules (finite devices, pids
and names that do not collide, sets of the right type, and devices that are not below
themselves), which TLC evaluates in every run.

`HidHideDriverProofs`:

- `TypeCorrect`: `TypeOK` is inductive by itself.
- `SettingsConverge`: `WhitelistConverges`, `BlacklistConverges` and
  `OnlyLoadedWhitelistLive`. They are inductive only together: a reload must know that
  the address it takes is not the loaded one. The argument is that a reload reads the
  registry under the lock, so the last one to run sees the last value written.
  `NoWhitelistLeaks` and `BlacklistIsThePersisted` state two of the three alone.
- `HiddenUntilTheOwnerIsDone`: `OnlyOwnerUnhides`, action by action. It names the step: an
  entry goes with the clean-up for its own owner, with its owner's request to clear, or
  with a restart. Whether the device is hidden also depends on the persistent
  blacklist, whose jails come first, and on `active`; the theorem is about the entry.
- `CacheStaysCoherent`: relative to the types and to `OnlyLoadedWhitelistLive`, a create
  that scans a live collection scans the loaded one, and the flush that follows each
  successful reload covers the rest.
- `PidReuseIsClean` and `RegistrationIsExecutable` (assuming no early process and no failed
  registration; `driver_early_process` shows that it is needed). The second needs that
  a running process is registered, so that a module never is.
- `SingleWriterSwitches`: with one writer, the value in `setter` is the persisted one.
  With two it is false, as `driver_concurrent_switches` shows.
- `DriverImplementsRegistry`: the refinement, step by step.

`ProcessIdTreeProofs`: `RangesFit` gives each node the open interval of the pids whose
recursion passes it. The invariant speaks of single nodes and of pairs of them: a
node's pid lies in its interval and cuts it into those of its children, two intervals
are nested or apart, and there is a child wherever there are pids. A new node gets
the half of an interval that had no child. A deletion extends those intervals that
began or ended at the deleted pid, and everything the code does then falls into place
because no pid lies between the deleted one and the lowest on its right. No induction
over trees is needed: that a recursion for a pid reaches every node whose interval
has it follows from one step, at a node with a shortest interval among those around it
that the recursion has reached (`PathHas`), and the same choice finds the end of an
insertion (`OneEnd`) and the lowest node (`LowestFacts`). `LookupFinds` then makes
`BstLookup` a function of the nodes, and `StaysSearchTree`, `LosesNothing` and the
refinement `TreeImplementsRegistry` follow for any number of processes, with pool
allocations that fail, at any addresses. With `DriverImplementsRegistry` this closes the gap
between the map that `HidHideDriver` uses and the tree that the code has.

`DriverLifetimeProofs`: `LifetimeInvariant` is one inductive invariant for loading,
devices and shutdown. `CountMatchesDevices` makes the cardinality of a set of devices
equal to the counter, which ties "the count is zero" to "no device is left". `LoadedInv`
says that as long as no shutdown is pending or some device is around, the control
device is usable; that whoever decided to delete it did so after both; and that it is
alone. From it follow `LifetimeTypeCorrect` (the counter stays between zero and the
number of devices), `CountIsExact`, `ControlDeviceDeletedOnce` and `ControlDeviceGoesLast`.
The last assumes that one call does not fail (below).
`ShutdownDeletes` is under "Liveness".

`DiagnosticsTraceProofs`: `TraceInv` is one inductive invariant in four parts. `PhaseInv`
ties the step of the call under way to what the service has recorded; `PathInv` keeps
the path of a call that starts apart from those of all downloads and sessions, which
is what makes a late `OpenEtl` harmless; `AccountInv` says which channels may be tuned
at each step: those of the scope while a call starts or a recording runs, those still
to do while they are restored, and otherwise only those in `lost`. All five properties
of the run follow. Two lemmas on sequences carry the loop over the channels.

`HidHideVerdictsProofs` extends the driver's proofs. `VerdictStoodFor`: with at most one
change during a file create, its verdict is one that the driver stood for. `CreateInv` says
that what a create has read, completed by what it has still to read (`Fits`), is what
the inputs are now, or else is the input of a verdict already seen (`Explained`). The heart
of it is that a step of the driver changes at most one of the four inputs: the
inputs before the one change, and those after it, then cover all mixtures that a create
can read. Every fault of the model may occur. The history excepts a create that met a
list which a failed reload left deleted, since the driver then stands for no verdict
to compare with, and one that used a whitelist deleted under it (`TaintedNow`).

`ClientSessionProofs`: `SessionInv` is one conjunct per client, and the argument is
ownership. A client that reads, applies or has its dialog open is the holder of the
device, so no other client changes `reg`, and its own part of the invariant is a
matter of its own steps. `CacheInForce` needs `ReadInv`: the settings that the
constructor has read so far are in force, which the exclusive handle makes true
although they are read one by one. `AppliedPrefix` follows from `ApplyInv`, which says
it setting by setting. The four safety properties of the run follow.

`DeviceTreeProofs`: `TreeInv` adds to the properties that the tree, its top-level checks and
the history hold groups entirely or not at all (`GroupsAreWhole`), that the devices which a
click is still to change all change the same way and in no group that was clicked in
vain (`ClickUnderWay`), and that the ancestors of a present node are present. `Coherent` is
what a run of the handler has to leave behind, `ChosenNodes` says what it then writes,
and `WriteStep` derives the invariant; each kind of click is shown coherent. The argument
is that groups partition the enumerated devices, which rests on a lemma about base
containers: a base container is its own base container. It assumes of a machine
only that no node is below itself (`ParentsAssumption`). That the three recursive
functions satisfy their equations follows: `Way` is the set of nodes met on the way up
from a node, and the functions written down from it satisfy the equations
(`AncestorsEquation`, `BaseContainerEquation`, `XusbEquation`). The four safety properties of
the run are proved from `TreeInv`, the action property `KnownEntriesKept` among them.

`FilterWatchdogProofs`: `CycleInv` says which classes a cycle has passed and how it has left
them. `CycleComplete` follows for any number of failures before the cycle.

### Liveness

All five liveness properties are proved as well, from the fairness that the
specifications state. The provers know nothing of `ENABLED`, which weak fairness is about,
so each theorem has as hypothesis that the fair action is enabled where the code could take
a step, and concludes with the property that the run checks:

| Theorem | Property | Hypothesis |
| --- | --- | --- |
| `DriverLifetimeProofs!ControlDeviceGetsDeleted` | `ShutdownDeletes` | `ThreadsCanGoOn` |
| `ClientSessionProofs!DeviceIsReleased` | `DeviceReleased` | `HolderCanGoOn` |
| `DeviceTreeProofs!ArrivalsAreShown` | `ArrivalShown` | `MessagesCanBeHandled` |
| `FilterWatchdogProofs!DriverlessClassesAreCleared` | `DriverlessClassesCleared` | `TaskGoesOn`, failures end |
| `FilterWatchdogProofs!MissingFiltersAreRestored` | `MissingFiltersRestored` | `TaskGoesOn`, failures end |

The hypotheses can be read off the guards of the actions. TLC evaluates the enabledness
itself, state by state, when it checks the properties in the runs. Each proof has the
same two parts.

- An invariant that somebody still owes the rest. `OwedInv` (`DeletionIsOwed`): after the
  shutdown the process routine has still to be removed, or the shutdown has still to look at
  the count, or a thread is about to delete, or the control device is gone. It is inductive
  because the last `DeviceContextCleanup` and the shutdown decide under the same lock:
  whichever comes second finds the count at zero and the shutdown pending.
  `ArrivalsRemembered` (`NoArrivalIsForgotten`): a tree that should have an item of a device
  and has not has a notification or a refresh coming. `HeldInv` (`NoHandleIsLeftOpen`): a client that has the
  device is at a label where it goes on, or waits for its user. The watchdog is always somewhere
  in its cycle (`Somewhere`).
- Stages. No step of anybody takes back a stage, and a step of the fair action goes to the
  next: `Removing`, `Deciding`, `Deleting("delete")`, `Deleting("clear")`, `Gone` for the
  control device; the labels in `Onward` for a client; for the watchdog the rest of the
  cycle it is in, then one whole cycle, after which `Settled` stays true.

The runs bound the failures of the watchdog's calls by `MaxFailures`. The theorems
assume instead that from some time on no call fails (`NothingFails`), after any number of
failures. That a bounded counter stops growing would be an induction.

### Only model-checked

The enabledness above, and `SelfTestPasses`, which is one computation on ten given pids
that depends on no constant: TLC's evaluation of it is complete.

## Assumptions, and what is left out

- No device arrives after the shutdown notification, and a device is not removed
  while one of its file creates is pending. Both are promises of Windows.
- `driver_lifetime` excludes three failures that the code does not survive:
  `WdfDeviceCreateSymbolicLink` and `WdfIoQueueCreate` (the cleanup callback then walks a
  list head that was never initialised; the model ends in the state `bugcheck`) and
  `PsSetLoadImageNotifyRoutine` (the process routine stays registered while the driver is
  unloaded; `ControlDeviceLast` is violated when it is added to `MayFail`). They are listed
  as hazards.
- `AppendTailList` (`Logic.c:683`) is taken to do what its comment says, to append the
  entries of the local list. The function of the Windows kit takes the first entry of a
  list without a head, and here gets the head. Whether the list in the driver is the
  set of entries that `HidHideDriver` has depends on that function, which is not
  part of the repository, so no module is made of it.
- A registry write that fails changes nothing and returns; it is not a step.
- What Windows does with the trace session when its file reaches `MaximumFileSize`
  (`EtwTraceSession.cpp:317`), or when another program stops it, is not modelled: were the
  session to end, `Stop` and `DiscardCapture` would fail and the service stay Recording.
- `DeviceTree` counts the base container as blockable when as many of its devices are in
  the tree as it had child nodes (`BlacklistDlg.cpp:330`). The two are not the same
  nodes when a device is known but gone, or when a child is no human interface device;
  the code compares counts, and so does the model.
- The dialog rebuilds the blacklist from the devices it sees: an entry that names no
  node it enumerated is dropped at the first click. `KnownEntriesKept` speaks of the others.
- `DeviceTree` has calls to Windows succeed. An enumeration that throws ends the dialog, as
  a refused request does in `ClientSession`.
- The order of the list box, and names of files: a file that has no image name
  (`WhitelistDlg.cpp:235`) is not told from others.
- A driver service that is absent makes the watchdog skip its cycle (`App.cpp:65`), so
  entries for a driver that has been deleted stay. `DriverlessClassesCleared` is about
  a service that is there and stopped, the case that the code speaks of.
- The control device accepts requests before the lock that their handlers take exists
  (`ControlDevice.c:69`, `Logic.c:38-41`): `DriverLifetime` has no requests, and
  `HidHideDriver` starts with the lock.
- Multi-strings, jail suffixes and the splitting of command lines are formats without
  state, and `Utils.cpp` and `CliParsing.cpp` have unit tests; `Volume.cpp` only asks Windows.
- Buffer validation, the read-only requests, auditing and event logging.
- The process tree after the shutdown has removed the notification routines, and
  `HidHideProcessIdsCleanup` (`Config.c:372-379`), which nothing calls.

## What could follow

1. `HidHideDriver` composed with `DriverLifetime`, so that requests and notifications
   run against a control device that is being created or deleted.
2. The doubly linked list of session entries against the set in `HidHideDriver`, once
   the behaviour of `AppendTailList` for the driver's kit is pinned down.
3. `ClientSession` on top of `HidHideDriver` in place of the settings it reports, for a
   client that keeps several requests in flight.
4. Multi-strings and jail suffixes as functions against reference definitions.
