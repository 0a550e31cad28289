----------------------------- MODULE FilterWatchdog -----------------------------
(***************************************************************************)
(* The upper-filter entries that put HidHide on the stack of a device, one *)
(* per device class, and the two programs that write them: the watchdog    *)
(* service (Watchdog/App.cpp), every five seconds, and the actions of the  *)
(* installer package (Installer/Program.cs).  An entry for a driver that   *)
(* is not loaded takes the devices of its class out of service.            *)
(*                                                                         *)
(* Neither program knows of the other.  Each call that reads or writes an  *)
(* entry is a step; those calls are made in libraries and tools that are   *)
(* not part of the repository.                                             *)
(***************************************************************************)
EXTENDS Naturals

CONSTANT MaxFailures   \* bound: calls that fail in one behaviour

ASSUME FailuresAssumption == MaxFailures \in Nat

Class(i) == <<"HIDClass", "XnaComposite", "XboxComposite">>[i]
Classes  == {Class(i) : i \in 1 .. 3}

VARIABLES
    filters,    \* classes with HidHide among their upper filters
    service,    \* state of the driver's service
    dog,        \* where WatchdogTask::runTask is
    class,      \* the class it is at
    cancelled,  \* sleep() will return true
    setup,      \* what the installer does, and the step it is at
    failures,   \* calls that have failed
    swept       \* history: what the watchdog saw at the start of a cycle that
                \* nothing has disturbed since

watchdogVars == <<dog, class>>
vars == <<filters, service, dog, class, cancelled, setup, failures, swept>>

ServiceStates == {"running", "stopped", "absent"}
SetupTasks == [task: {"none", "install", "uninstall"}, step: 0 .. 4]
NoSetup    == [task |-> "none", step |-> 0]

\* The type invariant: neither program leaves its list of classes.
TypeOK ==
    /\ filters \subseteq Classes
    /\ service \in ServiceStates
    /\ dog \in {"ended", "query", "remove", "has", "add", "sleep"}
    /\ class \in 1 .. 3
    /\ cancelled \in BOOLEAN
    /\ setup \in SetupTasks
    /\ failures \in 0 .. MaxFailures
    /\ swept \in {"running", "stopped", "disturbed"}

\* A call that fails
Fail ==
    /\ failures < MaxFailures
    /\ failures' = failures + 1
    /\ swept' = "disturbed"
--------------------------------------------------------------------------------
(* The watchdog *)

\* The service may be started and stopped at any time, and any number of times.
StartTask ==
    /\ dog = "ended"
    /\ dog' = "query" /\ class' = 1 /\ cancelled' = FALSE /\ swept' = "disturbed"
    /\ UNCHANGED <<filters, service, setup, failures>>

CancelAll ==
    /\ dog # "ended" /\ ~cancelled
    /\ cancelled' = TRUE
    /\ UNCHANGED <<filters, service, watchdogVars, setup, failures, swept>>

\* Mutant: a service that is not running is taken for one that cannot be queried.
SeenRunning == IF service = "running" THEN "has" ELSE "sleep"

Seen == IF service = "running" THEN "has" ELSE "remove"

GetServiceStatus ==
    /\ dog = "query"
    /\ service # "absent"
    /\ dog' = Seen
    /\ class' = 1
    /\ swept' = service
    /\ UNCHANGED <<filters, service, cancelled, setup, failures>>

\* There is no such service, or the query fails: nothing is done in this cycle.
GetServiceStatusFails ==
    /\ dog = "query"
    /\ \/ service = "absent" /\ swept' = "disturbed" /\ UNCHANGED failures
       \/ Fail
    /\ dog' = "sleep"
    /\ UNCHANGED <<filters, service, class, cancelled, setup>>

\* Mutant: the last class is forgotten.
NextClassButLast(call) ==
    IF class < 2 THEN class' = class + 1 /\ dog' = call
                 ELSE class' = 1 /\ dog' = "sleep"

\* Mutant: a counter that is not reset at the end of a cycle.
NextClassUnreset(call) ==
    class' = class + 1 /\ dog' = IF class < 3 THEN call ELSE "sleep"

\* The next class, with the call that comes first for it, or the end of the cycle
NextClass(call) ==
    IF class < 3 THEN class' = class + 1 /\ dog' = call
                 ELSE class' = 1 /\ dog' = "sleep"

\* A failure is logged, and the next class follows.
RemoveDeviceClassFilter ==
    /\ dog = "remove"
    /\ \/ filters' = filters \ {Class(class)} /\ UNCHANGED <<failures, swept>>
       \/ Fail /\ UNCHANGED filters
    /\ NextClass("remove")
    /\ UNCHANGED <<service, cancelled, setup>>

\* Mutant: no entry is added to a class while others have theirs.
MissingEverywhere == filters = {}

Missing == Class(class) \notin filters

\* A query that fails counts as missing.
HasDeviceClassFilter ==
    /\ dog = "has"
    /\ \/ ~Missing /\ NextClass("has") /\ UNCHANGED <<failures, swept>>
       \/ Missing /\ dog' = "add" /\ UNCHANGED <<class, failures, swept>>
       \/ Fail /\ dog' = "add" /\ UNCHANGED class
    /\ UNCHANGED <<filters, service, cancelled, setup>>

\* The entry may be there by now.
AddDeviceClassFilter ==
    /\ dog = "add"
    /\ \/ filters' = filters \union {Class(class)} /\ UNCHANGED <<failures, swept>>
       \/ Fail /\ UNCHANGED filters
    /\ NextClass("has")
    /\ UNCHANGED <<service, cancelled, setup>>

\* Five seconds, or until the task is cancelled
Sleep ==
    /\ dog = "sleep"
    /\ dog' = IF cancelled THEN "ended" ELSE "query"
    /\ UNCHANGED <<filters, service, class, cancelled, setup, failures, swept>>

WatchdogTask ==
    \/ GetServiceStatus \/ GetServiceStatusFails
    \/ RemoveDeviceClassFilter \/ HasDeviceClassFilter \/ AddDeviceClassFilter
    \/ Sleep
--------------------------------------------------------------------------------
(* The driver's service, at the hands of Windows: it loads, fails to load after a
   start of the machine, is deleted or made again with the driver package. *)

ServiceChanges ==
    /\ service' \in ServiceStates \ {service}
    /\ UNCHANGED <<filters, watchdogVars, cancelled, setup, failures, swept>>
--------------------------------------------------------------------------------
(* The installer package *)

Begin ==
    /\ setup = NoSetup
    /\ \E t \in {"install", "uninstall"} : setup' = [task |-> t, step |-> 0]
    /\ UNCHANGED <<filters, service, watchdogVars, cancelled, failures, swept>>

\* TryRun: the outcome of the tool makes no difference.
NextStep == setup' = [setup EXCEPT !.step = @ + 1]

\* OnBeforeInstall: the entries go in the order Xbox, Xna, Hid, then the device.
RemoveClassFilter ==
    /\ setup.task = "uninstall" /\ setup.step \in 0 .. 2
    /\ \/ filters' = filters \ {Class(3 - setup.step)} /\ swept' = "disturbed" /\ UNCHANGED failures
       \/ Fail /\ UNCHANGED filters
    /\ NextStep
    /\ UNCHANGED <<service, watchdogVars, cancelled>>

RemoveDevice ==
    /\ setup.task = "uninstall" /\ setup.step = 3
    /\ setup' = NoSetup
    /\ service' \in ServiceStates
    /\ UNCHANGED <<filters, watchdogVars, cancelled, failures, swept>>

\* OnAfterInstall: Run throws when the driver cannot be installed, and the
\* actions that follow are not executed.
InstallDevice ==
    /\ setup.task = "install" /\ setup.step = 0
    /\ \/ service' = "running" /\ NextStep
       \/ setup' = NoSetup /\ service' \in ServiceStates
    /\ UNCHANGED <<filters, watchdogVars, cancelled, failures, swept>>

AddClassFilter ==
    /\ setup.task = "install" /\ setup.step \in 1 .. 3
    /\ \/ /\ filters' = filters \union {Class(setup.step)} /\ swept' = "disturbed"
          /\ UNCHANGED failures
       \/ Fail /\ UNCHANGED filters
    /\ NextStep
    /\ UNCHANGED <<service, watchdogVars, cancelled>>

\* The event manifests are installed last; or the installer is ended at any step.
EndSetup ==
    /\ setup # NoSetup
    /\ setup' = NoSetup
    /\ UNCHANGED <<filters, service, watchdogVars, cancelled, failures, swept>>

Installer == RemoveClassFilter \/ RemoveDevice \/ InstallDevice \/ AddClassFilter \/ EndSetup
--------------------------------------------------------------------------------
Init ==
    /\ filters \in SUBSET Classes
    /\ service \in ServiceStates
    /\ dog = "ended" /\ class = 1 /\ cancelled = FALSE
    /\ setup = NoSetup
    /\ failures = 0
    /\ swept = "disturbed"

Next ==
    \/ StartTask \/ CancelAll
    \/ WatchdogTask
    \/ ServiceChanges
    \/ Begin \/ Installer

\* The task's thread is scheduled, and sleep returns.
Spec == Init /\ [][Next]_vars /\ WF_vars(WatchdogTask)
--------------------------------------------------------------------------------
\* A cycle in which nothing failed, and the installer wrote nothing, leaves all
\* classes alike, as the service demands that was seen at its start, also when the
\* service, or the order to end, changes in the middle of it.
CycleComplete ==
    dog = "sleep" /\ swept # "disturbed" =>
        filters = IF swept = "running" THEN Classes ELSE {}

Alone == dog # "ended" /\ ~cancelled /\ setup = NoSetup

\* "Prevents bricked HID devices": while the driver stays unloaded and the watchdog
\* is left alone, every class loses its entry in the end and does not get it back,
\* whatever calls fail before and wherever the installer was ended.
DriverlessClassesCleared ==
    <>[](service = "stopped" /\ Alone) => <>[](filters = {})

\* While the driver stays loaded, every class gets its entry back and keeps it.
MissingFiltersRestored ==
    <>[](service = "running" /\ Alone) => <>[](filters = Classes)
================================================================================
