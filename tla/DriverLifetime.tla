------------------------------ MODULE DriverLifetime ------------------------------
(***************************************************************************)
(* The life of the HidHide driver: OnDriverCreate with its roll-back       *)
(* (Logic.c, ControlDevice.c), the filter devices that come and go         *)
(* (Device.c), the system shutdown, and the deletion of the control device *)
(* and of the lock that every callback of the driver needs.                *)
(*                                                                         *)
(* UpdateDataForControlDeviceDeletionAndDeleteControlDeviceWhenNeeded      *)
(* decides under the lock and acts after it: three steps per caller.       *)
(***************************************************************************)
EXTENDS Integers, FiniteSets

CONSTANTS
    Devices,   \* filter devices, one per HID device the driver is added to
    Shutdown,  \* the thread that runs OnSystemShutdown
    MayFail    \* the calls of OnDriverCreate and HidHideCreateDevice that may fail

LoadSteps == {"selftest", "device", "link", "queue", "context", "enable", "lock",
              "process", "image"}

ASSUME LifetimeAssumption ==
    /\ IsFiniteSet(Devices)
    /\ Shutdown \notin Devices
    /\ MayFail \subseteq (LoadSteps \ {"enable"}) \union {"path"}

VARIABLES
    load,             \* the next call of OnDriverCreate, or how it ended
    object,           \* the control device
    list,             \* sessionBlacklistHead has been initialised
    pointer,          \* s_wdfControlDevice is not NULL
    accepting,        \* the control device takes I/O requests
    lock,             \* s_criticalSectionLock
    notify,           \* the notification routines that are registered
    count,            \* numberOfDevicesCreated
    shutdownPending,
    dev,              \* progress of each filter device
    path,             \* filter devices that hold a deviceInstancePath
    pc                \* what each caller of UpdateData... has still to do

controlVars == <<object, list, pointer, accepting, lock>>
vars == <<load, controlVars, notify, count, shutdownPending, dev, path, pc>>

Callers == Devices \union {Shutdown}

\* Every variable holds what its C counterpart can hold.
TypeOK ==
    /\ load \in LoadSteps \union {"loaded", "failed", "unloaded", "bugcheck"}
    /\ object \in {"none", "live", "deleted"}
    /\ lock \in {"null", "live", "freed"}
    /\ list \in BOOLEAN /\ pointer \in BOOLEAN /\ accepting \in BOOLEAN
    /\ shutdownPending \in BOOLEAN
    /\ notify \subseteq {"process", "image"}
    /\ count \in 0..Cardinality(Devices)
    /\ dev \in [Devices -> {"absent", "created", "named", "present", "cleanup"}]
    /\ path \subseteq Devices
    /\ pc \in [Callers -> {"idle", "removeProcess", "update", "delete", "clear"}]

Init ==
    /\ load = "selftest"
    /\ object = "none" /\ lock = "null"
    /\ list = FALSE /\ pointer = FALSE /\ accepting = FALSE
    /\ notify = {}
    /\ count = 0 /\ shutdownPending = FALSE
    /\ dev = [d \in Devices |-> "absent"]
    /\ path = {}
    /\ pc = [c \in Callers |-> "idle"]

--------------------------------------------------------------------------------
(* OnDriverCreate, HidHideControlDeviceCreate and OnControlDeviceCreate *)

afterLoad == <<count, shutdownPending, dev, path, pc>>

SelfTest ==
    /\ load = "selftest" /\ load' = "device"
    /\ UNCHANGED <<controlVars, notify, afterLoad>>

\* WdfDeviceCreate stores the handle in s_wdfControlDevice itself.
CreateControlDevice ==
    /\ load = "device" /\ load' = "link"
    /\ object' = "live" /\ pointer' = TRUE
    /\ UNCHANGED <<list, accepting, lock, notify, afterLoad>>

CreateSymbolicLink ==
    /\ load = "link" /\ load' = "queue"
    /\ UNCHANGED <<controlVars, notify, afterLoad>>

CreateQueue ==
    /\ load = "queue" /\ load' = "context"
    /\ UNCHANGED <<controlVars, notify, afterLoad>>

\* InitializeListHead comes first; then the properties are read, which may fail.
InitializeContext ==
    /\ load = "context"
    /\ list' = TRUE
    /\ load' \in {"enable"} \union IF "context" \in MayFail THEN {"failed"} ELSE {}
    /\ UNCHANGED <<object, pointer, accepting, lock, notify, afterLoad>>

\* WdfControlFinishInitializing
EnableRequests ==
    /\ load = "enable" /\ load' = "lock"
    /\ accepting' = TRUE
    /\ UNCHANGED <<object, list, pointer, lock, notify, afterLoad>>

CreateLock ==
    /\ load = "lock" /\ load' = "process"
    /\ lock' = "live"
    /\ UNCHANGED <<object, list, pointer, accepting, notify, afterLoad>>

SubscribeProcesses ==
    /\ load = "process" /\ load' = "image"
    /\ notify' = notify \union {"process"}
    /\ UNCHANGED <<controlVars, afterLoad>>

SubscribeImages ==
    /\ load = "image" /\ load' = "loaded"
    /\ notify' = notify \union {"image"}
    /\ UNCHANGED <<controlVars, afterLoad>>

\* Any other call that fails is returned at once: nothing is undone here.
LoadFails ==
    /\ load \in MayFail \ {"context"} /\ load' = "failed"
    /\ UNCHANGED <<controlVars, notify, afterLoad>>

\* The framework deletes what OnDriverCreate left behind, and unloads the driver.
\* OnControlDeviceContextCleanup drains the list; a list head that was not
\* initialised, zeroed by the framework, leads it to a NULL entry.
RollBack ==
    /\ load = "failed"
    /\ load' = IF object = "live" => list THEN "unloaded" ELSE "bugcheck"
    /\ object' = IF object = "live" THEN "deleted" ELSE object
    /\ lock' = IF lock = "live" THEN "freed" ELSE lock
    /\ accepting' = FALSE
    /\ UNCHANGED <<list, pointer, notify, afterLoad>>

--------------------------------------------------------------------------------
(* Counting devices, and deleting the control device *)

\* Mutant: the control device goes as soon as the system shuts down.
DeleteWhenPending(n, pending) == pending

\* The last device is gone and a shutdown is pending.
DeleteWhenNeeded(n, pending) == n = 0 /\ pending

\* Mutant: the decision is taken before the shutdown is memorised.
UpdateDataBeforeMemorizing(c, increment) ==
    /\ shutdownPending' = (shutdownPending \/ increment = 0)
    /\ count' = count + increment
    /\ pc' = [pc EXCEPT ![c] =
          IF DeleteWhenNeeded(count', shutdownPending) THEN "delete" ELSE "idle"]

\* The locked region of UpdateDataForControlDeviceDeletion...
UpdateData(c, increment) ==
    /\ shutdownPending' = (shutdownPending \/ increment = 0)
    /\ count' = count + increment
    /\ pc' = [pc EXCEPT ![c] =
          IF DeleteWhenNeeded(count', shutdownPending') THEN "delete" ELSE "idle"]

\* After the lock is released: the lock is a child of the control device.
DeleteControlDevice(c) ==
    /\ load = "loaded" /\ pc[c] = "delete"
    /\ pc' = [pc EXCEPT ![c] = "clear"]
    /\ object' = "deleted" /\ lock' = "freed"
    /\ accepting' = FALSE /\ list' = FALSE
    /\ UNCHANGED <<load, pointer, notify, count, shutdownPending, dev, path>>

ClearPointer(c) ==
    /\ load = "loaded" /\ pc[c] = "clear"
    /\ pc' = [pc EXCEPT ![c] = "idle"]
    /\ pointer' = FALSE
    /\ UNCHANGED <<load, object, list, accepting, lock, notify, count,
                   shutdownPending, dev, path>>

--------------------------------------------------------------------------------
(* Filter devices (HidHideCreateDevice, OnDeviceCreate, OnDeviceContextCleanup) *)

\* The device has been created, and its cleanup has not run.
Counted(d) == dev[d] = "present" \/ (dev[d] = "cleanup" /\ d \in path)

ShutdownBegun == "image" \notin notify

\* Windows adds the driver to a device. No device arrives once the system shuts
\* down, which begins when none is being added.
DeviceAdd(d) ==
    /\ load = "loaded" /\ ~ShutdownBegun
    /\ dev[d] = "absent" /\ pc[d] = "idle"
    /\ dev' = [dev EXCEPT ![d] = "created"]
    /\ UNCHANGED <<load, controlVars, notify, count, shutdownPending, path, pc>>

\* HidHideDeviceInstancePath, after the device interface has been registered.
DeviceInstancePath(d) ==
    /\ load = "loaded" /\ dev[d] = "created"
    /\ dev' = [dev EXCEPT ![d] = "named"]
    /\ path' = path \union {d}
    /\ UNCHANGED <<load, controlVars, notify, count, shutdownPending, pc>>

\* Either call fails: the framework deletes the device.
DeviceAddFails(d) ==
    /\ "path" \in MayFail
    /\ load = "loaded" /\ dev[d] = "created"
    /\ dev' = [dev EXCEPT ![d] = "cleanup"]
    /\ UNCHANGED <<load, controlVars, notify, count, shutdownPending, path, pc>>

CountDevice(d) ==
    /\ load = "loaded" /\ dev[d] = "named"
    /\ dev' = [dev EXCEPT ![d] = "present"]
    /\ UpdateData(d, 1)
    /\ UNCHANGED <<load, controlVars, notify, path>>

\* Windows removes the device. Its pending file creates have ended by then.
DeviceRemove(d) ==
    /\ load = "loaded" /\ dev[d] = "present"
    /\ dev' = [dev EXCEPT ![d] = "cleanup"]
    /\ UNCHANGED <<load, controlVars, notify, count, shutdownPending, path, pc>>

\* Mutant: the count is not taken back.
DeviceContextCleanupUncounted(d) ==
    /\ load = "loaded" /\ dev[d] = "cleanup"
    /\ dev' = [dev EXCEPT ![d] = "absent"]
    /\ path' = path \ {d}
    /\ UNCHANGED <<load, controlVars, notify, count, shutdownPending, pc>>

DeviceContextCleanup(d) ==
    /\ load = "loaded" /\ dev[d] = "cleanup" /\ d \in path
    /\ dev' = [dev EXCEPT ![d] = "absent"]
    /\ path' = path \ {d}
    /\ UpdateData(d, -1)
    /\ UNCHANGED <<load, controlVars, notify>>

\* The same for a device that never got its path: WdfObjectDelete takes the NULL
\* handle for a fatal error.
DeleteMissingPath(d) ==
    /\ load = "loaded" /\ dev[d] = "cleanup" /\ d \notin path
    /\ load' = "bugcheck"
    /\ UNCHANGED <<controlVars, notify, count, shutdownPending, dev, path, pc>>

--------------------------------------------------------------------------------
(* OnSystemShutdown *)

RemoveImageRoutine ==
    /\ load = "loaded" /\ ~ShutdownBegun
    /\ \A d \in Devices : dev[d] = "absent" \/ Counted(d)
    /\ notify' = notify \ {"image"}
    /\ pc' = [pc EXCEPT ![Shutdown] = "removeProcess"]
    /\ UNCHANGED <<load, controlVars, count, shutdownPending, dev, path>>

\* The flush that follows changes only the verdicts of the process registry.
RemoveProcessRoutine ==
    /\ load = "loaded" /\ pc[Shutdown] = "removeProcess"
    /\ notify' = notify \ {"process"}
    /\ pc' = [pc EXCEPT ![Shutdown] = "update"]
    /\ UNCHANGED <<load, controlVars, count, shutdownPending, dev, path>>

EnterShutdown ==
    /\ load = "loaded" /\ pc[Shutdown] = "update"
    /\ UpdateData(Shutdown, 0)
    /\ UNCHANGED <<load, controlVars, notify, dev, path>>

--------------------------------------------------------------------------------
Loading ==
    \/ SelfTest \/ CreateControlDevice \/ CreateSymbolicLink \/ CreateQueue
    \/ InitializeContext \/ EnableRequests \/ CreateLock
    \/ SubscribeProcesses \/ SubscribeImages
    \/ LoadFails \/ RollBack

Updating ==
    \/ \E c \in Callers : DeleteControlDevice(c) \/ ClearPointer(c)
    \/ RemoveProcessRoutine \/ EnterShutdown

Pnp == \E d \in Devices :
    \/ DeviceAdd(d) \/ DeviceInstancePath(d) \/ DeviceAddFails(d) \/ CountDevice(d)
    \/ DeviceRemove(d) \/ DeviceContextCleanup(d) \/ DeleteMissingPath(d)

Next == Loading \/ Updating \/ Pnp \/ RemoveImageRoutine

\* Fairness: as long as some thread is inside the shutdown or has a deletion to
\* carry out, one such thread goes on. Nothing says that the system shuts down or
\* removes a device.
Fairness == WF_vars(Updating)

Spec == Init /\ [][Next]_vars
FairSpec == Spec /\ Fairness

--------------------------------------------------------------------------------
(* Properties *)

\* What every callback of the driver dereferences.
Usable == object = "live" /\ pointer /\ list /\ lock = "live"

\* "The control device is created first and should be deleted last after having
\* release the driver resources" (Logic.c:14): as long as a notification routine is
\* registered or a filter device exists, the control device and its lock do.
ControlDeviceLast ==
    (notify # {} \/ \E d \in Devices : dev[d] # "absent") => Usable

\* numberOfDevicesCreated counts the devices whose creation completed and whose
\* cleanup has still to run (Logic.h:51), however additions, removals and the
\* shutdown interleave.
CountedDevices == {d \in Devices : Counted(d)}
CountMatchesDevices == count = Cardinality(CountedDevices)

\* One thread at most decides to delete the control device, and it finds it alive.
DeletedOnce ==
    \A c \in Callers : pc[c] \in {"delete", "clear"} =>
       /\ \A e \in Callers \ {c} : pc[e] \notin {"delete", "clear"}
       /\ pc[c] = "delete" => Usable

\* Once the system has shut down, the control device goes with the last filter
\* device: nothing keeps the driver loaded.
ShutdownDeletes ==
    (ShutdownBegun /\ load = "loaded" /\ \A d \in Devices : dev[d] = "absent")
       ~> (object = "deleted" /\ ~pointer)
================================================================================
