-------------------------- MODULE DriverLifetimeProofs --------------------------
(***************************************************************************)
(* Proofs about DriverLifetime, for every finite set of devices and every  *)
(* choice of the calls that may fail: what holds at every moment, and that *)
(* the control device gets deleted in the end.                             *)
(***************************************************************************)
EXTENDS DriverLifetime, FiniteSetTheorems, TLAPS

\* The types, without the bound on the count: that follows from the invariant.
Types ==
    /\ load \in LoadSteps \union {"loaded", "failed", "unloaded", "bugcheck"}
    /\ object \in {"none", "live", "deleted"}
    /\ lock \in {"null", "live", "freed"}
    /\ list \in BOOLEAN /\ pointer \in BOOLEAN /\ accepting \in BOOLEAN
    /\ shutdownPending \in BOOLEAN
    /\ notify \subseteq {"process", "image"}
    /\ dev \in [Devices -> {"absent", "created", "named", "present", "cleanup"}]
    /\ path \subseteq Devices
    /\ pc \in [Callers -> {"idle", "removeProcess", "update", "delete", "clear"}]

\* Before OnDriverCreate returns there is no device, and what it created is there.
LoadInv ==
    /\ load \notin {"loaded", "bugcheck"} =>
          /\ pc = [c \in Callers |-> "idle"]
          /\ dev = [d \in Devices |-> "absent"]
          /\ ~shutdownPending
    /\ load \in LoadSteps \ {"selftest", "device"} => object = "live" /\ pointer
    /\ load \in {"enable", "lock", "process", "image"} => list
    /\ load \in {"process", "image"} => lock = "live"
    /\ load \in LoadSteps \ {"image"} => notify = {}
    /\ load = "image" => notify = {"process"}

\* A device holds its path from the call that acquires it to its cleanup.
PathInv == \A d \in Devices :
    /\ dev[d] \in {"named", "present"} => d \in path
    /\ dev[d] \in {"absent", "created"} => d \notin path

AllAbsent == \A d \in Devices : dev[d] = "absent"

\* What holds once the driver is loaded: the control device is there until the
\* shutdown and the last device have been seen, and only then does a thread delete it.
LoadedInv ==
    load = "loaded" =>
       /\ ~shutdownPending => Usable
       /\ shutdownPending => notify = {}
       /\ ~AllAbsent => Usable
       /\ ShutdownBegun => \A d \in Devices : dev[d] = "absent" \/ Counted(d)
       /\ pc[Shutdown] = "removeProcess" => ShutdownBegun /\ ~shutdownPending
       /\ pc[Shutdown] = "update" => notify = {} /\ ~shutdownPending
       /\ \A d \in Devices : pc[d] \in {"idle", "delete", "clear"}
       /\ \A c \in Callers :
             pc[c] \in {"delete", "clear"} => shutdownPending /\ AllAbsent
       /\ DeletedOnce

LifetimeInv == Types /\ LoadInv /\ PathInv /\ LoadedInv /\ CountMatchesDevices

--------------------------------------------------------------------------------
(* The set of counted devices *)

\* The count is a natural number, and is zero only when no device is counted.
LEMMA CountedFinite ==
    /\ IsFiniteSet(CountedDevices)
    /\ Cardinality(CountedDevices) \in 0..Cardinality(Devices)
    /\ Cardinality(CountedDevices) = 0 => CountedDevices = {}
  <1>1. CountedDevices \in SUBSET Devices
    BY DEF CountedDevices
  <1>2. /\ IsFiniteSet(CountedDevices)
        /\ Cardinality(CountedDevices) <= Cardinality(Devices)
    BY <1>1, FS_Subset, LifetimeAssumption
  <1>3. Cardinality(CountedDevices) \in Nat /\ Cardinality(Devices) \in Nat
    BY <1>2, FS_CardinalityType, LifetimeAssumption
  <1>4. QED
    BY <1>2, <1>3, FS_EmptySet

\* A step that leaves every device counted or not keeps the count exact.
LEMMA CountKept ==
  ASSUME CountMatchesDevices, count' = count,
         \A d \in Devices : Counted(d)' <=> Counted(d)
  PROVE  CountMatchesDevices'
  <1>1. CountedDevices' = CountedDevices
    BY DEF CountedDevices
  <1>2. QED
    BY <1>1 DEF CountMatchesDevices

--------------------------------------------------------------------------------
(* Loading *)

LEMMA LoadingKeeps == ASSUME LifetimeInv, Loading PROVE LifetimeInv'
  <1> USE DEF LifetimeInv
  <1>a. MayFail \subseteq LoadSteps \union {"path"}
    BY LifetimeAssumption
  <1>1. UNCHANGED afterLoad /\ load \notin {"loaded", "bugcheck"}
    BY <1>a DEF Loading, SelfTest, CreateControlDevice, CreateSymbolicLink, CreateQueue,
           InitializeContext, EnableRequests, CreateLock, SubscribeProcesses,
           SubscribeImages, LoadFails, RollBack, LoadSteps
  <1>2. CountMatchesDevices'
    BY <1>1, CountKept DEF afterLoad, Counted
  <1>3. PathInv'
    BY <1>1 DEF PathInv, afterLoad
  <1>4. Types' /\ LoadInv' /\ LoadedInv'
    <2>a. Shutdown \in Callers /\ Devices \subseteq Callers
      BY DEF Callers
    <2> USE <1>1 DEF Types, LoadInv, LoadedInv, LoadSteps, controlVars, afterLoad
    <2>1. CASE SelfTest
      BY <2>1 DEF SelfTest
    <2>2. CASE CreateControlDevice
      BY <2>2 DEF CreateControlDevice
    <2>3. CASE CreateSymbolicLink
      BY <2>3 DEF CreateSymbolicLink
    <2>4. CASE CreateQueue
      BY <2>4 DEF CreateQueue
    <2>5. CASE InitializeContext
      BY <2>5 DEF InitializeContext
    <2>6. CASE EnableRequests
      BY <2>6 DEF EnableRequests
    <2>7. CASE CreateLock
      BY <2>7 DEF CreateLock
    <2>8. CASE SubscribeProcesses
      <3>1. notify' = {"process"}
        BY <2>8 DEF SubscribeProcesses
      <3>2. load' = "image"
        BY <2>8 DEF SubscribeProcesses
      <3>3. QED
        BY <2>8, <3>1, <3>2 DEF SubscribeProcesses
    <2>9. CASE SubscribeImages
      <3>1. Types' /\ LoadInv'
        BY <2>9 DEF SubscribeImages
      <3>2. Usable' /\ ~shutdownPending' /\ ~ShutdownBegun'
        BY <2>9 DEF SubscribeImages, Usable, ShutdownBegun
      <3>3. \A c \in Callers : pc'[c] = "idle"
        BY <2>9 DEF SubscribeImages
      <3>4. LoadedInv'
        BY <3>2, <3>3, <2>a DEF DeletedOnce
      <3>5. QED
        BY <3>1, <3>4
    <2>10. CASE LoadFails
      BY <2>10, <1>a DEF LoadFails
    <2>11. CASE RollBack
      <3>1. load' \in {"unloaded", "bugcheck"}
        BY <2>11 DEF RollBack
      <3>2. object' \in {"none", "live", "deleted"} /\ lock' \in {"null", "live", "freed"}
        BY <2>11 DEF RollBack
      <3>3. load = "failed" /\ accepting' = FALSE /\ UNCHANGED <<list, pointer, notify>>
        BY <2>11 DEF RollBack
      <3>4. QED
        BY <3>1, <3>2, <3>3
    <2>12. QED
      BY <2>1, <2>2, <2>3, <2>4, <2>5, <2>6, <2>7, <2>8, <2>9, <2>10, <2>11 DEF Loading
  <1>5. QED
    BY <1>2, <1>3, <1>4

--------------------------------------------------------------------------------
(* Filter devices *)

\* While a filter device is around nobody deletes the control device, and unless the
\* shutdown has begun none is pending.
LEMMA DeviceGuards ==
  ASSUME LifetimeInv, load = "loaded", NEW d \in Devices, dev[d] # "absent"
  PROVE  /\ Usable
         /\ \A c \in Callers : pc[c] \notin {"delete", "clear"}
         /\ ~Counted(d) => ~ShutdownBegun /\ ~shutdownPending
  <1>1. ~AllAbsent
    BY DEF AllAbsent
  <1>2. notify = {} => ShutdownBegun
    BY DEF ShutdownBegun
  <1>3. QED
    BY <1>1, <1>2 DEF LifetimeInv, LoadedInv

\* A step of a device that neither counts nor leaves anything behind.
LEMMA DeviceStepKeeps ==
  ASSUME LifetimeInv, load = "loaded", NEW d \in Devices,
         NEW s \in {"created", "named", "present", "cleanup"},
         dev' = [dev EXCEPT ![d] = s],
         path' \subseteq Devices, PathInv', Counted(d)' <=> Counted(d),
         \A e \in Devices \ {d} : Counted(e)' <=> Counted(e),
         dev[d] # "absent" \/ ~ShutdownBegun,
         UNCHANGED <<load, controlVars, notify, count, shutdownPending, pc>>
  PROVE  LifetimeInv'
  <1> USE DEF LifetimeInv
  <1>1. Types' /\ LoadInv'
    BY DEF Types, LoadInv, controlVars
  <1>2. CountMatchesDevices'
    BY CountKept
  <1>3. Usable /\ \A c \in Callers : pc[c] \notin {"delete", "clear"}
    <2>1. CASE dev[d] # "absent"
      BY <2>1, DeviceGuards
    <2>2. CASE ~ShutdownBegun
      BY <2>2 DEF LoadedInv, ShutdownBegun
    <2>3. QED
      BY <2>1, <2>2
  <1>4. Usable' /\ (ShutdownBegun' <=> ShutdownBegun)
    BY <1>3 DEF Usable, ShutdownBegun, controlVars
  <1>5. ShutdownBegun' => \A e \in Devices : dev'[e] = "absent" \/ Counted(e)'
    BY <1>4 DEF LoadedInv, Types
  <1>6. DeletedOnce'
    BY <1>3 DEF DeletedOnce
  <1>7. LoadedInv'
    BY <1>3, <1>4, <1>5, <1>6 DEF LoadedInv
  <1>8. QED
    BY <1>1, <1>2, <1>7

LEMMA DeviceMoves ==
  ASSUME LifetimeInv, NEW d \in Devices,
         DeviceAdd(d) \/ DeviceInstancePath(d) \/ DeviceAddFails(d) \/ DeviceRemove(d)
  PROVE  LifetimeInv'
  <1> USE DEF Counted, PathInv
  <1>0. PathInv /\ path \subseteq Devices /\ dev \in [Devices ->
           {"absent", "created", "named", "present", "cleanup"}]
    BY DEF LifetimeInv, Types
  <1>1. CASE DeviceAdd(d)
    BY <1>0, <1>1, DeviceStepKeeps DEF DeviceAdd
  <1>2. CASE DeviceInstancePath(d)
    BY <1>0, <1>2, DeviceStepKeeps DEF DeviceInstancePath
  <1>3. CASE DeviceAddFails(d)
    BY <1>0, <1>3, DeviceStepKeeps DEF DeviceAddFails
  <1>4. CASE DeviceRemove(d)
    BY <1>0, <1>4, DeviceStepKeeps DEF DeviceRemove
  <1>5. QED
    BY <1>1, <1>2, <1>3, <1>4

\* Counting a device: it was not counted, and no shutdown is pending.
LEMMA CountDeviceKeeps ==
  ASSUME LifetimeInv, NEW d \in Devices, CountDevice(d) PROVE LifetimeInv'
  <1> USE DEF LifetimeInv
  <1>1. /\ load = "loaded" /\ dev[d] = "named" /\ d \in path
        /\ dev' = [dev EXCEPT ![d] = "present"]
        /\ UNCHANGED <<load, controlVars, notify, path>>
    BY DEF CountDevice, PathInv
  <1>2. ~Counted(d) /\ Counted(d)' /\ \A e \in Devices \ {d} : Counted(e)' <=> Counted(e)
    BY <1>1 DEF Counted, Types
  <1>3. Usable /\ ~shutdownPending /\ ~ShutdownBegun
    BY <1>1, <1>2, DeviceGuards
  <1>4. count' = count + 1 /\ shutdownPending' = FALSE
    <2>1. count' = count + 1 /\ shutdownPending' = (shutdownPending \/ 1 = 0)
      BY DEF CountDevice, UpdateData
    <2>2. shutdownPending = FALSE
      BY <1>3 DEF Types
    <2>3. ~(1 = 0)
      OBVIOUS
    <2>4. shutdownPending' = FALSE
      BY <2>1, <2>2, <2>3, Zenon
    <2>5. QED
      BY <2>1, <2>4
  <1>5. d \in Callers /\ pc' = [pc EXCEPT ![d] = "idle"]
    <2>1. ~DeleteWhenNeeded(count', shutdownPending')
      BY <1>4 DEF DeleteWhenNeeded
    <2>2. QED
      BY <2>1 DEF CountDevice, UpdateData, Callers
  <1>6. CountMatchesDevices'
    <2>1. CountedDevices' = CountedDevices \union {d} /\ d \notin CountedDevices
      BY <1>2 DEF CountedDevices
    <2>2. Cardinality(CountedDevices') = Cardinality(CountedDevices) + 1
      BY <2>1, CountedFinite, FS_AddElement
    <2>3. QED
      BY <1>4, <2>2 DEF CountMatchesDevices
  <1>7. Types' /\ LoadInv' /\ PathInv'
    BY <1>1, <1>4, <1>5 DEF Types, LoadInv, PathInv, controlVars
  <1>8. LoadedInv'
    <2>1. \A c \in Callers : pc'[c] \notin {"delete", "clear"}
      BY <1>1, <1>3, <1>5, DeviceGuards DEF Types
    <2>2. Usable' /\ ~ShutdownBegun'
      BY <1>1, <1>3 DEF Usable, ShutdownBegun, controlVars
    <2>3. /\ pc'[Shutdown] = pc[Shutdown]
          /\ \A e \in Devices : pc'[e] \in {"idle", "delete", "clear"}
      BY <1>1, <1>5, LifetimeAssumption DEF LoadedInv, Types, Callers
    <2>4. DeletedOnce'
      BY <2>1 DEF DeletedOnce
    <2>5. UNCHANGED notify /\ load = "loaded"
      BY <1>1
    <2>6. QED
      BY <1>3, <1>4, <2>1, <2>2, <2>3, <2>4, <2>5 DEF LoadedInv, ShutdownBegun
  <1>9. QED
    BY <1>6, <1>7, <1>8

\* Whoever decides to delete the control device is alone, and finds it alive.
LEMMA DecisionKeeps ==
  ASSUME LifetimeInv, NEW c \in Callers, NEW increment \in Int,
         load = "loaded", Usable, \A e \in Callers : pc[e] \notin {"delete", "clear"},
         c = Shutdown => pc[Shutdown] = "update",
         UpdateData(c, increment), UNCHANGED <<load, controlVars, notify>>,
         Types', PathInv', CountMatchesDevices',
         shutdownPending' => notify = {},
         ShutdownBegun => \A d \in Devices : dev'[d] = "absent" \/ Counted(d)',
         pc[Shutdown] \in {"removeProcess", "update"} /\ c # Shutdown => ~shutdownPending'
  PROVE  LifetimeInv'
  <1> USE DEF LifetimeInv
  <1>1. /\ Usable' /\ (ShutdownBegun' <=> ShutdownBegun) /\ (notify = {} => ShutdownBegun)
        /\ load' = "loaded"
    BY DEF Usable, ShutdownBegun, controlVars
  <1>2. \/ pc' = [pc EXCEPT ![c] = "idle"]
        \/ pc' = [pc EXCEPT ![c] = "delete"] /\ count' = 0 /\ shutdownPending'
    BY DEF UpdateData, DeleteWhenNeeded
  <1>3. pc'[c] = "delete" => shutdownPending' /\ AllAbsent'
    <2> SUFFICES ASSUME pc'[c] = "delete" PROVE shutdownPending' /\ AllAbsent'
      OBVIOUS
    <2>1. count' = 0 /\ shutdownPending'
      BY <1>2 DEF Types
    <2>2. \A d \in Devices : dev'[d] = "absent" \/ Counted(d)'
      BY <1>1, <2>1
    <2>3. CountedDevices' = {}
      <3>1. Cardinality(CountedDevices') = 0
        BY <2>1 DEF CountMatchesDevices
      <3>2. CountedDevices' \in SUBSET Devices
        BY DEF CountedDevices
      <3>3. IsFiniteSet(CountedDevices')
        BY <3>2, FS_Subset, LifetimeAssumption
      <3>4. QED
        BY <3>1, <3>3, FS_EmptySet
    <2>4. QED
      BY <2>1, <2>2, <2>3 DEF CountedDevices, AllAbsent
  <1>4. \A e \in Callers \ {c} : pc'[e] = pc[e]
    BY <1>2 DEF Types
  <1>5. pc'[c] \in {"idle", "delete"}
    BY <1>2 DEF Types
  <1>6. DeletedOnce'
    BY <1>1, <1>4, <1>5 DEF DeletedOnce
  <1>7. \A e \in Callers : pc'[e] \in {"delete", "clear"} => shutdownPending' /\ AllAbsent'
    BY <1>3, <1>4, <1>5
  <1>8. \A d \in Devices : pc'[d] \in {"idle", "delete", "clear"}
    BY <1>4, <1>5 DEF LoadedInv, Callers
  <1>9. pc'[Shutdown] \in {"removeProcess", "update"} =>
           c # Shutdown /\ pc'[Shutdown] = pc[Shutdown] /\ ~shutdownPending'
    BY <1>4, <1>5 DEF Callers
  <1>10. LoadedInv'
    BY <1>1, <1>6, <1>7, <1>8, <1>9 DEF LoadedInv
  <1>11. LoadInv'
    BY <1>1 DEF LoadInv, LoadSteps
  <1>12. QED
    BY <1>10, <1>11

LEMMA CleanupKeeps ==
  ASSUME LifetimeInv, NEW d \in Devices, DeviceContextCleanup(d) PROVE LifetimeInv'
  <1> USE DEF LifetimeInv
  <1>1. /\ load = "loaded" /\ dev[d] = "cleanup" /\ d \in path
        /\ dev' = [dev EXCEPT ![d] = "absent"] /\ path' = path \ {d}
        /\ UpdateData(d, -1) /\ UNCHANGED <<load, controlVars, notify>>
    BY DEF DeviceContextCleanup
  <1>2. /\ d \in Callers /\ d # Shutdown
        /\ -1 \in Int /\ ~(-1 = 0)
    BY LifetimeAssumption DEF Callers
  <1>3. Usable /\ \A c \in Callers : pc[c] \notin {"delete", "clear"}
    BY <1>1, DeviceGuards
  <1>4. Counted(d) /\ ~Counted(d)' /\ \A e \in Devices \ {d} : Counted(e)' <=> Counted(e)
    BY <1>1 DEF Counted, Types
  <1>5. CountMatchesDevices'
    <2>1. CountedDevices' = CountedDevices \ {d} /\ d \in CountedDevices
      BY <1>4 DEF CountedDevices
    <2>2. Cardinality(CountedDevices') = Cardinality(CountedDevices) - 1
      BY <2>1, CountedFinite, FS_RemoveElement
    <2>3. count' = count + -1 /\ count \in Nat
      BY <1>1, CountedFinite, FS_CardinalityType DEF UpdateData, CountMatchesDevices
    <2>4. QED
      BY <2>2, <2>3 DEF CountMatchesDevices
  <1>6. shutdownPending' = shutdownPending
    BY <1>1, <1>2, Zenon DEF UpdateData, Types
  <1>7. pc' \in [Callers -> {"idle", "removeProcess", "update", "delete", "clear"}]
    BY <1>1 DEF UpdateData, Types
  <1>8. Types' /\ PathInv'
    BY <1>1, <1>6, <1>7 DEF Types, PathInv, controlVars
  <1>9. ShutdownBegun => \A e \in Devices : dev'[e] = "absent" \/ Counted(e)'
    BY <1>1, <1>4 DEF LoadedInv, Types
  <1>10. /\ shutdownPending' => notify = {}
         /\ pc[Shutdown] \in {"removeProcess", "update"} => ~shutdownPending'
    BY <1>1, <1>6 DEF LoadedInv
  <1>11. QED
    BY <1>1, <1>2, <1>3, <1>5, <1>8, <1>9, <1>10, DecisionKeeps

\* The machine stops: nothing else changes.
LEMMA DeleteMissingPathKeeps ==
  ASSUME LifetimeInv, NEW d \in Devices, DeleteMissingPath(d) PROVE LifetimeInv'
  <1>1. CountMatchesDevices'
    BY CountKept DEF DeleteMissingPath, Counted, LifetimeInv
  <1>2. QED
    BY <1>1 DEF DeleteMissingPath, LifetimeInv, Types, LoadInv, PathInv, LoadedInv,
                LoadSteps, controlVars

--------------------------------------------------------------------------------
(* The shutdown, and the deletion of the control device *)

LEMMA EnterShutdownKeeps == ASSUME LifetimeInv, EnterShutdown PROVE LifetimeInv'
  <1> USE DEF LifetimeInv
  <1>1. /\ load = "loaded" /\ pc[Shutdown] = "update"
        /\ UpdateData(Shutdown, 0) /\ UNCHANGED <<load, controlVars, notify, dev, path>>
    BY DEF EnterShutdown
  <1>2. /\ notify = {} /\ ~shutdownPending /\ Usable /\ Shutdown \in Callers
        /\ \A c \in Callers : pc[c] \notin {"delete", "clear"}
        /\ \A d \in Devices : dev[d] = "absent" \/ Counted(d)
    BY <1>1 DEF LoadedInv, ShutdownBegun, Callers
  <1>3. \A d \in Devices : (Counted(d)' <=> Counted(d)) /\ dev'[d] = dev[d]
    BY <1>1 DEF Counted
  <1>4. CountMatchesDevices'
    <2>1. count \in Nat /\ count' = count + 0
      BY <1>1, CountedFinite, FS_CardinalityType DEF CountMatchesDevices, UpdateData
    <2>2. QED
      BY <1>3, <2>1, CountKept
  <1>5. shutdownPending' = TRUE
    <2>1. (0 = 0) = TRUE
      OBVIOUS
    <2>2. QED
      BY <1>1, <2>1, Zenon DEF UpdateData
  <1>6. pc' \in [Callers -> {"idle", "removeProcess", "update", "delete", "clear"}]
    BY <1>1 DEF UpdateData, Types
  <1>7. Types' /\ PathInv'
    BY <1>1, <1>5, <1>6 DEF Types, PathInv, controlVars
  <1>8. QED
    BY <1>1, <1>2, <1>3, <1>4, <1>7, DecisionKeeps

LEMMA RemoveRoutinesKeep ==
  ASSUME LifetimeInv, RemoveImageRoutine \/ RemoveProcessRoutine PROVE LifetimeInv'
  <1> USE DEF LifetimeInv
  <1>1. /\ load = "loaded" /\ ~shutdownPending /\ Usable
        /\ \A d \in Devices : dev[d] = "absent" \/ Counted(d)
        /\ notify' \subseteq {"process", "image"} /\ "image" \notin notify'
        /\ UNCHANGED <<load, controlVars, count, shutdownPending, dev, path>>
    BY DEF RemoveImageRoutine, RemoveProcessRoutine, LoadedInv, ShutdownBegun, Types
  <1>2. /\ Shutdown \in Callers /\ Shutdown \notin Devices /\ Devices \subseteq Callers
    BY LifetimeAssumption DEF Callers
  <1>3. \/ pc' = [pc EXCEPT ![Shutdown] = "removeProcess"]
        \/ pc' = [pc EXCEPT ![Shutdown] = "update"] /\ notify' = {}
    <2>1. CASE RemoveImageRoutine
      BY <2>1 DEF RemoveImageRoutine
    <2>2. CASE RemoveProcessRoutine
      <3>1. "image" \notin notify
        BY <2>2 DEF RemoveProcessRoutine, LoadedInv, ShutdownBegun
      <3>2. notify' = {}
        BY <2>2, <3>1 DEF RemoveProcessRoutine, Types
      <3>3. QED
        BY <2>2, <3>2 DEF RemoveProcessRoutine
    <2>3. QED
      BY <2>1, <2>2
  <1>4. \A c \in Callers : pc'[c] \notin {"delete", "clear"}
    BY <1>1, <1>3 DEF LoadedInv, Types
  <1>5. Usable' /\ ShutdownBegun' /\ \A d \in Devices : dev'[d] = "absent" \/ Counted(d)'
    BY <1>1 DEF Usable, ShutdownBegun, controlVars, Counted
  <1>6. CountMatchesDevices'
    BY <1>1, CountKept DEF Counted
  <1>7. Types' /\ PathInv' /\ LoadInv'
    BY <1>1, <1>2, <1>3 DEF Types, PathInv, LoadInv, LoadSteps, controlVars
  <1>8. \A d \in Devices : pc'[d] \in {"idle", "delete", "clear"}
    BY <1>1, <1>2, <1>3 DEF LoadedInv, Types
  <1>9. pc'[Shutdown] = "update" => notify' = {}
    BY <1>2, <1>3 DEF Types
  <1>10. LoadedInv'
    BY <1>1, <1>4, <1>5, <1>8, <1>9 DEF LoadedInv, DeletedOnce
  <1>11. QED
    BY <1>6, <1>7, <1>10

LEMMA DeletionKeeps ==
  ASSUME LifetimeInv, NEW c \in Callers, DeleteControlDevice(c) \/ ClearPointer(c)
  PROVE  LifetimeInv'
  <1> USE DEF LifetimeInv
  <1>1. /\ load = "loaded" /\ pc[c] \in {"delete", "clear"}
        /\ UNCHANGED <<load, notify, count, shutdownPending, dev, path>>
    BY DEF DeleteControlDevice, ClearPointer
  <1>2. shutdownPending /\ AllAbsent /\ notify = {}
    BY <1>1 DEF LoadedInv
  <1>3. \/ pc' = [pc EXCEPT ![c] = "clear"]
        \/ pc' = [pc EXCEPT ![c] = "idle"]
    BY DEF DeleteControlDevice, ClearPointer
  <1>4. \A e \in Callers \ {c} : pc'[e] = pc[e] /\ pc[e] \notin {"delete", "clear"}
    BY <1>1, <1>3 DEF LoadedInv, DeletedOnce, Types
  <1>5. pc'[c] \in {"clear", "idle"}
    BY <1>3 DEF Types
  <1>6. CountMatchesDevices'
    BY <1>1, CountKept DEF Counted
  <1>7. Types' /\ PathInv' /\ LoadInv'
    BY <1>1, <1>3 DEF DeleteControlDevice, ClearPointer, Types, PathInv, LoadInv, LoadSteps
  <1>8. DeletedOnce' /\ AllAbsent'
    BY <1>1, <1>2, <1>4, <1>5 DEF DeletedOnce, AllAbsent
  <1>9. /\ Shutdown \in Callers /\ pc[Shutdown] \notin {"removeProcess", "update"}
        /\ \A d \in Devices : pc'[d] \in {"idle", "delete", "clear"}
    BY <1>1, <1>2, <1>4, <1>5 DEF LoadedInv, Callers
  <1>10. pc'[Shutdown] \notin {"removeProcess", "update"}
    BY <1>4, <1>5, <1>9
  <1>11. LoadedInv'
    BY <1>1, <1>2, <1>8, <1>9, <1>10 DEF LoadedInv, AllAbsent
  <1>12. QED
    BY <1>6, <1>7, <1>11

--------------------------------------------------------------------------------
(* How loading ends *)

\* A load that fails leaves no notification routine behind, provided the second
\* registration cannot fail. The machine only stops when nobody deletes anything.
EndInv ==
    /\ load \in {"selftest", "device"} => object = "none"
    /\ load \in {"failed", "unloaded"} /\ "image" \notin MayFail => notify = {}
    /\ load = "bugcheck" =>
          /\ \A c \in Callers : pc[c] \notin {"delete", "clear"}
          /\ "image" \notin MayFail => ControlDeviceLast

LEMMA EndKeeps == ASSUME LifetimeInv, EndInv, [Next]_vars PROVE EndInv'
  <1> USE DEF EndInv
  <1>a. MayFail \subseteq (LoadSteps \ {"enable"}) \union {"path"}
    BY LifetimeAssumption
  <1>1. CASE RollBack
    <2>1. /\ load = "failed" /\ load' \in {"unloaded", "bugcheck"}
          /\ UNCHANGED <<notify, afterLoad>>
      BY <1>1 DEF RollBack
    <2>2. \A c \in Callers : pc'[c] \notin {"delete", "clear"}
      BY <2>1 DEF LifetimeInv, LoadInv, afterLoad
    <2>3. "image" \notin MayFail => ControlDeviceLast'
      BY <2>1 DEF LifetimeInv, LoadInv, afterLoad, ControlDeviceLast
    <2>4. QED
      BY <2>1, <2>2, <2>3
  <1>2. CASE Loading /\ ~RollBack
    <2>1. load' \notin {"bugcheck", "unloaded"}
      BY <1>2, <1>a DEF Loading, SelfTest, CreateControlDevice, CreateSymbolicLink,
             CreateQueue, InitializeContext, EnableRequests, CreateLock,
             SubscribeProcesses, SubscribeImages, LoadFails, LoadSteps
    <2>2. CASE LoadFails
      <3>1. /\ load \in MayFail \ {"context"} /\ load \in LoadSteps
            /\ load' = "failed" /\ UNCHANGED <<controlVars, notify>>
        BY <2>2, <1>a DEF LoadFails, LifetimeInv, Types, LoadSteps
      <3>2. "image" \notin MayFail => notify' = {}
        BY <3>1 DEF LifetimeInv, LoadInv, LoadSteps
      <3>3. QED
        BY <3>1, <3>2
    <2>3. CASE InitializeContext
      BY <2>3 DEF InitializeContext, LifetimeInv, LoadInv, LoadSteps
    <2>4. CASE SelfTest
      BY <2>4 DEF SelfTest, controlVars
    <2>5. CASE ~LoadFails /\ ~InitializeContext /\ ~SelfTest
      <3>1. load' \notin {"failed", "unloaded", "bugcheck", "selftest", "device"}
        BY <1>2, <2>5 DEF Loading, CreateControlDevice, CreateSymbolicLink, CreateQueue,
               EnableRequests, CreateLock, SubscribeProcesses, SubscribeImages
      <3>2. QED
        BY <3>1
    <2>6. QED
      BY <2>2, <2>3, <2>4, <2>5
  <1>3. CASE Pnp \/ Updating \/ RemoveImageRoutine
    <2>1. load = "loaded" /\ (load' = "loaded" \/ \E d \in Devices : DeleteMissingPath(d))
      BY <1>3 DEF Pnp, Updating, DeviceAdd, DeviceInstancePath, DeviceAddFails,
             CountDevice, DeviceRemove, DeviceContextCleanup, DeleteMissingPath,
             DeleteControlDevice, ClearPointer, RemoveProcessRoutine, EnterShutdown,
             RemoveImageRoutine
    <2>2. CASE load' = "loaded"
      BY <2>2
    <2>3. ASSUME NEW d \in Devices, DeleteMissingPath(d) PROVE EndInv'
      <3>1. /\ load' = "bugcheck" /\ dev[d] # "absent"
            /\ UNCHANGED <<controlVars, pc>>
        BY <2>3 DEF DeleteMissingPath
      <3>2. Usable' /\ \A c \in Callers : pc'[c] \notin {"delete", "clear"}
        BY <2>1, <3>1, DeviceGuards DEF Usable, controlVars
      <3>3. QED
        BY <3>1, <3>2 DEF ControlDeviceLast
    <2>4. QED
      BY <2>1, <2>2, <2>3
  <1>4. CASE UNCHANGED vars
    BY <1>4 DEF vars, controlVars, ControlDeviceLast, Usable
  <1>5. QED
    BY <1>1, <1>2, <1>3, <1>4 DEF Next

--------------------------------------------------------------------------------
(* Theorems *)

LEMMA InitInv == ASSUME Init PROVE LifetimeInv /\ EndInv
  <1>1. CountMatchesDevices
    <2>1. CountedDevices = {}
      BY DEF Init, CountedDevices, Counted
    <2>2. QED
      BY <2>1, FS_EmptySet DEF Init, CountMatchesDevices
  <1>2. Types /\ LoadInv /\ PathInv /\ LoadedInv /\ EndInv
    BY DEF Init, Types, LoadInv, PathInv, LoadedInv, EndInv, LoadSteps
  <1>3. QED
    BY <1>1, <1>2 DEF LifetimeInv

\* The inductive invariant: however loading, device arrivals and removals, and the
\* two halves of UpdateData... interleave.
THEOREM LifetimeInvariant == Spec => [](LifetimeInv /\ EndInv)
  <1>1. Init => LifetimeInv /\ EndInv
    BY InitInv
  <1>2. LifetimeInv /\ EndInv /\ [Next]_vars => (LifetimeInv /\ EndInv)'
    <2> SUFFICES ASSUME LifetimeInv, EndInv, [Next]_vars PROVE LifetimeInv'
      BY EndKeeps
    <2>1. CASE Loading
      BY <2>1, LoadingKeeps
    <2>2. CASE Updating
      BY <2>2, DeletionKeeps, RemoveRoutinesKeep, EnterShutdownKeeps DEF Updating
    <2>3. CASE Pnp
      BY <2>3, DeviceMoves, CountDeviceKeeps, CleanupKeeps, DeleteMissingPathKeeps DEF Pnp
    <2>4. CASE RemoveImageRoutine
      BY <2>4, RemoveRoutinesKeep
    <2>5. CASE UNCHANGED vars
      <3>1. CountMatchesDevices'
        BY <2>5, CountKept DEF LifetimeInv, vars, Counted
      <3>2. Types' /\ LoadInv' /\ PathInv'
        BY <2>5 DEF vars, controlVars, LifetimeInv, Types, LoadInv, PathInv
      <3>3. LoadedInv'
        BY <2>5 DEF vars, controlVars, LifetimeInv, LoadedInv, Usable, AllAbsent,
                    ShutdownBegun, Counted, DeletedOnce
      <3>4. QED
        BY <3>1, <3>2, <3>3 DEF LifetimeInv
    <2>6. QED
      BY <2>1, <2>2, <2>3, <2>4, <2>5 DEF Next
  <1>3. QED
    BY <1>1, <1>2, PTL DEF Spec

\* Every reachable state is well typed: numberOfDevicesCreated is never negative and
\* never more than the devices there are (Logic.c:1022-1056).
THEOREM LifetimeTypeCorrect == Spec => []TypeOK
  <1>1. LifetimeInv => TypeOK
    BY CountedFinite DEF LifetimeInv, Types, TypeOK, CountMatchesDevices
  <1>2. QED
    BY <1>1, LifetimeInvariant, PTL

\* numberOfDevicesCreated is the number of devices whose creation completed and whose
\* cleanup has still to run (Logic.c:136, Logic.c:151).
THEOREM CountIsExact == Spec => []CountMatchesDevices
  <1>1. LifetimeInv => CountMatchesDevices
    BY DEF LifetimeInv
  <1>2. QED
    BY <1>1, LifetimeInvariant, PTL

\* At most one of the threads that run UpdateData... deletes the control device, and
\* the one that has decided to finds it, its list and its lock alive.
THEOREM ControlDeviceDeletedOnce == Spec => []DeletedOnce
  <1>1. ASSUME LifetimeInv, EndInv PROVE DeletedOnce
    <2>1. CASE load = "loaded"
      BY <1>1, <2>1 DEF LifetimeInv, LoadedInv
    <2>2. CASE load = "bugcheck"
      BY <1>1, <2>2 DEF EndInv, DeletedOnce
    <2>3. CASE load \notin {"loaded", "bugcheck"}
      BY <1>1, <2>3 DEF LifetimeInv, LoadInv, DeletedOnce
    <2>4. QED
      BY <2>1, <2>2, <2>3
  <1>2. QED
    BY <1>1, LifetimeInvariant, PTL

\* If the image-load routine can always be registered, the control device and its
\* lock outlive every routine and every filter device (Logic.c:14).
THEOREM ControlDeviceGoesLast ==
  ASSUME "image" \notin MayFail PROVE Spec => []ControlDeviceLast
  <1>1. ASSUME LifetimeInv, EndInv PROVE ControlDeviceLast
    <2> USE <1>1 DEF LifetimeInv
    <2>1. CASE load = "loaded"
      BY <2>1 DEF LoadedInv, ControlDeviceLast, AllAbsent
    <2>2. CASE load = "bugcheck"
      BY <2>2 DEF EndInv
    <2>3. CASE load = "image"
      BY <2>3 DEF LoadInv, ControlDeviceLast, Usable, LoadSteps
    <2>4. CASE load \notin {"loaded", "bugcheck", "image"}
      <3>1. notify = {}
        BY <2>4 DEF Types, LoadInv, EndInv, LoadSteps
      <3>2. \A d \in Devices : dev[d] = "absent"
        BY <2>4 DEF LoadInv
      <3>3. QED
        BY <3>1, <3>2 DEF ControlDeviceLast
    <2>5. QED
      BY <2>1, <2>2, <2>3, <2>4
  <1>2. QED
    BY <1>1, LifetimeInvariant, PTL

--------------------------------------------------------------------------------
(* The deletion happens *)

\* A thread that is inside the shutdown, or has a deletion to carry out, can go on:
\* what WF_vars(Updating) rests on.
InsideDriver   == load = "loaded" /\ \E c \in Callers : pc[c] # "idle"
ThreadsCanGoOn == [](InsideDriver => ENABLED <<Updating>>_vars)

\* The system has shut down and the devices are gone: the premise of ShutdownDeletes.
NothingLeft == ShutdownBegun /\ load = "loaded" /\ AllAbsent

Gone        == object = "deleted" /\ ~pointer
Deciding    == pc[Shutdown] = "update"
Removing    == pc[Shutdown] = "removeProcess"
Deleting(s) == \E c \in Callers : pc[c] = s

\* The deletion is never forgotten: the shutdown has not come to its decision yet, or
\* a device is still there to take it, or a thread has taken it and is to act on it.
OwedInv ==
    load = "loaded" =>
       /\ ShutdownBegun => Removing \/ Deciding \/ shutdownPending
       /\ shutdownPending /\ AllAbsent => Gone \/ Deleting("delete") \/ Deleting("clear")
       /\ Deleting("clear") => object = "deleted"

\* Without devices the count is zero, so whoever looks at it with the shutdown pending
\* decides to delete.
LEMMA DecisionIsTaken ==
  ASSUME LifetimeInv', NEW c \in Callers, NEW increment \in Int, Types,
         UpdateData(c, increment)
  PROVE  /\ shutdownPending' /\ AllAbsent' => Deleting("delete")'
         /\ pc'[c] \in {"idle", "delete"}
         /\ \A e \in Callers \ {c} : pc'[e] = pc[e]
  <1>1. AllAbsent' => count' = 0
    <2> SUFFICES ASSUME AllAbsent' PROVE count' = 0
      OBVIOUS
    <2>1. CountedDevices' = {}
      <3>1. \A d \in Devices : ~Counted(d)'
        BY DEF AllAbsent, Counted
      <3>2. QED
        BY <3>1 DEF CountedDevices
    <2>2. QED
      BY <2>1, FS_EmptySet DEF LifetimeInv, CountMatchesDevices
  <1>2. pc' = [pc EXCEPT ![c] =
                 IF DeleteWhenNeeded(count', shutdownPending') THEN "delete" ELSE "idle"]
    BY DEF UpdateData
  <1>3. pc'[c] = IF count' = 0 /\ shutdownPending' THEN "delete" ELSE "idle"
    BY <1>2 DEF DeleteWhenNeeded, Types
  <1>4. \A e \in Callers \ {c} : pc'[e] = pc[e]
    BY <1>2 DEF Types
  <1>5. QED
    BY <1>1, <1>3, <1>4 DEF Deleting

\* Devices come and go.
LEMMA DevicesOwe ==
  ASSUME LifetimeInv, LifetimeInv', OwedInv, Pnp
  PROVE  OwedInv'
  <1> USE DEF LifetimeInv
  <1>1. PICK d \in Devices :
           \/ DeviceAdd(d) \/ DeviceInstancePath(d) \/ DeviceAddFails(d) \/ CountDevice(d)
           \/ DeviceRemove(d) \/ DeviceContextCleanup(d) \/ DeleteMissingPath(d)
    BY DEF Pnp
  <1>2. d \in Callers /\ d # Shutdown /\ Shutdown \in Callers
    BY LifetimeAssumption DEF Callers
  <1>3. load = "loaded" /\ UNCHANGED <<controlVars, notify>>
    BY <1>1 DEF DeviceAdd, DeviceInstancePath, DeviceAddFails, CountDevice, DeviceRemove,
           DeviceContextCleanup, DeleteMissingPath
  <1>4. UNCHANGED <<object, pointer>> /\ (ShutdownBegun' <=> ShutdownBegun)
    BY <1>3 DEF controlVars, ShutdownBegun
  <1>5. CASE DeleteMissingPath(d)
    BY <1>5 DEF DeleteMissingPath, OwedInv
  <1>6. CASE \/ DeviceAdd(d) \/ DeviceInstancePath(d) \/ DeviceAddFails(d) \/ DeviceRemove(d)
    <2>1. dev'[d] # "absent" /\ UNCHANGED <<pc, shutdownPending>>
      BY <1>6 DEF DeviceAdd, DeviceInstancePath, DeviceAddFails, DeviceRemove, Types
    <2>2. ~AllAbsent'
      BY <2>1 DEF AllAbsent
    <2>3. QED
      BY <1>3, <1>4, <2>1, <2>2 DEF OwedInv, Removing, Deciding, Deleting
  <1>7. CASE CountDevice(d) \/ DeviceContextCleanup(d)
    <2>1. PICK increment \in {1, -1} : UpdateData(d, increment)
      BY <1>7 DEF CountDevice, DeviceContextCleanup
    <2>2. shutdownPending' = shutdownPending
      <3>1. (increment = 0) = FALSE /\ shutdownPending \in BOOLEAN
        BY DEF Types
      <3>2. shutdownPending' = (shutdownPending \/ increment = 0)
        BY <2>1 DEF UpdateData
      <3>3. QED
        BY <3>1, <3>2, Zenon
    <2>3. /\ shutdownPending' /\ AllAbsent' => Deleting("delete")'
          /\ pc'[d] \in {"idle", "delete"}
          /\ \A e \in Callers \ {d} : pc'[e] = pc[e]
      BY <1>2, <2>1, DecisionIsTaken
    <2>4. Removing \/ Deciding => Removing' \/ Deciding'
      BY <1>2, <2>3 DEF Removing, Deciding
    <2>5. Deleting("clear")' => Deleting("clear")
      BY <2>3 DEF Deleting
    <2>6. QED
      BY <1>3, <1>4, <2>2, <2>3, <2>4, <2>5 DEF OwedInv
  <1>8. QED
    BY <1>1, <1>5, <1>6, <1>7

\* The shutdown takes its decision, and a deletion is carried out.
LEMMA UpdatingOwes ==
  ASSUME LifetimeInv, LifetimeInv', OwedInv, Updating \/ RemoveImageRoutine
  PROVE  OwedInv'
  <1> USE DEF LifetimeInv
  <1>1. Shutdown \in Callers
    BY DEF Callers
  <1>2. CASE RemoveImageRoutine \/ RemoveProcessRoutine
    <2>1. /\ load = "loaded" /\ ~shutdownPending
          /\ shutdownPending' = shutdownPending
          /\ \/ pc' = [pc EXCEPT ![Shutdown] = "removeProcess"]
             \/ pc' = [pc EXCEPT ![Shutdown] = "update"]
      BY <1>2 DEF RemoveImageRoutine, RemoveProcessRoutine, LoadedInv, ShutdownBegun
    <2>2. /\ pc'[Shutdown] \in {"removeProcess", "update"}
          /\ \A c \in Callers : c # Shutdown => pc'[c] = pc[c]
      BY <1>1, <2>1 DEF Types
    <2>3. \A c \in Callers : pc[c] # "clear"
      BY <2>1 DEF LoadedInv
    <2>4. ~Deleting("clear")'
      BY <2>2, <2>3 DEF Deleting
    <2>5. QED
      BY <2>1, <2>2, <2>4 DEF OwedInv, Removing, Deciding
  <1>3. CASE EnterShutdown
    <2>1. load = "loaded" /\ UpdateData(Shutdown, 0) /\ UNCHANGED <<object, pointer>>
      BY <1>3 DEF EnterShutdown, controlVars
    <2>2. shutdownPending'
      <3>1. (0 = 0) = TRUE
        OBVIOUS
      <3>2. QED
        BY <2>1, <3>1, Zenon DEF UpdateData
    <2>3. /\ shutdownPending' /\ AllAbsent' => Deleting("delete")'
          /\ pc'[Shutdown] \in {"idle", "delete"}
          /\ \A e \in Callers \ {Shutdown} : pc'[e] = pc[e]
      BY <1>1, <2>1, DecisionIsTaken
    <2>4. Deleting("clear")' => Deleting("clear")
      BY <2>3 DEF Deleting
    <2>5. QED
      BY <2>1, <2>2, <2>3, <2>4 DEF OwedInv
  <1>4. ASSUME NEW c \in Callers, DeleteControlDevice(c)
        PROVE  OwedInv'
    <2>1. pc'[c] = "clear" /\ object' = "deleted" /\ load = "loaded" /\ pc[c] = "delete"
          /\ UNCHANGED <<shutdownPending, notify>>
      BY <1>4 DEF DeleteControlDevice, Types
    <2>2. shutdownPending
      BY <2>1 DEF LoadedInv
    <2>3. QED
      BY <2>1, <2>2 DEF OwedInv, Deleting
  <1>5. ASSUME NEW c \in Callers, ClearPointer(c)
        PROVE  OwedInv'
    <2>1. /\ load = "loaded" /\ pc[c] = "clear" /\ pointer' = FALSE
          /\ UNCHANGED <<object, shutdownPending, notify>>
      BY <1>5 DEF ClearPointer
    <2>2. shutdownPending /\ object = "deleted"
      BY <2>1 DEF LoadedInv, OwedInv, Deleting
    <2>3. QED
      BY <2>1, <2>2 DEF OwedInv, Gone
  <1>6. QED
    BY <1>2, <1>3, <1>4, <1>5 DEF Updating

LEMMA OwedStep ==
  ASSUME LifetimeInv, LifetimeInv', OwedInv, [Next]_vars
  PROVE  OwedInv'
  <1>1. CASE Loading
    <2>1. load' = "loaded" => "image" \in notify' /\ ~shutdownPending' /\ pc' = pc
      BY <1>1 DEF Loading, SelfTest, CreateControlDevice, CreateSymbolicLink, CreateQueue,
             InitializeContext, EnableRequests, CreateLock, SubscribeProcesses,
             SubscribeImages, LoadFails, RollBack, LifetimeInv, LoadInv, LoadSteps, afterLoad
    <2>2. load' = "loaded" => ~Deleting("clear")'
      BY <1>1, <2>1 DEF Loading, SelfTest, CreateControlDevice, CreateSymbolicLink, CreateQueue,
             InitializeContext, EnableRequests, CreateLock, SubscribeProcesses,
             SubscribeImages, LoadFails, RollBack, LifetimeInv, LoadInv, LoadSteps, Deleting
    <2>3. QED
      BY <2>1, <2>2 DEF OwedInv, ShutdownBegun
  <1>2. CASE UNCHANGED vars
    BY <1>2 DEF vars, controlVars, OwedInv, ShutdownBegun, Removing, Deciding, AllAbsent,
           Gone, Deleting
  <1>3. QED
    BY <1>1, <1>2, DevicesOwe, UpdatingOwes DEF Next

\* "The control device [...] should be deleted last" (Logic.c:14), and it is: at any moment
\* after the shutdown somebody will still delete it, or has.
THEOREM DeletionIsOwed == Spec => []OwedInv
  <1>1. Init => OwedInv
    BY DEF Init, OwedInv
  <1>2. LifetimeInv /\ LifetimeInv' /\ OwedInv /\ [Next]_vars => OwedInv'
    BY OwedStep
  <1>3. QED
    BY <1>1, <1>2, LifetimeInvariant, PTL DEF Spec

\* From the shutdown to the deletion: no step of anybody takes back what has been done,
\* and each step of a thread inside the driver is the next one.
LEMMA StageStep ==
  ASSUME LifetimeInv, LifetimeInv', OwedInv, OwedInv', [Next]_vars, NothingLeft
  PROVE  /\ NothingLeft'
         /\ Gone => Gone'
         /\ Removing => Removing' \/ Deciding'
         /\ Deciding => Deciding' \/ Deleting("delete")'
         /\ Deleting("delete") => Deleting("delete")' \/ Deleting("clear")'
         /\ Deleting("clear") => Deleting("clear")' \/ Gone'
         /\ Updating =>
               /\ Removing => Deciding'
               /\ Deciding => Deleting("delete")'
               /\ Deleting("delete") => Deleting("clear")'
               /\ Deleting("clear") => Gone'
  <1> USE DEF LifetimeInv, NothingLeft
  <1>1. Shutdown \in Callers
    BY DEF Callers
  <1>2. Updating \/ UNCHANGED vars
    <2>1. ~Loading
      BY LifetimeAssumption DEF Loading, SelfTest, CreateControlDevice, CreateSymbolicLink,
             CreateQueue, InitializeContext, EnableRequests, CreateLock, SubscribeProcesses,
             SubscribeImages, LoadFails, RollBack, LoadSteps
    <2>2. ~Pnp
      BY DEF AllAbsent, Pnp, DeviceAdd, DeviceInstancePath, DeviceAddFails, CountDevice,
             DeviceRemove, DeviceContextCleanup, DeleteMissingPath
    <2>3. ~RemoveImageRoutine
      BY DEF RemoveImageRoutine
    <2>4. QED
      BY <2>1, <2>2, <2>3 DEF Next
  <1>3. NothingLeft'
    BY <1>2 DEF vars, controlVars, ShutdownBegun, AllAbsent, Updating, DeleteControlDevice,
           ClearPointer, RemoveProcessRoutine, EnterShutdown
  <1>4. /\ Removing \/ Deciding => ~shutdownPending
        /\ Deleting("delete") \/ Deleting("clear") => shutdownPending
    BY DEF LoadedInv, Removing, Deciding, Deleting
  <1>5. CASE UNCHANGED vars /\ ~Updating
    BY <1>3, <1>5 DEF vars, controlVars, Removing, Deciding, Gone, Deleting
  <1>6. CASE RemoveProcessRoutine
    <2>1. Removing /\ Deciding' /\ UNCHANGED <<object, pointer>>
      BY <1>1, <1>6 DEF RemoveProcessRoutine, Types, Removing, Deciding, controlVars
    <2>2. ~Deciding
      BY <2>1 DEF Removing, Deciding
    <2>3. QED
      BY <1>3, <1>4, <2>1, <2>2 DEF Gone
  <1>7. CASE EnterShutdown
    <2>1. /\ Deciding /\ UpdateData(Shutdown, 0)
          /\ UNCHANGED <<object, pointer>>
      BY <1>7 DEF EnterShutdown, Deciding, controlVars
    <2>2. ~Removing
      BY <2>1 DEF Removing, Deciding
    <2>3. shutdownPending'
      <3>1. (0 = 0) = TRUE
        OBVIOUS
      <3>2. QED
        BY <2>1, <3>1, Zenon DEF UpdateData
    <2>4. Deleting("delete")'
      BY <1>1, <1>3, <2>1, <2>3, DecisionIsTaken
    <2>5. QED
      BY <1>3, <1>4, <2>1, <2>2, <2>4 DEF Gone
  <1>8. ASSUME NEW c \in Callers, DeleteControlDevice(c)
        PROVE  /\ Deleting("delete") /\ ~Deleting("clear") /\ Deleting("clear")'
               /\ object' = "deleted" /\ pointer' = pointer
    BY <1>8 DEF DeleteControlDevice, Types, LoadedInv, DeletedOnce, Deleting
  <1>9. ASSUME NEW c \in Callers, ClearPointer(c)
        PROVE  Deleting("clear") /\ ~Deleting("delete") /\ Gone'
    BY <1>9 DEF ClearPointer, LoadedInv, DeletedOnce, Deleting, OwedInv, Gone
  <1>10. QED
    BY <1>2, <1>3, <1>4, <1>5, <1>6, <1>7, <1>8, <1>9 DEF Updating, Gone

\* Whoever is at one of these stages is inside the driver, and somebody is until it is over.
LEMMA StagesInside ==
  ASSUME LifetimeInv, OwedInv, NothingLeft
  PROVE  /\ Removing \/ Deciding \/ Deleting("delete") \/ Deleting("clear") \/ Gone
         /\ Removing \/ Deciding \/ Deleting("delete") \/ Deleting("clear") => InsideDriver
  BY DEF OwedInv, NothingLeft, InsideDriver, Removing, Deciding, Deleting, Callers

\* Once the system has shut down and the devices are gone the control device is deleted, for
\* any number of devices; the author of Logic.c:1045 never saw it happen.
THEOREM ControlDeviceGetsDeleted == FairSpec /\ ThreadsCanGoOn => ShutdownDeletes
  <1>1. LifetimeInv /\ LifetimeInv' /\ OwedInv /\ OwedInv' /\ [Next]_vars /\ NothingLeft =>
           /\ NothingLeft'
           /\ Gone => Gone'
           /\ Removing => Removing' \/ Deciding'
           /\ Deciding => Deciding' \/ Deleting("delete")'
           /\ Deleting("delete") => Deleting("delete")' \/ Deleting("clear")'
           /\ Deleting("clear") => Deleting("clear")' \/ Gone'
    BY StageStep
  <1>2. LifetimeInv /\ LifetimeInv' /\ OwedInv /\ OwedInv' /\ [Next]_vars /\ NothingLeft
           /\ <<Updating>>_vars =>
           /\ Removing => Deciding'
           /\ Deciding => Deleting("delete")'
           /\ Deleting("delete") => Deleting("clear")'
           /\ Deleting("clear") => Gone'
    BY StageStep
  <1>3. LifetimeInv /\ OwedInv /\ NothingLeft =>
           /\ Removing \/ Deciding \/ Deleting("delete") \/ Deleting("clear") \/ Gone
           /\ Removing \/ Deciding \/ Deleting("delete") \/ Deleting("clear") => InsideDriver
    BY StagesInside
  <1>4. NothingLeft <=> (ShutdownBegun /\ load = "loaded" /\ \A d \in Devices : dev[d] = "absent")
    BY DEF NothingLeft, AllAbsent
  <1>5. Gone <=> (object = "deleted" /\ ~pointer)
    BY DEF Gone
  <1>6. QED
    BY <1>1, <1>2, <1>3, <1>4, <1>5, LifetimeInvariant, DeletionIsOwed, PTL
       DEF FairSpec, Fairness, Spec, ThreadsCanGoOn, ShutdownDeletes
================================================================================
