-------------------------- MODULE HidHideDriverProofs --------------------------
(***************************************************************************)
(* Proofs about HidHideDriver, for every set of processes, images,         *)
(* devices, settings, writers, requests and faults.                        *)
(***************************************************************************)
EXTENDS HidHideDriver, TLAPS

Pool == [Collections -> [live: BOOLEAN, names: SUBSET Images]]

\* The initial state is well typed.
LEMMA TypeOKInit == ASSUME Init PROVE TypeOK
  <1>1. reg \in Settings /\ ctx \in Context
    BY DEF Init, Settings, Context, LoadContext
  <1>2. pool \in Pool
    BY <1>1, ConstantsAssumption DEF Init, Pool, StartPool, Loaded, Deleted, Settings
  <1>3. QED
    BY <1>1, <1>2 DEF Init, TypeOK, Pool, EarlyProcesses, Setter, IdleSetter, IdleRequest

\* Every step of a process, or of a request about it, keeps the types.
LEMMA TypeOKProcess == ASSUME TypeOK, ProcessNext PROVE TypeOK'
  <1> SUFFICES ASSUME NEW p \in Pids,
                      \/ \E x \in Executables : ProcessCreate(p, x)
                      \/ LoadExecutable(p)
                      \/ LoadExecutableUnregistered(p)
                      \/ \E m \in Modules : LoadModule(p, m)
                      \/ ProcessExit(p)
                      \/ ProcessExitCleanup(p)
                      \/ \E paths \in SUBSET Devices : AddSessionBlacklist(p, paths)
                      \/ ClearSessionBlacklist(p)
               PROVE  TypeOK'
    BY DEF ProcessNext
  <1> USE DEF TypeOK, driverVars, processVars, registryVars
  <1>1. CASE \E x \in Executables : ProcessCreate(p, x)
    BY <1>1 DEF ProcessCreate
  <1>2. CASE LoadExecutable(p)
    BY <1>2 DEF LoadExecutable, Register, Registered, Images
  <1>3. CASE LoadExecutableUnregistered(p)
    BY <1>3 DEF LoadExecutableUnregistered
  <1>4. CASE \E m \in Modules : LoadModule(p, m)
    BY <1>4 DEF LoadModule, Register, Registered, Images
  <1>5. CASE ProcessExit(p)
    BY <1>5 DEF ProcessExit, Unregister
  <1>6. CASE ProcessExitCleanup(p)
    BY <1>6 DEF ProcessExitCleanup, WithoutOwner
  <1>7. CASE \E paths \in SUBSET Devices : AddSessionBlacklist(p, paths)
    BY <1>7 DEF AddSessionBlacklist
  <1>8. CASE ClearSessionBlacklist(p)
    BY <1>8 DEF ClearSessionBlacklist, WithoutOwner
  <1>9. QED
    BY <1>1, <1>2, <1>3, <1>4, <1>5, <1>6, <1>7, <1>8

\* Every step of a writer keeps the types.
LEMMA TypeOKSetter == ASSUME TypeOK, SetterNext PROVE TypeOK'
  <1> SUFFICES ASSUME NEW t \in Setters,
                      \/ \E w \in Whitelists : SetWhitelist(t, w)
                      \/ ReloadWhitelist(t)
                      \/ ReloadWhitelistFails(t)
                      \/ FlushEvaluationCache(t)
                      \/ \E b \in Blacklists : SetBlacklist(t, b)
                      \/ ReloadBlacklist(t)
                      \/ ReloadBlacklistFails(t)
                      \/ \E v \in BOOLEAN : SetActive(t, v)
                      \/ ApplyActive(t)
                      \/ \E v \in BOOLEAN : SetInverse(t, v)
                      \/ ApplyInverse(t)
               PROVE  TypeOK'
    BY DEF SetterNext
  <1> USE DEF TypeOK, driverVars, processVars, registryVars, Settings, Context,
              Setter, IdleSetter, At, Goto, Return
  <1>1. CASE \E w \in Whitelists : SetWhitelist(t, w)
    BY <1>1 DEF SetWhitelist
  <1>2. CASE ReloadWhitelist(t)
    <2>1. reg.wl \in SUBSET Images
      BY ConstantsAssumption
    <2>2. PoolWithout(ctx.wl) \in Pool
      BY DEF PoolWithout, Pool, Deleted
    <2>3. pool' \in Pool
      BY <1>2, <2>1, <2>2 DEF ReloadWhitelist, ReloadedWhitelist, Pool, Loaded
    <2>4. QED
      BY <1>2, <2>3 DEF ReloadWhitelist, Pool
  <1>3. CASE ReloadWhitelistFails(t)
    BY <1>3 DEF ReloadWhitelistFails, PoolWithout, Deleted
  <1>4. CASE FlushEvaluationCache(t)
    BY <1>4 DEF FlushEvaluationCache, FlushedCache
  <1>5. CASE \E b \in Blacklists : SetBlacklist(t, b)
    BY <1>5 DEF SetBlacklist
  <1>6. CASE ReloadBlacklist(t)
    BY <1>6 DEF ReloadBlacklist, ReloadedBlacklist
  <1>7. CASE ReloadBlacklistFails(t)
    BY <1>7 DEF ReloadBlacklistFails
  <1>8. CASE \E v \in BOOLEAN : SetActive(t, v)
    <2>1. PICK v \in BOOLEAN : SetActive(t, v)
      BY <1>8
    <2>2. reg' \in Settings
      BY <2>1 DEF SetActive
    <2>3. setter' \in [Setters -> Setter]
      BY <2>1 DEF SetActive
    <2>4. QED
      BY <2>1, <2>2, <2>3 DEF SetActive
  <1>9. CASE ApplyActive(t)
    BY <1>9 DEF ApplyActive
  <1>10. CASE \E v \in BOOLEAN : SetInverse(t, v)
    <2>1. PICK v \in BOOLEAN : SetInverse(t, v)
      BY <1>10
    <2>2. reg' \in Settings
      BY <2>1 DEF SetInverse
    <2>3. setter' \in [Setters -> Setter]
      BY <2>1 DEF SetInverse
    <2>4. QED
      BY <2>1, <2>2, <2>3 DEF SetInverse
  <1>11. CASE ApplyInverse(t)
    BY <1>11 DEF ApplyInverse
  <1>12. QED
    BY <1>1, <1>2, <1>3, <1>4, <1>5, <1>6, <1>7, <1>8, <1>9, <1>10, <1>11

\* Every step of a file create keeps the types.
LEMMA TypeOKRequest == ASSUME TypeOK, RequestNext PROVE TypeOK'
  <1> SUFFICES ASSUME NEW r \in Requests,
                      \/ \E p \in Callers, d \in Devices, s \in SessionIds :
                            OnDeviceFileCreate(r, p, d, s)
                      \/ CheckBlacklist(r)
                      \/ ReadWhitelistHandle(r)
                      \/ CheckWhitelistCached(r)
                      \/ CheckWhitelistScan(r)
                      \/ ReadInverse(r)
                      \/ Complete(r)
               PROVE  TypeOK'
    BY DEF RequestNext
  <1> USE DEF TypeOK, requestFrame, driverVars, processVars, registryVars
  <1>u. Unread \in Collections
    BY ConstantsAssumption DEF Unread
  <1>a. req[r].pc \notin {"idle", "done"} => req[r] \in Evaluation
    BY DEF IdleRequest, Answered, Create
  <1>b. ASSUME req[r] \in Evaluation, NEW listed \in BOOLEAN, Answer(r, listed)
        PROVE  req' \in [Requests -> {IdleRequest} \union Evaluation \union Answered]
    <2>1. [req[r] EXCEPT !.pc = "inverse", !.coll = Unread, !.listed = listed] \in Evaluation
      BY <1>b, <1>u DEF Evaluation, Create
    <2>2. QED
      BY <1>b, <2>1 DEF Answer
  <1>1. CASE \E p \in Callers, d \in Devices, s \in SessionIds :
                OnDeviceFileCreate(r, p, d, s)
    <2>1. PICK p \in Callers, d \in Devices, s \in SessionIds :
                OnDeviceFileCreate(r, p, d, s)
      BY <1>1
    <2> DEFINE q == [pc |-> IF Evaluated(p) THEN "blacklist" ELSE "done",
                     pid |-> p, dev |-> d, session |-> s, coll |-> Unread,
                     listed |-> FALSE, granted |-> TRUE]
    <2>2. q \in Evaluation \union Answered
      BY <1>u DEF Evaluation, Answered, Create, Callers, Evaluated
    <2>3. req' = [req EXCEPT ![r] = q]
      BY <2>1 DEF OnDeviceFileCreate
    <2>4. QED
      BY <2>1, <2>2, <2>3 DEF OnDeviceFileCreate
  <1>2. CASE CheckBlacklist(r)
    <2>1. req[r] \in Evaluation
      BY <1>2, <1>a DEF CheckBlacklist
    <2>2. /\ [req[r] EXCEPT !.pc = "handle"] \in Evaluation
          /\ [req[r] EXCEPT !.pc = "done"] \in Answered
      BY <2>1 DEF Evaluation, Answered, Create, Callers
    <2>3. QED
      BY <1>2, <2>2 DEF CheckBlacklist
  <1>3. CASE ReadWhitelistHandle(r)
    <2>1. req[r] \in Evaluation /\ ctx.wl \in Collections
      BY <1>3, <1>a DEF ReadWhitelistHandle, Context
    <2>2. [req[r] EXCEPT !.pc = "check", !.coll = ctx.wl] \in Evaluation
      BY <2>1 DEF Evaluation, Create
    <2>3. QED
      BY <1>3, <2>2 DEF ReadWhitelistHandle
  <1>4. CASE CheckWhitelistCached(r)
    <2>1. req[r] \in Evaluation
      BY <1>4, <1>a DEF CheckWhitelistCached
    <2>2. PICK listed \in BOOLEAN : Answer(r, listed)
      BY <1>4 DEF CheckWhitelistCached
    <2>3. QED
      BY <1>4, <2>1, <2>2, <1>b DEF CheckWhitelistCached
  <1>5. CASE CheckWhitelistScan(r)
    <2>1. req[r] \in Evaluation /\ req[r].pid \in Pids
      BY <1>5, <1>a DEF CheckWhitelistScan, Evaluation, Create
    <2>2. PICK found \in BOOLEAN :
             /\ cache' = [cache EXCEPT ![req[r].pid] = Verdict(found)]
             /\ Answer(r, found)
      BY <1>5 DEF CheckWhitelistScan
    <2>3. req' \in [Requests -> {IdleRequest} \union Evaluation \union Answered]
      BY <2>1, <2>2, <1>b
    <2>4. cache' \in [Pids -> {"Empty", "Found", "NotFound"}]
      BY <2>1, <2>2 DEF Verdict
    <2>5. poisoned' \subseteq Pids
      BY <1>5, <2>1 DEF CheckWhitelistScan
    <2>6. QED
      BY <1>5, <2>3, <2>4, <2>5 DEF CheckWhitelistScan
  <1>6. CASE ReadInverse(r)
    <2>1. req[r] \in Evaluation
      BY <1>6, <1>a DEF ReadInverse
    <2>2. [req[r] EXCEPT !.pc = "done", !.granted = Granted(req[r].listed)] \in Answered
      BY <2>1 DEF Evaluation, Answered, Create, Callers, Granted
    <2>3. QED
      BY <1>6, <2>2 DEF ReadInverse
  <1>7. CASE Complete(r)
    BY <1>7 DEF Complete
  <1>8. QED
    BY <1>1, <1>2, <1>3, <1>4, <1>5, <1>6, <1>7

\* A restart keeps the types.
LEMMA TypeOKRestart == ASSUME TypeOK, Restart PROVE TypeOK'
  <1>1. reg' \in Settings /\ ctx' \in Context
    BY DEF Restart, TypeOK, Settings, Context, LoadContext
  <1>2. pool' \in Pool
    BY <1>1, ConstantsAssumption DEF Restart, Pool, StartPool, Loaded, Deleted, Settings
  <1>3. QED
    BY <1>1, <1>2 DEF Restart, TypeOK, Pool, EarlyProcesses, Setter, IdleSetter, IdleRequest

\* TypeOK holds in every reachable state.
THEOREM TypeCorrect == Spec => []TypeOK
  <1>1. Init => TypeOK
    BY TypeOKInit
  <1>2. TypeOK /\ [Next]_vars => TypeOK'
    <2> SUFFICES ASSUME TypeOK, [Next]_vars PROVE TypeOK'
      OBVIOUS
    <2>1. CASE Next
      BY <2>1, TypeOKProcess, TypeOKSetter, TypeOKRequest, TypeOKRestart DEF Next
    <2>2. CASE UNCHANGED vars
      BY <2>2 DEF vars, driverVars, processVars, registryVars, TypeOK
    <2>3. QED
      BY <2>1, <2>2
  <1>3. QED
    BY <1>1, <1>2, PTL DEF Spec

--------------------------------------------------------------------------------
(* The settings: what the driver consults is what the registry holds *)

SettingsInv == OnlyLoadedWhitelistLive /\ WhitelistConverges /\ BlacklistConverges

\* A step that leaves both stores alone, and in which every writer that is between
\* its registry write and its reload stays there, keeps the settings invariant.
LEMMA SettingsFrame ==
  ASSUME SettingsInv, UNCHANGED driverVars, UNCHANGED setter
  PROVE  SettingsInv'
  BY DEF SettingsInv, OnlyLoadedWhitelistLive, WhitelistConverges, BlacklistConverges,
         NoneAt, driverVars

\* Each writer keeps it: the last one to reload reads the last value written.
LEMMA SettingsSetter == ASSUME TypeOK, SettingsInv, SetterNext PROVE SettingsInv'
  <1> SUFFICES ASSUME NEW t \in Setters,
                      \/ \E w \in Whitelists : SetWhitelist(t, w)
                      \/ ReloadWhitelist(t)
                      \/ ReloadWhitelistFails(t)
                      \/ FlushEvaluationCache(t)
                      \/ \E b \in Blacklists : SetBlacklist(t, b)
                      \/ ReloadBlacklist(t)
                      \/ ReloadBlacklistFails(t)
                      \/ \E v \in BOOLEAN : SetActive(t, v)
                      \/ ApplyActive(t)
                      \/ \E v \in BOOLEAN : SetInverse(t, v)
                      \/ ApplyInverse(t)
               PROVE  SettingsInv'
    BY DEF SetterNext
  <1> USE DEF SettingsInv, OnlyLoadedWhitelistLive, WhitelistConverges, BlacklistConverges,
              NoneAt, TypeOK, Settings, Context, Setter, IdleSetter, At, Goto, Return,
              driverVars
  <1>1. CASE \E w \in Whitelists : SetWhitelist(t, w)
    BY <1>1 DEF SetWhitelist
  <1>2. CASE ReloadWhitelist(t)
    <2>1. PICK c \in Collections :
             /\ pool' = [PoolWithout(ctx.wl) EXCEPT ![c] = Loaded(reg.wl)]
             /\ ctx' = [ctx EXCEPT !.wl = c]
      BY <1>2 DEF ReloadWhitelist, ReloadedWhitelist
    <2>2. PoolWithout(ctx.wl) \in Pool
      BY DEF PoolWithout, Pool, Deleted
    <2>3. ctx'.wl = c /\ ctx'.bl = ctx.bl
      BY <2>1
    <2>4. pool'[c] = Loaded(reg.wl) /\ \A d \in Collections \ {c} : ~pool'[d].live
      BY <2>1, <2>2 DEF PoolWithout, Pool, Deleted
    <2>5. OnlyLoadedWhitelistLive'
      BY <2>3, <2>4
    <2>6. WhitelistConverges'
      BY <1>2, <2>3, <2>4 DEF ReloadWhitelist, Loaded
    <2>7. BlacklistConverges'
      BY <1>2, <2>3 DEF ReloadWhitelist
    <2>8. QED
      BY <2>5, <2>6, <2>7
  <1>3. CASE ReloadWhitelistFails(t)
    BY <1>3 DEF ReloadWhitelistFails, PoolWithout, Deleted
  <1>4. CASE FlushEvaluationCache(t)
    BY <1>4 DEF FlushEvaluationCache
  <1>5. CASE \E b \in Blacklists : SetBlacklist(t, b)
    BY <1>5 DEF SetBlacklist
  <1>6. CASE ReloadBlacklist(t)
    BY <1>6 DEF ReloadBlacklist, ReloadedBlacklist
  <1>7. CASE ReloadBlacklistFails(t)
    BY <1>7 DEF ReloadBlacklistFails
  <1>8. CASE \E v \in BOOLEAN : SetActive(t, v)
    BY <1>8 DEF SetActive
  <1>9. CASE ApplyActive(t)
    BY <1>9 DEF ApplyActive
  <1>10. CASE \E v \in BOOLEAN : SetInverse(t, v)
    BY <1>10 DEF SetInverse
  <1>11. CASE ApplyInverse(t)
    BY <1>11 DEF ApplyInverse
  <1>12. QED
    BY <1>1, <1>2, <1>3, <1>4, <1>5, <1>6, <1>7, <1>8, <1>9, <1>10, <1>11

\* Loading the driver establishes it, at the first start and at a restart.
LEMMA SettingsRestart == ASSUME TypeOK, Restart PROVE SettingsInv'
  BY DEF Restart, TypeOK, SettingsInv, OnlyLoadedWhitelistLive, WhitelistConverges,
         BlacklistConverges, LoadContext, StartPool, Loaded, Deleted, Settings

LEMMA SettingsInit == ASSUME Init PROVE SettingsInv
  BY DEF Init, SettingsInv, OnlyLoadedWhitelistLive, WhitelistConverges,
         BlacklistConverges, LoadContext, StartPool, Loaded, Deleted, Settings

\* The steps of processes and of file creates leave the settings alone.
LEMMA OthersLeaveSettings ==
  ASSUME ProcessNext \/ RequestNext
  PROVE  UNCHANGED driverVars /\ UNCHANGED setter
  BY DEF ProcessNext, ProcessCreate, LoadExecutable, LoadExecutableUnregistered,
         LoadModule, ProcessExit, ProcessExitCleanup, AddSessionBlacklist,
         ClearSessionBlacklist, RequestNext, OnDeviceFileCreate, CheckBlacklist,
         ReadWhitelistHandle, CheckWhitelistCached, CheckWhitelistScan, ReadInverse,
         Complete, requestFrame

\* In every reachable state the loaded lists are the persisted ones unless a writer
\* is still on its way or the last reload failed, and no whitelist has leaked.
THEOREM SettingsConverge ==
  Spec => [](OnlyLoadedWhitelistLive /\ WhitelistConverges /\ BlacklistConverges)
  <1>1. Init => SettingsInv
    BY SettingsInit
  <1>2. TypeOK /\ SettingsInv /\ [Next]_vars => SettingsInv'
    <2> SUFFICES ASSUME TypeOK, SettingsInv, [Next]_vars PROVE SettingsInv'
      OBVIOUS
    <2>1. CASE ProcessNext \/ RequestNext
      BY <2>1, OthersLeaveSettings, SettingsFrame
    <2>2. CASE SetterNext
      BY <2>2, SettingsSetter
    <2>3. CASE Restart
      BY <2>3, SettingsRestart
    <2>4. CASE UNCHANGED vars
      BY <2>4, SettingsFrame DEF vars
    <2>5. QED
      BY <2>1, <2>2, <2>3, <2>4 DEF Next
  <1>3. SettingsInv => OnlyLoadedWhitelistLive /\ WhitelistConverges /\ BlacklistConverges
    BY DEF SettingsInv
  <1>4. QED
    BY <1>1, <1>2, <1>3, TypeCorrect, PTL DEF Spec

\* HidHideDriverCreateCollectionForMultiStringProperty leaves no collection behind that
\* nobody will delete, whichever reloads fail.
THEOREM NoWhitelistLeaks == Spec => []OnlyLoadedWhitelistLive
  <1>1. QED
    BY SettingsConverge, PTL

\* The blacklist in force is the persisted one once every SetBlacklist has reloaded.
THEOREM BlacklistIsThePersisted == Spec => []BlacklistConverges
  <1>1. QED
    BY SettingsConverge, PTL

--------------------------------------------------------------------------------
(* The session entries *)

\* SessionBlacklistCleanupForPid and OnControlDeviceIoClearSessionBlacklist: a step that
\* takes a session entry away is the exit of the entry's owner, the owner's own request,
\* or a restart.
THEOREM HiddenUntilTheOwnerIsDone == Spec => OnlyOwnerUnhides
  <1>1. ASSUME [Next]_vars
        PROVE  [\A e \in sessions \ sessions' :
                  ProcessExitCleanup(e.owner) \/ ClearSessionBlacklist(e.owner)
                    \/ Restart]_vars
    <2>1. CASE ProcessNext
      <3>1. PICK p \in Pids :
               \/ sessions' = sessions
               \/ ProcessExitCleanup(p)
               \/ ClearSessionBlacklist(p)
               \/ \E paths \in SUBSET Devices :
                     sessions' = sessions \union [owner: {p}, path: paths]
        BY <2>1 DEF ProcessNext, ProcessCreate, LoadExecutable, LoadExecutableUnregistered,
                    LoadModule, ProcessExit, AddSessionBlacklist
      <3>2. ASSUME ProcessExitCleanup(p) \/ ClearSessionBlacklist(p)
            PROVE  \A e \in sessions \ sessions' : e.owner = p
        BY <3>2 DEF ProcessExitCleanup, ClearSessionBlacklist, WithoutOwner
      <3>3. QED
        BY <3>1, <3>2
    <2>2. CASE SetterNext
      BY <2>2 DEF SetterNext, SetWhitelist, ReloadWhitelist, ReloadWhitelistFails,
                  FlushEvaluationCache, SetBlacklist, ReloadBlacklist, ReloadBlacklistFails,
                  SetActive, ApplyActive, SetInverse, ApplyInverse
    <2>3. CASE RequestNext
      BY <2>3 DEF RequestNext, OnDeviceFileCreate, CheckBlacklist, ReadWhitelistHandle,
                  CheckWhitelistCached, CheckWhitelistScan, ReadInverse, Complete, requestFrame
    <2>4. QED
      BY <1>1, <2>1, <2>2, <2>3 DEF Next
  <1>2. QED
    BY <1>1, PTL DEF Spec, OnlyOwnerUnhides

--------------------------------------------------------------------------------
(* The evaluation cache: a cached verdict is the loaded whitelist's *)

\* Emptying nodes, and changing the name only of emptied nodes, keeps the cache
\* coherent while the whitelist and the writers stay as they are.
LEMMA CacheEmptied ==
  ASSUME CacheCoherent, UNCHANGED driverVars, UNCHANGED setter,
         \A p \in Pids : \/ cache'[p] = "Empty"
                         \/ p \in poisoned'
                         \/ /\ cache'[p] = cache[p] /\ image'[p] = image[p]
                            /\ p \notin poisoned
  PROVE  CacheCoherent'
  BY DEF CacheCoherent, NoneAt, Registered, driverVars

LEMMA RegisterKeepsCache ==
  ASSUME TypeOK, CacheCoherent, UNCHANGED driverVars, UNCHANGED setter,
         NEW p \in Pids, NEW name, Register(p, name)
  PROVE  CacheCoherent'
  BY CacheEmptied DEF Register, Registered, registryVars, TypeOK

\* No step of a process leaves a wrong verdict behind.
LEMMA CacheProcess == ASSUME TypeOK, CacheCoherent, ProcessNext PROVE CacheCoherent'
  <1> SUFFICES ASSUME NEW p \in Pids,
                      \/ \E x \in Executables : ProcessCreate(p, x)
                      \/ LoadExecutable(p)
                      \/ LoadExecutableUnregistered(p)
                      \/ \E m \in Modules : LoadModule(p, m)
                      \/ ProcessExit(p)
                      \/ ProcessExitCleanup(p)
                      \/ \E paths \in SUBSET Devices : AddSessionBlacklist(p, paths)
                      \/ ClearSessionBlacklist(p)
               PROVE  CacheCoherent'
    BY DEF ProcessNext
  <1>0. UNCHANGED driverVars /\ UNCHANGED setter
    BY OthersLeaveSettings DEF ProcessNext
  <1>1. CASE LoadExecutable(p)
    BY <1>0, <1>1, RegisterKeepsCache DEF LoadExecutable
  <1>2. CASE \E m \in Modules : LoadModule(p, m)
    BY <1>0, <1>2, RegisterKeepsCache DEF LoadModule
  <1>3. CASE ProcessExit(p)
    <2>1. /\ cache' = [cache EXCEPT ![p] = "Empty"]
          /\ image' = [image EXCEPT ![p] = NoImage]
          /\ poisoned' = poisoned \ {p}
      BY <1>3 DEF ProcessExit, Unregister
    <2>2. QED
      BY <1>0, <2>1, CacheEmptied DEF TypeOK
  <1>4. CASE \/ \E x \in Executables : ProcessCreate(p, x)
             \/ LoadExecutableUnregistered(p)
             \/ ProcessExitCleanup(p)
             \/ \E paths \in SUBSET Devices : AddSessionBlacklist(p, paths)
             \/ ClearSessionBlacklist(p)
    <2>1. UNCHANGED registryVars
      BY <1>4 DEF ProcessCreate, LoadExecutableUnregistered, ProcessExitCleanup,
                  AddSessionBlacklist, ClearSessionBlacklist
    <2>2. QED
      BY <1>0, <2>1, CacheEmptied DEF registryVars
  <1>5. QED
    BY <1>1, <1>2, <1>3, <1>4

\* A reload is followed by a flush before the cache counts again.
LEMMA CacheSetter ==
  ASSUME TypeOK, CacheCoherent, SetterNext
  PROVE  CacheCoherent'
  <1> SUFFICES ASSUME NEW t \in Setters,
                      \/ \E w \in Whitelists : SetWhitelist(t, w)
                      \/ ReloadWhitelist(t)
                      \/ ReloadWhitelistFails(t)
                      \/ FlushEvaluationCache(t)
                      \/ \E b \in Blacklists : SetBlacklist(t, b)
                      \/ ReloadBlacklist(t)
                      \/ ReloadBlacklistFails(t)
                      \/ \E v \in BOOLEAN : SetActive(t, v)
                      \/ ApplyActive(t)
                      \/ \E v \in BOOLEAN : SetInverse(t, v)
                      \/ ApplyInverse(t)
               PROVE  CacheCoherent'
    BY DEF SetterNext
  <1> USE DEF CacheCoherent, NoneAt, Registered, TypeOK, Context, Setter, IdleSetter,
              At, Goto, Return, driverVars, registryVars
  <1>1. CASE \E w \in Whitelists : SetWhitelist(t, w)
    BY <1>1 DEF SetWhitelist
  <1>2. CASE ReloadWhitelist(t)
    BY <1>2 DEF ReloadWhitelist
  <1>3. CASE ReloadWhitelistFails(t)
    BY <1>3 DEF ReloadWhitelistFails, PoolWithout, Deleted
  <1>4. CASE FlushEvaluationCache(t)
    BY <1>4 DEF FlushEvaluationCache, FlushedCache
  <1>5. CASE \E b \in Blacklists : SetBlacklist(t, b)
    BY <1>5 DEF SetBlacklist
  <1>6. CASE ReloadBlacklist(t)
    BY <1>6 DEF ReloadBlacklist, ReloadedBlacklist
  <1>7. CASE ReloadBlacklistFails(t)
    BY <1>7 DEF ReloadBlacklistFails
  <1>8. CASE \E v \in BOOLEAN : SetActive(t, v)
    BY <1>8 DEF SetActive
  <1>9. CASE ApplyActive(t)
    BY <1>9 DEF ApplyActive
  <1>10. CASE \E v \in BOOLEAN : SetInverse(t, v)
    BY <1>10 DEF SetInverse
  <1>11. CASE ApplyInverse(t)
    BY <1>11 DEF ApplyInverse
  <1>12. QED
    BY <1>1, <1>2, <1>3, <1>4, <1>5, <1>6, <1>7, <1>8, <1>9, <1>10, <1>11

\* A scan caches what the loaded whitelist says, or is remembered as poisoned.
LEMMA CacheRequest ==
  ASSUME TypeOK, OnlyLoadedWhitelistLive, CacheCoherent, RequestNext
  PROVE  CacheCoherent'
  <1> SUFFICES ASSUME NEW r \in Requests,
                      \/ \E p \in Callers, d \in Devices, s \in SessionIds :
                            OnDeviceFileCreate(r, p, d, s)
                      \/ CheckBlacklist(r)
                      \/ ReadWhitelistHandle(r)
                      \/ CheckWhitelistCached(r)
                      \/ CheckWhitelistScan(r)
                      \/ ReadInverse(r)
                      \/ Complete(r)
               PROVE  CacheCoherent'
    BY DEF RequestNext
  <1>0. UNCHANGED driverVars /\ UNCHANGED setter
    BY OthersLeaveSettings DEF RequestNext
  <1>1. CASE CheckWhitelistScan(r)
    <2>1. req[r] \in Evaluation
      BY <1>1 DEF CheckWhitelistScan, TypeOK, IdleRequest, Answered, Create
    <2>2. req[r].pid \in Pids /\ req[r].coll \in Collections
      BY <2>1 DEF Evaluation, Create
    <2>3. PICK found \in BOOLEAN :
             /\ pool[req[r].coll].live =>
                   found = (image[req[r].pid] \in pool[req[r].coll].names)
             /\ cache' = [cache EXCEPT ![req[r].pid] = Verdict(found)]
      BY <1>1 DEF CheckWhitelistScan
    <2>4. /\ image' = image
          /\ poisoned' = IF pool[req[r].coll].live THEN poisoned
                                                   ELSE poisoned \union {req[r].pid}
      BY <1>1 DEF CheckWhitelistScan
    <2>5. CASE pool[req[r].coll].live
      <3>1. req[r].coll = ctx.wl
        BY <2>2, <2>5 DEF OnlyLoadedWhitelistLive
      <3>2. cache'[req[r].pid] = "Found" <=> image[req[r].pid] \in pool[ctx.wl].names
        BY <2>2, <2>3, <2>5, <3>1 DEF Verdict, TypeOK
      <3>3. \A p \in Pids \ {req[r].pid} : cache'[p] = cache[p]
        BY <2>2, <2>3 DEF TypeOK
      <3>4. poisoned' = poisoned
        BY <2>4, <2>5
      <3>5. QED
        BY <1>0, <2>4, <3>2, <3>3, <3>4 DEF CacheCoherent, NoneAt, Registered, driverVars
    <2>6. CASE ~pool[req[r].coll].live
      BY <1>0, <2>2, <2>3, <2>4, <2>6, CacheEmptied DEF TypeOK
    <2>7. QED
      BY <2>5, <2>6
  <1>2. CASE \/ \E p \in Callers, d \in Devices, s \in SessionIds :
                   OnDeviceFileCreate(r, p, d, s)
             \/ CheckBlacklist(r)
             \/ ReadWhitelistHandle(r)
             \/ CheckWhitelistCached(r)
             \/ ReadInverse(r)
             \/ Complete(r)
    <2>1. UNCHANGED registryVars
      BY <1>2 DEF OnDeviceFileCreate, CheckBlacklist, ReadWhitelistHandle,
                  CheckWhitelistCached, ReadInverse, Complete
    <2>2. QED
      BY <1>0, <2>1, CacheEmptied DEF registryVars
  <1>3. QED
    BY <1>1, <1>2

\* In every reachable state a verdict that is cached, and that was not taken from a
\* deleted collection, is the one the loaded whitelist gives, unless a SetWhitelist
\* has still to flush or the last reload failed.
THEOREM CacheStaysCoherent == Spec => []CacheCoherent
  <1>1. Init => CacheCoherent
    BY DEF Init, CacheCoherent, Registered
  <1>2. TypeOK /\ OnlyLoadedWhitelistLive /\ CacheCoherent /\ [Next]_vars => CacheCoherent'
    <2> SUFFICES ASSUME TypeOK, OnlyLoadedWhitelistLive, CacheCoherent, [Next]_vars
                 PROVE  CacheCoherent'
      OBVIOUS
    <2>1. CASE ProcessNext
      BY <2>1, CacheProcess
    <2>2. CASE SetterNext
      BY <2>2, CacheSetter
    <2>3. CASE RequestNext
      BY <2>3, CacheRequest
    <2>4. CASE Restart
      BY <2>4 DEF Restart, CacheCoherent, Registered
    <2>5. CASE UNCHANGED vars
      BY <2>5, CacheEmptied DEF vars, registryVars
    <2>6. QED
      BY <2>1, <2>2, <2>3, <2>4, <2>5 DEF Next
  <1>3. QED
    BY <1>1, <1>2, TypeCorrect, SettingsConverge, PTL DEF Spec

--------------------------------------------------------------------------------
(* Processes: reuse of a pid, and the name a pid is registered under *)

\* Only the steps of processes and a restart touch the processes, the names and
\* the session entries.
LEMMA OthersLeaveProcesses ==
  ASSUME SetterNext \/ RequestNext
  PROVE  UNCHANGED <<processVars, image, sessions>>
  BY DEF SetterNext, SetWhitelist, ReloadWhitelist, ReloadWhitelistFails,
         FlushEvaluationCache, SetBlacklist, ReloadBlacklist, ReloadBlacklistFails,
         SetActive, ApplyActive, SetInverse, ApplyInverse, RequestNext,
         OnDeviceFileCreate, CheckBlacklist, ReadWhitelistHandle,
         CheckWhitelistCached, CheckWhitelistScan, ReadInverse, Complete,
         requestFrame, registryVars

\* A process that reuses a pid finds nothing of the process that had it before.
LEMMA NothingInheritedProcess ==
  ASSUME TypeOK, NothingInherited, ProcessNext
  PROVE  NothingInherited'
  <1> SUFFICES ASSUME NEW p \in Pids,
                      \/ \E x \in Executables : ProcessCreate(p, x)
                      \/ LoadExecutable(p)
                      \/ LoadExecutableUnregistered(p)
                      \/ \E m \in Modules : LoadModule(p, m)
                      \/ ProcessExit(p)
                      \/ ProcessExitCleanup(p)
                      \/ \E paths \in SUBSET Devices : AddSessionBlacklist(p, paths)
                      \/ ClearSessionBlacklist(p)
               PROVE  NothingInherited'
    BY DEF ProcessNext
  <1> USE DEF NothingInherited, Registered, TypeOK, processVars, registryVars
  <1>1. CASE \E x \in Executables : ProcessCreate(p, x)
    BY <1>1 DEF ProcessCreate
  <1>2. CASE LoadExecutable(p)
    BY <1>2 DEF LoadExecutable, Register
  <1>3. CASE LoadExecutableUnregistered(p)
    BY <1>3 DEF LoadExecutableUnregistered
  <1>4. CASE \E m \in Modules : LoadModule(p, m)
    BY <1>4 DEF LoadModule, Register
  <1>5. CASE ProcessExit(p)
    BY <1>5 DEF ProcessExit, Unregister
  <1>6. CASE ProcessExitCleanup(p)
    BY <1>6 DEF ProcessExitCleanup, WithoutOwner
  <1>7. CASE \E paths \in SUBSET Devices : AddSessionBlacklist(p, paths)
    BY <1>7 DEF AddSessionBlacklist
  <1>8. CASE ClearSessionBlacklist(p)
    BY <1>8 DEF ClearSessionBlacklist, WithoutOwner
  <1>9. QED
    BY <1>1, <1>2, <1>3, <1>4, <1>5, <1>6, <1>7, <1>8

\* A process that Windows gives a used pid finds no node, verdict or session entry of
\* the process before it: OnSystemProcessChange took them all away at its exit.
THEOREM PidReuseIsClean == Spec => []NothingInherited
  <1>1. Init => NothingInherited
    BY DEF Init, NothingInherited, Registered
  <1>2. TypeOK /\ NothingInherited /\ [Next]_vars => NothingInherited'
    <2> SUFFICES ASSUME TypeOK, NothingInherited, [Next]_vars PROVE NothingInherited'
      OBVIOUS
    <2>1. CASE ProcessNext
      BY <2>1, NothingInheritedProcess
    <2>2. CASE SetterNext \/ RequestNext
      BY <2>2, OthersLeaveProcesses DEF NothingInherited, Registered, processVars
    <2>3. CASE Restart
      BY <2>3 DEF Restart, NothingInherited, Registered
    <2>4. CASE UNCHANGED vars
      BY <2>4 DEF vars, processVars, registryVars, NothingInherited, Registered
    <2>5. QED
      BY <2>1, <2>2, <2>3, <2>4 DEF Next
  <1>3. QED
    BY <1>1, <1>2, TypeCorrect, PTL DEF Spec

\* A running process is registered, and under the name of its executable: what
\* makes RegisteredIsExecutable inductive.
RunningRegistered ==
  \A p \in Pids : /\ Registered(p) => image[p] = exe[p]
                  /\ proc[p] = "running" => Registered(p)
                  /\ proc[p] # "none" => exe[p] # NoImage

\* When no process was running before the driver and no registration fails, every
\* registered name is the executable's, whatever modules the process loads later.
THEOREM RegistrationIsExecutable ==
  ASSUME EarlyPids = {}, "register" \notin Faults
  PROVE  Spec => []RegisteredIsExecutable
  <1>1. Init => RunningRegistered
    BY DEF Init, RunningRegistered, Registered, EarlyProcesses
  <1>2. TypeOK /\ NothingInherited /\ RunningRegistered /\ [Next]_vars
           => RunningRegistered'
    <2> SUFFICES ASSUME TypeOK, NothingInherited, RunningRegistered, [Next]_vars
                 PROVE  RunningRegistered'
      OBVIOUS
    <2>1. CASE ProcessNext
      <3> PICK p \in Pids :
             \/ \E x \in Executables : ProcessCreate(p, x)
             \/ LoadExecutable(p)
             \/ LoadExecutableUnregistered(p)
             \/ \E m \in Modules : LoadModule(p, m)
             \/ ProcessExit(p)
             \/ ProcessExitCleanup(p)
             \/ \E paths \in SUBSET Devices : AddSessionBlacklist(p, paths)
             \/ ClearSessionBlacklist(p)
        BY <2>1 DEF ProcessNext
      <3> USE DEF RunningRegistered, NothingInherited, Registered, TypeOK,
                  processVars, registryVars
      <3>1. CASE \E x \in Executables : ProcessCreate(p, x)
        BY <3>1, ConstantsAssumption DEF ProcessCreate, Images
      <3>2. CASE LoadExecutable(p)
        <4>1. exe[p] # NoImage
          BY <3>2 DEF LoadExecutable
        <4>2. QED
          BY <3>2, <4>1 DEF LoadExecutable, Register
      <3>3. CASE LoadExecutableUnregistered(p)
        BY <3>3 DEF LoadExecutableUnregistered
      <3>4. CASE \E m \in Modules : LoadModule(p, m)
        BY <3>4 DEF LoadModule, Register
      <3>5. CASE ProcessExit(p)
        BY <3>5 DEF ProcessExit, Unregister
      <3>6. CASE ProcessExitCleanup(p)
        BY <3>6 DEF ProcessExitCleanup
      <3>7. CASE \E paths \in SUBSET Devices : AddSessionBlacklist(p, paths)
        BY <3>7 DEF AddSessionBlacklist
      <3>8. CASE ClearSessionBlacklist(p)
        BY <3>8 DEF ClearSessionBlacklist
      <3>9. QED
        BY <3>1, <3>2, <3>3, <3>4, <3>5, <3>6, <3>7, <3>8
    <2>2. CASE SetterNext \/ RequestNext
      BY <2>2, OthersLeaveProcesses DEF RunningRegistered, Registered, processVars
    <2>3. CASE Restart
      BY <2>3 DEF Restart, RunningRegistered, Registered, EarlyProcesses
    <2>4. CASE UNCHANGED vars
      BY <2>4 DEF vars, processVars, registryVars, RunningRegistered, Registered
    <2>5. QED
      BY <2>1, <2>2, <2>3, <2>4 DEF Next
  <1>3. RunningRegistered => RegisteredIsExecutable
    BY DEF RunningRegistered, RegisteredIsExecutable
  <1>4. QED
    BY <1>1, <1>2, <1>3, TypeCorrect, PidReuseIsClean, PTL DEF Spec

--------------------------------------------------------------------------------
(* The switches, with one writer at a time *)

\* The value a writer still has to apply is the persisted one.
SwitchesInv ==
  /\ SwitchesConverge
  /\ \A t \in Setters : /\ setter[t].pc = "active"  => setter[t].val = reg.active
                        /\ setter[t].pc = "inverse" => setter[t].val = reg.inverse

\* When at most one I/O control request changes settings at a time, the active and
\* inverse states in force are the persisted ones whenever none is in progress.
THEOREM SingleWriterSwitches ==
  ASSUME \A t, u \in Setters : t = u
  PROVE  Spec => []SwitchesConverge
  <1>1. Init => SwitchesInv
    BY DEF Init, SwitchesInv, SwitchesConverge, LoadContext, IdleSetter
  <1>2. TypeOK /\ SwitchesInv /\ [Next]_vars => SwitchesInv'
    <2> SUFFICES ASSUME TypeOK, SwitchesInv, [Next]_vars PROVE SwitchesInv'
      OBVIOUS
    <2>1. CASE UNCHANGED driverVars /\ UNCHANGED setter
      BY <2>1 DEF SwitchesInv, SwitchesConverge, NoneAt, driverVars
    <2>2. CASE SetterNext
      <3> PICK t \in Setters :
             \/ \E w \in Whitelists : SetWhitelist(t, w)
             \/ ReloadWhitelist(t)
             \/ ReloadWhitelistFails(t)
             \/ FlushEvaluationCache(t)
             \/ \E b \in Blacklists : SetBlacklist(t, b)
             \/ ReloadBlacklist(t)
             \/ ReloadBlacklistFails(t)
             \/ \E v \in BOOLEAN : SetActive(t, v)
             \/ ApplyActive(t)
             \/ \E v \in BOOLEAN : SetInverse(t, v)
             \/ ApplyInverse(t)
        BY <2>2 DEF SetterNext
      <3> USE DEF SwitchesInv, SwitchesConverge, NoneAt, TypeOK, Settings, Context,
                  Setter, IdleSetter, At, Goto, Return, driverVars
      <3>1. CASE \E w \in Whitelists : SetWhitelist(t, w)
        BY <3>1 DEF SetWhitelist
      <3>2. CASE ReloadWhitelist(t)
        BY <3>2 DEF ReloadWhitelist
      <3>3. CASE ReloadWhitelistFails(t)
        BY <3>3 DEF ReloadWhitelistFails
      <3>4. CASE FlushEvaluationCache(t)
        BY <3>4 DEF FlushEvaluationCache
      <3>5. CASE \E b \in Blacklists : SetBlacklist(t, b)
        BY <3>5 DEF SetBlacklist
      <3>6. CASE ReloadBlacklist(t)
        BY <3>6 DEF ReloadBlacklist
      <3>7. CASE ReloadBlacklistFails(t)
        BY <3>7 DEF ReloadBlacklistFails
      <3>8. CASE \E v \in BOOLEAN : SetActive(t, v)
        BY <3>8 DEF SetActive
      <3>9. CASE ApplyActive(t)
        BY <3>9 DEF ApplyActive
      <3>10. CASE \E v \in BOOLEAN : SetInverse(t, v)
        BY <3>10 DEF SetInverse
      <3>11. CASE ApplyInverse(t)
        BY <3>11 DEF ApplyInverse
      <3>12. QED
        BY <3>1, <3>2, <3>3, <3>4, <3>5, <3>6, <3>7, <3>8, <3>9, <3>10, <3>11
    <2>3. CASE Restart
      BY <2>3 DEF Restart, SwitchesInv, SwitchesConverge, LoadContext, IdleSetter
    <2>4. QED
      BY <2>1, <2>2, <2>3, OthersLeaveSettings DEF Next, vars
  <1>3. SwitchesInv => SwitchesConverge
    BY DEF SwitchesInv
  <1>4. QED
    BY <1>1, <1>2, <1>3, TypeCorrect, PTL DEF Spec

--------------------------------------------------------------------------------
(* The registry of processes implements ProcessRegistry *)

\* A registration is one of the abstract registry, or nothing; without a name to
\* register under, it leaves the pid as an unregistration would.
LEMMA RegisterImplements ==
  ASSUME NEW p \in Pids, NEW name \in Images \union {NoImage}, Register(p, name)
  PROVE  [Registry!Next]_<<image, cache>>
  <1>1. CASE Registered(p)
    BY <1>1 DEF Register, registryVars
  <1>2. CASE ~Registered(p) /\ name = NoImage
    <2>1. Registry!Unregister(p)
      BY <1>2 DEF Register, Registry!Unregister
    <2>2. QED
      BY <2>1 DEF Registry!Next
  <1>3. CASE ~Registered(p) /\ name # NoImage
    <2>1. Registry!Register(p, name)
      BY <1>3 DEF Register, Registered, Registry!Register, Registry!Known
    <2>2. QED
      BY <1>3, <2>1 DEF Registry!Next
  <1>4. QED
    BY <1>1, <1>2, <1>3

\* The only other steps that touch the registry, seen as steps of the abstract one.
LEMMA ProcessImplements ==
  ASSUME TypeOK, ProcessNext PROVE [Registry!Next]_<<image, cache>>
  <1> SUFFICES ASSUME NEW p \in Pids,
                      \/ \E x \in Executables : ProcessCreate(p, x)
                      \/ LoadExecutable(p)
                      \/ LoadExecutableUnregistered(p)
                      \/ \E m \in Modules : LoadModule(p, m)
                      \/ ProcessExit(p)
                      \/ ProcessExitCleanup(p)
                      \/ \E paths \in SUBSET Devices : AddSessionBlacklist(p, paths)
                      \/ ClearSessionBlacklist(p)
               PROVE  [Registry!Next]_<<image, cache>>
    BY DEF ProcessNext
  <1> USE DEF registryVars
  <1>1. CASE \E x \in Executables : ProcessCreate(p, x)
    BY <1>1 DEF ProcessCreate
  <1>2. CASE LoadExecutable(p)
    <2>1. exe[p] \in Images \union {NoImage} /\ Register(p, exe[p])
      BY <1>2 DEF TypeOK, Images, LoadExecutable
    <2>2. QED
      BY <2>1, RegisterImplements
  <1>3. CASE LoadExecutableUnregistered(p)
    BY <1>3 DEF LoadExecutableUnregistered
  <1>4. CASE \E m \in Modules : LoadModule(p, m)
    <2>1. PICK m \in Images : Register(p, m)
      BY <1>4 DEF LoadModule, Images
    <2>2. QED
      BY <2>1, RegisterImplements
  <1>5. CASE ProcessExit(p)
    <2>1. Registry!Unregister(p)
      BY <1>5 DEF ProcessExit, Unregister, Registry!Unregister
    <2>2. QED
      BY <2>1 DEF Registry!Next
  <1>6. CASE ProcessExitCleanup(p)
    BY <1>6 DEF ProcessExitCleanup
  <1>7. CASE \E paths \in SUBSET Devices : AddSessionBlacklist(p, paths)
    BY <1>7 DEF AddSessionBlacklist
  <1>8. CASE ClearSessionBlacklist(p)
    BY <1>8 DEF ClearSessionBlacklist
  <1>9. QED
    BY <1>1, <1>2, <1>3, <1>4, <1>5, <1>6, <1>7, <1>8

LEMMA SetterImplements ==
  ASSUME SetterNext PROVE [Registry!Next]_<<image, cache>>
  <1>1. CASE \E t \in Setters : FlushEvaluationCache(t)
    <2>1. Registry!Flush
      BY <1>1 DEF FlushEvaluationCache, FlushedCache, Registry!Flush
    <2>2. QED
      BY <2>1 DEF Registry!Next
  <1>2. CASE ~\E t \in Setters : FlushEvaluationCache(t)
    BY <1>2 DEF SetterNext, SetWhitelist, ReloadWhitelist, ReloadWhitelistFails,
                SetBlacklist, ReloadBlacklist, ReloadBlacklistFails, SetActive,
                ApplyActive, SetInverse, ApplyInverse, registryVars
  <1>3. QED
    BY <1>1, <1>2

LEMMA RequestImplements ==
  ASSUME TypeOK, RequestNext PROVE [Registry!Next]_<<image, cache>>
  <1>1. CASE \E r \in Requests : CheckWhitelistScan(r)
    <2>1. PICK r \in Requests : CheckWhitelistScan(r)
      BY <1>1
    <2>2. req[r] \in Evaluation
      BY <2>1 DEF TypeOK, CheckWhitelistScan, IdleRequest, Answered, Create
    <2>3. req[r].pid \in Pids
      BY <2>2 DEF Evaluation, Create
    <2>4. PICK found \in BOOLEAN :
             cache' = [cache EXCEPT ![req[r].pid] = Verdict(found)]
      BY <2>1 DEF CheckWhitelistScan
    <2>5. Verdict(found) \in {"Found", "NotFound"}
      BY DEF Verdict
    <2>6. Registry!Evaluate(req[r].pid, Verdict(found))
      BY <2>1, <2>4 DEF CheckWhitelistScan, Registered, Registry!Evaluate, Registry!Known
    <2>7. QED
      BY <2>3, <2>5, <2>6 DEF Registry!Next
  <1>2. CASE ~\E r \in Requests : CheckWhitelistScan(r)
    BY <1>2 DEF RequestNext, OnDeviceFileCreate, CheckBlacklist, ReadWhitelistHandle,
                CheckWhitelistCached, ReadInverse, Complete, registryVars
  <1>3. QED
    BY <1>1, <1>2

\* The driver implements the abstract registry of processes: whatever the writers,
\* the file creates and the processes do, a registered name stays until its process
\* exits, and a verdict until then or until everything is flushed.
THEOREM DriverImplementsRegistry == Spec => ImplementsRegistry
  <1>1. Init => Registry!Init
    BY DEF Init, Registry!Init
  <1>2. TypeOK /\ [Next]_vars => [Registry!Next]_<<image, cache>>
    <2> SUFFICES ASSUME TypeOK, [Next]_vars PROVE [Registry!Next]_<<image, cache>>
      OBVIOUS
    <2>1. CASE ProcessNext
      BY <2>1, ProcessImplements
    <2>2. CASE SetterNext
      BY <2>2, SetterImplements
    <2>3. CASE RequestNext
      BY <2>3, RequestImplements
    <2>4. CASE Restart
      <3>1. Registry!Reset
        BY <2>4 DEF Restart, Registry!Reset
      <3>2. QED
        BY <3>1 DEF Registry!Next
    <2>5. CASE UNCHANGED vars
      BY <2>5 DEF vars, registryVars
    <2>6. QED
      BY <2>1, <2>2, <2>3, <2>4, <2>5 DEF Next
  <1>3. QED
    BY <1>1, <1>2, TypeCorrect, PTL DEF Spec, ImplementsRegistry, Registry!Spec
================================================================================
