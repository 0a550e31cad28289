-------------------------- MODULE FilterWatchdogProofs --------------------------
(***************************************************************************)
(* What FilterWatchdog promises for any number of failing calls, with the  *)
(* installer and the service doing what they like in between: types, that  *)
(* a cycle which nothing disturbs leaves all classes alike, and that the   *)
(* watchdog gets there in the end.                                         *)
(***************************************************************************)
EXTENDS FilterWatchdog, TLAPS

\* How far an undisturbed cycle has come: the classes before the one it is at are
\* as the service demanded at its start.
AddedSoFar ==
    dog \in {"has", "add"} /\ swept # "disturbed" =>
        swept = "running" /\ \A i \in 1 .. 3 : i < class => Class(i) \in filters

RemovedSoFar ==
    dog = "remove" /\ swept # "disturbed" =>
        swept = "stopped" /\ \A i \in 1 .. 3 : i < class => Class(i) \notin filters

CycleInv == TypeOK /\ AddedSoFar /\ RemovedSoFar /\ CycleComplete

\* What NextClass does: the next class, or, after the third, the end of the cycle.
LEMMA NextClassStep ==
    ASSUME TypeOK, NEW call, call # "sleep", NextClass(call)
    PROVE  /\ class' \in 1 .. 3
           /\ dog' \in {call, "sleep"}
           /\ dog' = call => class < 3 /\ class' = class + 1
           /\ dog' = "sleep" => class = 3
  BY DEF TypeOK, NextClass

\* A class is one of the three.
LEMMA ClassOfClasses == \A c \in Classes : \E i \in 1 .. 3 : c = Class(i)
  BY DEF Classes

\* Initially no cycle is under way.
LEMMA CycleInit == Init => CycleInv
  <1> SUFFICES ASSUME Init PROVE CycleInv
    OBVIOUS
  <1>1. cancelled \in BOOLEAN
    BY Zenon DEF Init
  <1> QED BY <1>1, FailuresAssumption
          DEF Init, CycleInv, TypeOK, AddedSoFar, RemovedSoFar, CycleComplete, SetupTasks, NoSetup,
              ServiceStates

\* The steps that neither write an entry nor move the watchdog within a cycle.
LEMMA CycleOtherSteps ==
    ASSUME CycleInv,
           StartTask \/ CancelAll \/ Sleep \/ ServiceChanges \/ Begin \/ RemoveDevice
             \/ InstallDevice \/ EndSetup
    PROVE  CycleInv'
  <1> USE DEF CycleInv, TypeOK, AddedSoFar, RemovedSoFar, CycleComplete, watchdogVars
  <1>1. CASE StartTask
    <2>1. cancelled' \in BOOLEAN
      BY <1>1, Zenon DEF StartTask
    <2> QED BY <1>1, <2>1 DEF StartTask
  <1>2. CASE CancelAll
    BY <1>2 DEF CancelAll
  <1>3. CASE Sleep
    BY <1>3 DEF Sleep
  <1>4. CASE ServiceChanges
    BY <1>4 DEF ServiceChanges
  <1>5. CASE Begin
    BY <1>5 DEF Begin, SetupTasks
  <1>6. CASE RemoveDevice
    BY <1>6 DEF RemoveDevice, SetupTasks, NoSetup
  <1>7. CASE InstallDevice
    BY <1>7 DEF InstallDevice, SetupTasks, NoSetup, NextStep, ServiceStates
  <1>8. CASE EndSetup
    BY <1>8 DEF EndSetup, SetupTasks, NoSetup
  <1> QED BY <1>1, <1>2, <1>3, <1>4, <1>5, <1>6, <1>7, <1>8

\* A failed call disturbs the cycle and stays within the bound.
LEMMA FailStep ==
    ASSUME TypeOK, Fail
    PROVE  failures' \in 0 .. MaxFailures /\ swept' = "disturbed"
  BY FailuresAssumption DEF TypeOK, Fail

\* The query that starts a cycle.
LEMMA CycleQuery ==
    ASSUME CycleInv, GetServiceStatus \/ GetServiceStatusFails
    PROVE  CycleInv'
  <1>1. CASE GetServiceStatus
    BY <1>1 DEF CycleInv, TypeOK, AddedSoFar, RemovedSoFar, CycleComplete, GetServiceStatus, Seen,
                ServiceStates
  <1>2. CASE GetServiceStatusFails
    BY <1>2, FailStep
    DEF CycleInv, TypeOK, AddedSoFar, RemovedSoFar, CycleComplete, GetServiceStatusFails
  <1> QED BY <1>1, <1>2

\* A class that is done: all before it were, and it is now.
LEMMA CycleRemove ==
    ASSUME CycleInv, RemoveDeviceClassFilter
    PROVE  CycleInv'
  <1>1. /\ dog = "remove" /\ NextClass("remove")
        /\ UNCHANGED <<service, cancelled, setup>>
        /\ filters' \subseteq filters
    BY DEF RemoveDeviceClassFilter, Fail
  <1>2. /\ class' \in 1 .. 3
        /\ dog' \in {"remove", "sleep"}
        /\ dog' = "remove" => class < 3 /\ class' = class + 1
        /\ dog' = "sleep" => class = 3
    BY <1>1, NextClassStep DEF CycleInv
  <1>3. failures' \in 0 .. MaxFailures /\ swept' \in {swept, "disturbed"}
    BY FailStep DEF CycleInv, TypeOK, RemoveDeviceClassFilter
  <1>4. TypeOK'
    BY <1>1, <1>2, <1>3 DEF CycleInv, TypeOK
  <1>5. ASSUME swept' # "disturbed"
        PROVE  /\ swept' = "stopped"
               /\ \A i \in 1 .. 3 : i <= class => Class(i) \notin filters'
    <2>1. filters' = filters \ {Class(class)} /\ swept' = swept
      BY <1>5, FailStep DEF CycleInv, RemoveDeviceClassFilter
    <2>2. swept = "stopped" /\ \A i \in 1 .. 3 : i < class => Class(i) \notin filters
      BY <1>1, <1>5, <2>1 DEF CycleInv, RemovedSoFar
    <2> QED BY <2>1, <2>2 DEF CycleInv, TypeOK
  <1>6. RemovedSoFar' /\ AddedSoFar'
    BY <1>2, <1>5 DEF RemovedSoFar, AddedSoFar, CycleInv, TypeOK
  <1>7. ASSUME dog' = "sleep", swept' # "disturbed"
        PROVE  swept' = "stopped" /\ filters' = {}
    <2>1. \A i \in 1 .. 3 : Class(i) \notin filters'
      BY <1>2, <1>5, <1>7
    <2> QED BY <1>4, <1>5, <1>7, <2>1, ClassOfClasses DEF TypeOK
  <1> QED BY <1>4, <1>6, <1>7 DEF CycleInv, CycleComplete

\* A class that is passed because it has its entry, or is given one: all before it have.
LEMMA CyclePass ==
    ASSUME CycleInv, dog \in {"has", "add"}, NextClass("has"), filters' \subseteq Classes,
           filters \subseteq filters', Class(class) \in filters' \/ swept' = "disturbed",
           failures' \in 0 .. MaxFailures, swept' \in {swept, "disturbed"},
           UNCHANGED <<service, cancelled, setup>>
    PROVE  CycleInv'
  <1>1. /\ class' \in 1 .. 3
        /\ dog' \in {"has", "sleep"}
        /\ dog' = "has" => class < 3 /\ class' = class + 1
        /\ dog' = "sleep" => class = 3
    BY NextClassStep DEF CycleInv
  <1>2. TypeOK'
    BY <1>1 DEF CycleInv, TypeOK
  <1>3. ASSUME swept' # "disturbed"
        PROVE  /\ swept' = "running"
               /\ \A i \in 1 .. 3 : i <= class => Class(i) \in filters'
    <2>1. Class(class) \in filters' /\ swept' = swept
      BY <1>3
    <2>2. swept = "running" /\ \A i \in 1 .. 3 : i < class => Class(i) \in filters
      BY <1>3, <2>1 DEF CycleInv, AddedSoFar
    <2> QED BY <2>1, <2>2 DEF CycleInv, TypeOK
  <1>4. RemovedSoFar' /\ AddedSoFar'
    BY <1>1, <1>3 DEF RemovedSoFar, AddedSoFar, CycleInv, TypeOK
  <1>5. ASSUME dog' = "sleep", swept' # "disturbed"
        PROVE  swept' = "running" /\ filters' = Classes
    <2>1. \A i \in 1 .. 3 : Class(i) \in filters'
      BY <1>1, <1>3, <1>5
    <2> QED BY <1>2, <1>3, <1>5, <2>1, ClassOfClasses DEF TypeOK
  <1> QED BY <1>2, <1>4, <1>5 DEF CycleInv, CycleComplete

\* The query for a class, after which the class is passed or is the one to be given an entry.
LEMMA CycleHas ==
    ASSUME CycleInv, HasDeviceClassFilter
    PROVE  CycleInv'
  <1>1. /\ dog = "has" /\ UNCHANGED <<filters, service, cancelled, setup>>
        /\ failures' \in 0 .. MaxFailures /\ swept' \in {swept, "disturbed"}
    BY FailStep DEF CycleInv, TypeOK, HasDeviceClassFilter
  <1>2. CASE ~Missing /\ NextClass("has")
    BY <1>1, <1>2, CyclePass DEF Missing, CycleInv, TypeOK
  <1>3. CASE dog' = "add" /\ UNCHANGED class
    BY <1>1, <1>3
    DEF CycleInv, TypeOK, AddedSoFar, RemovedSoFar, CycleComplete
  <1> QED BY <1>2, <1>3 DEF HasDeviceClassFilter

LEMMA CycleAdd ==
    ASSUME CycleInv, AddDeviceClassFilter
    PROVE  CycleInv'
  <1>1. /\ dog = "add" /\ NextClass("has")
        /\ UNCHANGED <<service, cancelled, setup>>
        /\ filters \subseteq filters'
    BY DEF AddDeviceClassFilter, Fail
  <1>2. failures' \in 0 .. MaxFailures /\ swept' \in {swept, "disturbed"}
    BY FailStep DEF CycleInv, TypeOK, AddDeviceClassFilter
  <1>3. Class(class) \in Classes
    BY DEF Classes, CycleInv, TypeOK
  <1>4. filters' \subseteq Classes /\ (Class(class) \in filters' \/ swept' = "disturbed")
    BY <1>3, FailStep DEF CycleInv, TypeOK, AddDeviceClassFilter
  <1> QED BY <1>1, <1>2, <1>4, CyclePass

\* The installer's writes disturb the cycle, or fail.
LEMMA CycleInstaller ==
    ASSUME CycleInv, RemoveClassFilter \/ AddClassFilter
    PROVE  CycleInv'
  <1>1. /\ UNCHANGED <<service, dog, class, cancelled>>
        /\ swept' = "disturbed"
        /\ failures' \in 0 .. MaxFailures
    BY FailStep DEF CycleInv, TypeOK, RemoveClassFilter, AddClassFilter, watchdogVars
  <1>2. filters' \subseteq Classes
    BY DEF CycleInv, TypeOK, RemoveClassFilter, AddClassFilter, Fail, Classes
  <1>3. setup' \in SetupTasks
    BY DEF CycleInv, TypeOK, RemoveClassFilter, AddClassFilter, NextStep, SetupTasks
  <1> QED BY <1>1, <1>2, <1>3
          DEF CycleInv, TypeOK, AddedSoFar, RemovedSoFar, CycleComplete

LEMMA CycleStep ==
    ASSUME CycleInv, [Next]_vars
    PROVE  CycleInv'
  <1>1. CASE Next
    <2>1. CASE StartTask \/ CancelAll \/ Sleep \/ ServiceChanges \/ Begin \/ RemoveDevice
                 \/ InstallDevice \/ EndSetup
      BY <2>1, CycleOtherSteps
    <2>2. CASE GetServiceStatus \/ GetServiceStatusFails
      BY <2>2, CycleQuery
    <2>3. CASE RemoveDeviceClassFilter
      BY <2>3, CycleRemove
    <2>4. CASE HasDeviceClassFilter \/ AddDeviceClassFilter
      BY <2>4, CycleHas, CycleAdd
    <2>5. CASE RemoveClassFilter \/ AddClassFilter
      BY <2>5, CycleInstaller
    <2> QED BY <1>1, <2>1, <2>2, <2>3, <2>4, <2>5 DEF Next, WatchdogTask, Installer
  <1>2. CASE UNCHANGED vars
    BY <1>2 DEF vars, watchdogVars, CycleInv, TypeOK, AddedSoFar, RemovedSoFar, CycleComplete
  <1> QED BY <1>1, <1>2

\* The classes that WatchdogTask::runTask has passed in a cycle are as the service's
\* state at its start demands, unless a failure or the installer disturbed the cycle.
THEOREM CycleInvariant == Spec => []CycleInv
  BY CycleInit, CycleStep, PTL DEF Spec

\* Both programs stay within their lists of classes and steps, and failures within
\* their bound (runTask, OnBeforeInstall and OnAfterInstall).
THEOREM WatchdogTypeCorrect == Spec => []TypeOK
  BY CycleInvariant, PTL DEF CycleInv

\* A cycle of runTask in which nothing failed or was written by the installer leaves
\* every class with its entry when the service was seen running, and none otherwise.
THEOREM UndisturbedCycleIsComplete == Spec => []CycleComplete
  BY CycleInvariant, PTL DEF CycleInv
--------------------------------------------------------------------------------
(* What happens in the end *)

\* The watchdog always has a next step: what WF_vars(WatchdogTask) rests on.
TaskGoesOn == [](dog # "ended" => ENABLED <<WatchdogTask>>_vars)

\* A step in which no call fails
NothingFails == failures' = failures

\* The watchdog is left alone with a service in state s.
Left(s) == service = s /\ Alone

\* Where the watchdog is, in a cycle begun before it was left alone: at the first call
\* for a class, or at the second.
At(i)    == dog \in {"has", "remove"} /\ class = i
Then(i)  == dog = "add" /\ class = i
Sleeping == dog = "sleep"
Querying == dog = "query"

\* What the service demands, and has been reached: no step of a watchdog that is
\* left alone changes it.
Demanded(s) == IF s = "running" THEN Classes ELSE {}
Answer(s)   == IF s = "running" THEN "has" ELSE "remove"
Settled(s)  == filters = Demanded(s) /\ dog \in {"sleep", "query", Answer(s)}

\* Where it is in the next cycle.
Sweeping(i, s) == dog = Answer(s) /\ class = i /\ swept = s
Adding(i, s)   == dog = "add" /\ class = i /\ swept = s

\* A step of anybody that leaves the watchdog alone is a step of the watchdog, or
\* changes nothing that it looks at.
LEMMA LeftAlone ==
    ASSUME CycleInv, NEW s, Left(s), Left(s)', NothingFails, [Next]_vars
    PROVE  \/ WatchdogTask
           \/ UNCHANGED <<filters, service, dog, class, swept>>
  <1> USE DEF Left, Alone, NothingFails
  <1>1. CASE UNCHANGED vars
    BY <1>1 DEF vars, watchdogVars
  <1>2. CASE StartTask \/ CancelAll
    BY <1>2 DEF StartTask, CancelAll
  <1>3. CASE ServiceChanges
    BY <1>3 DEF ServiceChanges
  <1>4. CASE Begin
    BY <1>4 DEF Begin, NoSetup
  <1>5. CASE Installer
    BY <1>5 DEF Installer, RemoveClassFilter, RemoveDevice, InstallDevice, AddClassFilter,
       EndSetup, NoSetup
  <1> QED BY <1>1, <1>2, <1>3, <1>4, <1>5 DEF Next

\* What a step of the watchdog does then.
LEMMA LeftStep ==
    ASSUME CycleInv, NEW s \in {"running", "stopped"}, Left(s), NothingFails, WatchdogTask
    PROVE  /\ dog = "sleep" => dog' = "query" /\ UNCHANGED <<filters, swept>>
           /\ dog = "query" => Sweeping(1, s)' /\ UNCHANGED filters
           /\ dog = "has" =>
                 /\ UNCHANGED <<filters, swept>>
                 /\ \/ dog' = "add" /\ class' = class /\ Missing
                    \/ NextClass("has") /\ ~Missing
           /\ dog = "add" =>
                 NextClass("has") /\ UNCHANGED swept /\ filters' = filters \union {Class(class)}
           /\ dog = "remove" =>
                 NextClass("remove") /\ UNCHANGED swept /\ filters' = filters \ {Class(class)}
  <1> USE DEF Left, Alone, NothingFails, CycleInv, TypeOK
  <1>1. ~Fail
    BY FailuresAssumption DEF Fail
  <1>2. CASE Sleep
    BY <1>2 DEF Sleep
  <1>3. CASE GetServiceStatus
    BY <1>3 DEF GetServiceStatus, Seen, Sweeping, Answer
  <1>4. ~GetServiceStatusFails
    BY <1>1 DEF GetServiceStatusFails
  <1>5. CASE RemoveDeviceClassFilter
    BY <1>1, <1>5 DEF RemoveDeviceClassFilter
  <1>6. CASE HasDeviceClassFilter
    BY <1>1, <1>6 DEF HasDeviceClassFilter
  <1>7. CASE AddDeviceClassFilter
    BY <1>1, <1>7 DEF AddDeviceClassFilter
  <1> QED BY <1>2, <1>3, <1>4, <1>5, <1>6, <1>7 DEF WatchdogTask

\* The end of a class, without a failure.
LEMMA Passed ==
    ASSUME CycleInv, NEW call, NextClass(call)
    PROVE  /\ class = 1 => class' = 2 /\ dog' = call
           /\ class = 2 => class' = 3 /\ dog' = call
           /\ class = 3 => dog' = "sleep"
  BY DEF NextClass

\* From any place the watchdog comes to the next one.
LEMMA StageStep ==
    ASSUME CycleInv, NEW s \in {"running", "stopped"}, Left(s), Left(s)',
           [NothingFails]_vars, [Next]_vars, WatchdogTask
    PROVE
           /\ At(1) => Then(1)' \/ At(2)'
           /\ Then(1) => At(2)'
           /\ At(2) => Then(2)' \/ At(3)'
           /\ Then(2) => At(3)'
           /\ At(3) => Then(3)' \/ Sleeping'
           /\ Then(3) => Sleeping'
           /\ Sleeping => Querying'
           /\ Querying => Sweeping(1, s)'
           /\ Sweeping(1, s) => Adding(1, s)' \/ Sweeping(2, s)'
           /\ Adding(1, s) => Sweeping(2, s)'
           /\ Sweeping(2, s) => Adding(2, s)' \/ Sweeping(3, s)'
           /\ Adding(2, s) => Sweeping(3, s)'
           /\ Sweeping(3, s) => Adding(3, s)' \/ Settled(s)'
           /\ Adding(3, s) => Settled(s)'
           /\ Settled(s) => Settled(s)'
  <1> USE DEF At, Then, Sleeping, Querying, Sweeping, Adding, Settled, Answer, Demanded
  <1>1. /\ dog = "sleep" => dog' = "query" /\ UNCHANGED <<filters, swept>>
        /\ dog = "query" => Sweeping(1, s)' /\ UNCHANGED filters
        /\ dog = "has" =>
              /\ UNCHANGED <<filters, swept>>
              /\ \/ dog' = "add" /\ class' = class /\ Missing
                 \/ NextClass("has") /\ ~Missing
        /\ dog = "add" =>
              NextClass("has") /\ UNCHANGED swept /\ filters' = filters \union {Class(class)}
        /\ dog = "remove" =>
              NextClass("remove") /\ UNCHANGED swept /\ filters' = filters \ {Class(class)}
    BY LeftStep DEF NothingFails, vars
  <1>2. NextClass("has") \/ NextClass("remove") =>
           /\ class = 1 => class' = 2
           /\ class = 2 => class' = 3
           /\ class \in {1, 2} => dog' \in {"has", "remove"}
           /\ class \in {1, 2} /\ NextClass("has") => dog' = "has"
           /\ class \in {1, 2} /\ NextClass("remove") => dog' = "remove"
           /\ class = 3 => dog' = "sleep"
    BY Passed
  <1>3. CycleInv'
    BY CycleStep
  <1>4. Sweeping(3, s) => Adding(3, s)' \/ Settled(s)'
    BY <1>1, <1>2, <1>3 DEF CycleInv, CycleComplete
  <1>5. Adding(3, s) => Settled(s)'
    BY <1>1, <1>2, <1>3 DEF CycleInv, CycleComplete
  <1>6. Settled(s) => Settled(s)'
    <2>1. class \in 1 .. 3 /\ filters \subseteq Classes /\ Class(class) \in Classes
      BY DEF CycleInv, TypeOK, Classes
    <2>2. CASE dog = "has" /\ filters = Classes /\ s = "running"
      BY <1>1, <1>2, <2>1, <2>2 DEF Missing
    <2>3. CASE dog = "remove" /\ filters = {} /\ s = "stopped"
      BY <1>1, <1>2, <2>1, <2>3
    <2>4. CASE dog \in {"sleep", "query"}
      BY <1>1, <2>4
    <2> QED BY <2>2, <2>3, <2>4
  <1>7. /\ At(1) => Then(1)' \/ At(2)'
        /\ Then(1) => At(2)'
        /\ At(2) => Then(2)' \/ At(3)'
        /\ Then(2) => At(3)'
        /\ At(3) => Then(3)' \/ Sleeping'
        /\ Then(3) => Sleeping'
    BY <1>1, <1>2
  <1>8. /\ Sweeping(1, s) => Adding(1, s)' \/ Sweeping(2, s)'
        /\ Adding(1, s) => Sweeping(2, s)' \/ s # "running"
        /\ Sweeping(2, s) => Adding(2, s)' \/ Sweeping(3, s)'
        /\ Adding(2, s) => Sweeping(3, s)' \/ s # "running"
    BY <1>1, <1>2
  <1>9. Adding(1, s) \/ Adding(2, s) \/ Adding(3, s) => s = "running"
    BY DEF CycleInv, AddedSoFar
  <1> QED BY <1>1, <1>4, <1>5, <1>6, <1>7, <1>8, <1>9

\* It stays where it is until then.
LEMMA StageStays ==
    ASSUME CycleInv, NEW s \in {"running", "stopped"}, Left(s), Left(s)',
           [NothingFails]_vars, [Next]_vars
    PROVE
           /\ At(1) => At(1)' \/ Then(1)' \/ At(2)'
           /\ Then(1) => Then(1)' \/ At(2)'
           /\ At(2) => At(2)' \/ Then(2)' \/ At(3)'
           /\ Then(2) => Then(2)' \/ At(3)'
           /\ At(3) => At(3)' \/ Then(3)' \/ Sleeping'
           /\ Then(3) => Then(3)' \/ Sleeping'
           /\ Sleeping => Sleeping' \/ Querying'
           /\ Querying => Querying' \/ Sweeping(1, s)'
           /\ Sweeping(1, s) => Sweeping(1, s)' \/ Adding(1, s)' \/ Sweeping(2, s)'
           /\ Adding(1, s) => Adding(1, s)' \/ Sweeping(2, s)'
           /\ Sweeping(2, s) => Sweeping(2, s)' \/ Adding(2, s)' \/ Sweeping(3, s)'
           /\ Adding(2, s) => Adding(2, s)' \/ Sweeping(3, s)'
           /\ Sweeping(3, s) => Sweeping(3, s)' \/ Adding(3, s)' \/ Settled(s)'
           /\ Adding(3, s) => Adding(3, s)' \/ Settled(s)'
           /\ Settled(s) => Settled(s)'
  <1>1. CASE WatchdogTask
    BY <1>1, StageStep
  <1>2. CASE ~WatchdogTask
    <2>1. UNCHANGED <<filters, dog, class, swept>>
      BY <1>2, LeftAlone DEF NothingFails, vars
    <2>2. /\ \A i \in 1 .. 3 : (At(i) => At(i)') /\ (Then(i) => Then(i)')
          /\ \A i \in 1 .. 3 :
                (Sweeping(i, s) => Sweeping(i, s)') /\ (Adding(i, s) => Adding(i, s)')
          /\ (Sleeping => Sleeping') /\ (Querying => Querying') /\ (Settled(s) => Settled(s)')
      BY <2>1 DEF At, Then, Sleeping, Querying, Sweeping, Adding, Settled
    <2> QED BY <2>2
  <1> QED BY <1>1, <1>2

\* The watchdog is at one of these places, and always has a next step.
LEMMA Somewhere ==
    ASSUME CycleInv, NEW s, Left(s)
    PROVE  /\ At(1) \/ At(2) \/ At(3) \/ Then(1) \/ Then(2) \/ Then(3) \/ Sleeping \/ Querying
           /\ dog # "ended"
  BY DEF CycleInv, TypeOK, Left, Alone, At, Then, Sleeping, Querying

\* A watchdog that is left alone, with calls that succeed from some time on, brings
\* the entries to where the service demands them, and they stay there.
LEMMA Settles ==
    ASSUME NEW s \in {"running", "stopped"}
    PROVE  Spec /\ TaskGoesOn /\ <>[][NothingFails]_vars /\ <>[]Left(s) => <>[]Settled(s)
  <1>1. CycleInv /\ Left(s) /\ Left(s)' /\ [NothingFails]_vars /\ [Next]_vars =>
           /\ At(1) => At(1)' \/ Then(1)' \/ At(2)'
           /\ Then(1) => Then(1)' \/ At(2)'
           /\ At(2) => At(2)' \/ Then(2)' \/ At(3)'
           /\ Then(2) => Then(2)' \/ At(3)'
           /\ At(3) => At(3)' \/ Then(3)' \/ Sleeping'
           /\ Then(3) => Then(3)' \/ Sleeping'
           /\ Sleeping => Sleeping' \/ Querying'
           /\ Querying => Querying' \/ Sweeping(1, s)'
           /\ Sweeping(1, s) => Sweeping(1, s)' \/ Adding(1, s)' \/ Sweeping(2, s)'
           /\ Adding(1, s) => Adding(1, s)' \/ Sweeping(2, s)'
           /\ Sweeping(2, s) => Sweeping(2, s)' \/ Adding(2, s)' \/ Sweeping(3, s)'
           /\ Adding(2, s) => Adding(2, s)' \/ Sweeping(3, s)'
           /\ Sweeping(3, s) => Sweeping(3, s)' \/ Adding(3, s)' \/ Settled(s)'
           /\ Adding(3, s) => Adding(3, s)' \/ Settled(s)'
           /\ Settled(s) => Settled(s)'
    BY StageStays
  <1>2. CycleInv /\ Left(s) /\ Left(s)' /\ [NothingFails]_vars /\ [Next]_vars
           /\ <<WatchdogTask>>_vars =>
           /\ At(1) => Then(1)' \/ At(2)'
           /\ Then(1) => At(2)'
           /\ At(2) => Then(2)' \/ At(3)'
           /\ Then(2) => At(3)'
           /\ At(3) => Then(3)' \/ Sleeping'
           /\ Then(3) => Sleeping'
           /\ Sleeping => Querying'
           /\ Querying => Sweeping(1, s)'
           /\ Sweeping(1, s) => Adding(1, s)' \/ Sweeping(2, s)'
           /\ Adding(1, s) => Sweeping(2, s)'
           /\ Sweeping(2, s) => Adding(2, s)' \/ Sweeping(3, s)'
           /\ Adding(2, s) => Sweeping(3, s)'
           /\ Sweeping(3, s) => Adding(3, s)' \/ Settled(s)'
           /\ Adding(3, s) => Settled(s)'
    BY StageStep
  <1>3. CycleInv /\ Left(s) =>
           /\ At(1) \/ At(2) \/ At(3) \/ Then(1) \/ Then(2) \/ Then(3) \/ Sleeping \/ Querying
           /\ dog # "ended"
    BY Somewhere
  <1> QED BY <1>1, <1>2, <1>3, CycleInvariant, PTL DEF Spec, TaskGoesOn

\* runTask, left alone with a stopped service, removes every entry in the end, also
\* those that an installer, a failed call or an earlier cycle left behind, provided
\* that calls stop failing and that the task's thread goes on.
THEOREM DriverlessClassesAreCleared ==
    Spec /\ TaskGoesOn /\ <>[][NothingFails]_vars => DriverlessClassesCleared
  <1>1. PICK s \in {"running", "stopped"} : s = "stopped"
    OBVIOUS
  <1>2. Left(s) <=> service = "stopped" /\ Alone
    BY <1>1 DEF Left
  <1>3. Settled(s) => filters = {}
    BY <1>1 DEF Settled, Demanded
  <1>4. Spec /\ TaskGoesOn /\ <>[][NothingFails]_vars /\ <>[]Left(s) => <>[]Settled(s)
    BY Settles
  <1> QED BY <1>2, <1>3, <1>4, PTL DEF DriverlessClassesCleared

\* Left alone with a running service, it brings every entry back.
THEOREM MissingFiltersAreRestored ==
    Spec /\ TaskGoesOn /\ <>[][NothingFails]_vars => MissingFiltersRestored
  <1>1. PICK s \in {"running", "stopped"} : s = "running"
    OBVIOUS
  <1>2. Left(s) <=> service = "running" /\ Alone
    BY <1>1 DEF Left
  <1>3. Settled(s) => filters = Classes
    BY <1>1 DEF Settled, Demanded
  <1>4. Spec /\ TaskGoesOn /\ <>[][NothingFails]_vars /\ <>[]Left(s) => <>[]Settled(s)
    BY Settles
  <1> QED BY <1>2, <1>3, <1>4, PTL DEF MissingFiltersRestored
================================================================================
