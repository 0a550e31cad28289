-------------------------- MODULE HidHideVerdictsProofs --------------------------
(***************************************************************************)
(* The verdict on a file create, for any number of processes, writers and  *)
(* creates: although OnDeviceFileCreate takes the lock four times, with at *)
(* most one change in between its verdict is one the driver stood for.     *)
(*                                                                         *)
(* The argument: a step of the driver changes at most one of the four      *)
(* inputs of a verdict.  What a create has read, completed by what it has  *)
(* still to read, is then what the inputs are, or were before the change.  *)
(***************************************************************************)
EXTENDS HidHideVerdicts, HidHideDriverProofs

Fields == {"active", "hidden", "listed", "inverse"}

\* The verdict on a process' create that inputs would give.
Grants(in) == in.active /\ in.hidden => in.listed # in.inverse

\* in has the values that create r has read, and the current ones for the rest.
Fits(r, in) ==
    /\ in.active
    /\ in.hidden = IF req[r].pc = "blacklist" THEN Inputs(r).hidden ELSE TRUE
    /\ in.listed = IF req[r].pc = "inverse" THEN req[r].listed ELSE Inputs(r).listed
    /\ in.inverse = Inputs(r).inverse

VerdictTypes == [active: BOOLEAN, hidden: BOOLEAN, listed: BOOLEAN, inverse: BOOLEAN]

Followed(r) == hist[r].changes < MaxChanges /\ ~hist[r].tainted

\* The inputs that the create's verdict will be that of
Explained(r) ==
    \E in \in VerdictTypes : Fits(r, in) /\ Grants(in) \in hist[r].seen

CreateInv(r) ==
    /\ hist[r].changes \in 0..MaxChanges
    /\ InProgress(r) =>
          /\ req[r].pid # SystemPid /\ req[r].granted
          /\ ~hist[r].tainted => ~TaintedNow(r)
          /\ Followed(r) => GrantedNow(r) \in hist[r].seen /\ Explained(r)
          /\ Followed(r) /\ hist[r].changes = 0 => Fits(r, Inputs(r))
    /\ req[r].pc = "done" /\ Followed(r) => req[r].granted \in hist[r].seen

DriverInv == TypeOK /\ OnlyLoadedWhitelistLive
VerdictInv == \A r \in Requests : CreateInv(r)
--------------------------------------------------------------------------------
(* The inputs of a verdict *)

LEMMA InputTypes ==
    ASSUME TypeOK, NEW r \in Requests
    PROVE  Inputs(r) \in VerdictTypes
  <1>1. ctx.active \in BOOLEAN /\ ctx.inverse \in BOOLEAN
    BY DEF TypeOK, Context
  <1>2. WhitelistedNow(req[r].pid) \in BOOLEAN
    BY DEF WhitelistedNow
  <1>3. Blacklisted(req[r].dev, req[r].session) \in BOOLEAN
    BY DEF Blacklisted
  <1> QED BY <1>1, <1>2, <1>3 DEF Inputs, VerdictTypes

\* What each input depends on.
LEMMA InputFrame ==
    ASSUME NEW r \in Requests, req'[r].pid = req[r].pid, req'[r].dev = req[r].dev,
           req'[r].session = req[r].session
    PROVE  /\ ctx'.active = ctx.active => Inputs(r)'.active = Inputs(r).active
           /\ ctx'.bl = ctx.bl /\ sessions' = sessions
                 => Inputs(r)'.hidden = Inputs(r).hidden
           /\ image' = image /\ cache' = cache /\ pool' = pool /\ ctx'.wl = ctx.wl
                 => Inputs(r)'.listed = Inputs(r).listed
           /\ ctx'.inverse = ctx.inverse => Inputs(r)'.inverse = Inputs(r).inverse
  <1>1. ctx'.bl = ctx.bl /\ sessions' = sessions => Inputs(r)'.hidden = Inputs(r).hidden
    BY DEF Inputs, Blacklisted
  <1>2. image' = image /\ cache' = cache /\ pool' = pool /\ ctx'.wl = ctx.wl
                 => Inputs(r)'.listed = Inputs(r).listed
    BY DEF Inputs, WhitelistedNow, Registered
  <1>3. /\ ctx'.active = ctx.active => Inputs(r)'.active = Inputs(r).active
        /\ ctx'.inverse = ctx.inverse => Inputs(r)'.inverse = Inputs(r).inverse
    BY DEF Inputs
  <1> QED BY <1>1, <1>2, <1>3

OneChange(r) ==
    \E f \in Fields : \A g \in Fields \ {f} : Inputs(r)'[g] = Inputs(r)[g]

\* Whatever else the driver does, at most one input of a create's verdict changes.
LEMMA StepsChangeOneInput ==
    ASSUME TypeOK, NEW r \in Requests, Next, req'[r] = req[r], req[r].pc # "idle"
    PROVE  OneChange(r)
  <1>1. /\ ctx'.active = ctx.active => Inputs(r)'.active = Inputs(r).active
        /\ ctx'.bl = ctx.bl /\ sessions' = sessions
                 => Inputs(r)'.hidden = Inputs(r).hidden
        /\ image' = image /\ cache' = cache /\ pool' = pool /\ ctx'.wl = ctx.wl
                 => Inputs(r)'.listed = Inputs(r).listed
        /\ ctx'.inverse = ctx.inverse => Inputs(r)'.inverse = Inputs(r).inverse
    BY InputFrame
  <1>2. CASE ProcessNext
    <2>1. /\ ctx' = ctx /\ pool' = pool
          /\ sessions' = sessions \/ (image' = image /\ cache' = cache)
      BY <1>2 DEF ProcessNext, ProcessCreate, LoadExecutable, LoadExecutableUnregistered,
                  LoadModule, ProcessExit, ProcessExitCleanup, AddSessionBlacklist,
                  ClearSessionBlacklist, driverVars, registryVars
    <2> QED BY <1>1, <2>1 DEF OneChange, Fields
  <1>3. CASE SetterNext
    <2> USE DEF At, Goto, Return, driverVars, registryVars, TypeOK, Context
    <2>1. /\ image' = image /\ sessions' = sessions
          /\ \/ ctx' = ctx /\ pool' = pool
             \/ /\ ctx'.active = ctx.active /\ ctx'.inverse = ctx.inverse /\ ctx'.bl = ctx.bl
             \/ /\ ctx'.wl = ctx.wl /\ pool' = pool /\ cache' = cache
                /\ \/ ctx'.active = ctx.active /\ ctx'.inverse = ctx.inverse
                   \/ ctx'.active = ctx.active /\ ctx'.bl = ctx.bl
                   \/ ctx'.inverse = ctx.inverse /\ ctx'.bl = ctx.bl
      <3> PICK t \in Setters :
                      \/ \E w \in Whitelists : SetWhitelist(t, w)
                      \/ ReloadWhitelist(t)
                      \/ ReloadWhitelistFails(t)
                      \/ FlushEvaluationCache(t)
                      \/ \E b \in Blacklists : SetBlacklist(t, b)
                      \/ ReloadBlacklist(t)
                      \/ ReloadBlacklistFails(t)
                      \/ \E v \in BOOLEAN : SetActive(t, v)
                      \/ ApplyActive(t)
                      \/ \E v \in BOOLEAN : SetInverse(t, v)
                      \/ ApplyInverse(t)
        BY <1>3 DEF SetterNext
      <3>1. CASE \/ \E w \in Whitelists : SetWhitelist(t, w)
                 \/ \E b \in Blacklists : SetBlacklist(t, b)
                 \/ \E v \in BOOLEAN : SetActive(t, v)
                 \/ \E v \in BOOLEAN : SetInverse(t, v)
                 \/ FlushEvaluationCache(t)
        BY <3>1 DEF SetWhitelist, SetBlacklist, SetActive, SetInverse, FlushEvaluationCache
      <3>2. CASE ReloadWhitelist(t) \/ ReloadWhitelistFails(t)
        BY <3>2 DEF ReloadWhitelist, ReloadWhitelistFails
      <3>3. CASE ReloadBlacklist(t) \/ ReloadBlacklistFails(t)
        BY <3>3 DEF ReloadBlacklist, ReloadBlacklistFails
      <3>4. CASE ApplyActive(t) \/ ApplyInverse(t)
        BY <3>4 DEF ApplyActive, ApplyInverse
      <3> QED BY <3>1, <3>2, <3>3, <3>4
    <2> QED BY <1>1, <2>1 DEF OneChange, Fields
  <1>4. CASE RequestNext
    <2>1. ctx' = ctx /\ pool' = pool /\ sessions' = sessions
      BY <1>4 DEF RequestNext, OnDeviceFileCreate, CheckBlacklist, ReadWhitelistHandle,
                  CheckWhitelistCached, CheckWhitelistScan, ReadInverse, Complete,
                  requestFrame, driverVars
    <2> QED BY <1>1, <2>1 DEF OneChange, Fields
  <1>5. CASE Restart
    BY <1>5 DEF Restart, IdleRequest
  <1> QED BY <1>2, <1>3, <1>4, <1>5 DEF Next
--------------------------------------------------------------------------------
(* The history of a create that goes on *)

LEMMA GrantedNowIs ==
    ASSUME NEW r \in Requests, req[r].pid # SystemPid
    PROVE  GrantedNow(r) = Grants(Inputs(r))
  BY DEF GrantedNow, Grants

LEMMA RememberStep ==
    ASSUME NEW r \in Requests, InProgress(r), req'[r].pc # "idle",
           hist[r].changes \in 0..MaxChanges, hist' = [q \in Requests |-> Remember(q)]
    PROVE  /\ hist'[r].seen = hist[r].seen \union {GrantedNow(r)'}
           /\ hist'[r].tainted = (hist[r].tainted \/ TaintedNow(r)')
           /\ hist'[r].changes \in 0..MaxChanges
           /\ Inputs(r)' = Inputs(r) => hist'[r].changes = hist[r].changes
           /\ Inputs(r)' # Inputs(r) /\ Followed(r)' =>
                 hist[r].changes = 0 /\ hist'[r].changes = 1
           /\ Followed(r)' => Followed(r)
  <1>1. hist'[r] = [seen    |-> hist[r].seen \union {GrantedNow(r)'},
                    changes |-> IF Inputs(r)' = Inputs(r) \/ hist[r].changes = MaxChanges
                                THEN hist[r].changes
                                ELSE hist[r].changes + 1,
                    tainted |-> hist[r].tainted \/ TaintedNow(r)']
    BY DEF Remember, InProgress
  <1>2. MaxChanges = 2
    BY DEF MaxChanges
  <1>3. /\ hist'[r].seen = hist[r].seen \union {GrantedNow(r)'}
        /\ hist'[r].tainted = (hist[r].tainted \/ TaintedNow(r)')
    <2> DEFINE seen == hist[r].seen \union {GrantedNow(r)'}
               changes == IF Inputs(r)' = Inputs(r) \/ hist[r].changes = MaxChanges
                          THEN hist[r].changes
                          ELSE hist[r].changes + 1
               tainted == hist[r].tainted \/ TaintedNow(r)'
    <2>1. hist'[r] = [seen |-> seen, changes |-> changes, tainted |-> tainted]
      BY <1>1
    <2> HIDE DEF seen, changes, tainted
    <2>2. hist'[r].seen = seen /\ hist'[r].tainted = tainted
      BY <2>1
    <2> QED BY <2>2 DEF seen, tainted
  <1>4. hist'[r].changes = IF Inputs(r)' = Inputs(r) \/ hist[r].changes = MaxChanges
                           THEN hist[r].changes
                           ELSE hist[r].changes + 1
    BY <1>1
  <1>5. Followed(r)' => hist'[r].changes < 2 /\ ~hist[r].tainted
    BY <1>2, <1>3 DEF Followed
  <1> QED BY <1>2, <1>3, <1>4, <1>5 DEF Followed

\* A step that leaves the create itself alone.
LEMMA OtherStep ==
    ASSUME TypeOK, TypeOK', NEW r \in Requests, CreateInv(r), VerdictNext,
           req'[r] = req[r], InProgress(r), req[r].pc # "idle"
    PROVE  CreateInv(r)'
  <1>2. /\ Inputs(r) \in VerdictTypes /\ Inputs(r)' \in VerdictTypes
    <2>1. (TypeOK => Inputs(r) \in VerdictTypes)'
      BY InputTypes, PTL
    <2> QED BY <2>1, InputTypes
  <1> PICK in \in VerdictTypes : in = Inputs(r)
    BY <1>2
  <1> PICK new \in VerdictTypes : new = Inputs(r)'
    BY <1>2
  <1>1. /\ hist'[r].seen = hist[r].seen \union {GrantedNow(r)'}
        /\ hist'[r].tainted = (hist[r].tainted \/ TaintedNow(r)')
        /\ hist'[r].changes \in 0..MaxChanges
        /\ new = in => hist'[r].changes = hist[r].changes
        /\ new # in /\ Followed(r)' =>
                 hist[r].changes = 0 /\ hist'[r].changes = 1
        /\ Followed(r)' => Followed(r)
    BY RememberStep DEF VerdictNext, CreateInv
  <1>3. /\ req'[r].pc = req[r].pc /\ req'[r].pid = req[r].pid
        /\ req'[r].listed = req[r].listed /\ req'[r].granted = req[r].granted
        /\ req[r].pid # SystemPid /\ req[r].granted /\ InProgress(r)' /\ req[r].pc # "done"
    BY DEF CreateInv, InProgress
  <1>4. GrantedNow(r) = Grants(in) /\ GrantedNow(r)' = Grants(new)
    <2>1. (req[r].pid # SystemPid => GrantedNow(r) = Grants(Inputs(r)))'
      BY GrantedNowIs, PTL
    <2>2. Grants(Inputs(r))' = Grants(new)
      BY DEF Grants
    <2> QED BY <1>3, <2>1, <2>2, GrantedNowIs
  <1>5. CASE ~Followed(r)'
    BY <1>1, <1>3, <1>5 DEF CreateInv
  <1>6. CASE Followed(r)' /\ new = in
    <2>1. Explained(r) /\ (hist[r].changes = 0 => Fits(r, in))
      BY <1>1, <1>6 DEF CreateInv
    <2>2. \A w : Fits(r, w) => Fits(r, w)'
      BY <1>3, <1>6 DEF Fits
    <2>3. Explained(r)'
      BY <1>1, <2>1, <2>2 DEF Explained, Grants
    <2>4. hist'[r].changes = 0 => Fits(r, Inputs(r))'
      BY <1>1, <1>3, <1>6, <2>1 DEF Fits
    <2> QED BY <1>1, <1>3, <2>3, <2>4 DEF CreateInv
  <1>7. CASE Followed(r)' /\ new # in
    <2>1. hist[r].changes = 0 /\ hist'[r].changes = 1 /\ Fits(r, in)
          /\ Grants(in) \in hist[r].seen
      BY <1>1, <1>3, <1>4, <1>7 DEF CreateInv
    <2>2. OneChange(r)
      BY StepsChangeOneInput DEF VerdictNext
    <2>3. Fits(r, in)' \/ Fits(r, new)'
      <3>1. /\ Fits(r, in)' <=> 
                 /\ in.active
                 /\ in.hidden = IF req[r].pc = "blacklist" THEN new.hidden ELSE TRUE
                 /\ in.listed = IF req[r].pc = "inverse" THEN req[r].listed ELSE new.listed
                 /\ in.inverse = new.inverse
            /\ Fits(r, new)' <=> 
                 /\ new.active
                 /\ new.hidden = IF req[r].pc = "blacklist" THEN new.hidden ELSE TRUE
                 /\ new.listed = IF req[r].pc = "inverse" THEN req[r].listed ELSE new.listed
                 /\ new.inverse = new.inverse
        BY <1>3 DEF Fits
      <3> QED BY <1>2, <2>1, <2>2, <3>1 DEF OneChange, Fields, Fits, VerdictTypes
    <2>4. Explained(r)'
      BY <1>1, <1>2, <1>4, <2>1, <2>3 DEF Explained, Grants
    <2>5. hist'[r].changes # 0
      BY <2>1
    <2>6. GrantedNow(r)' \in hist'[r].seen
      BY <1>1
    <2> QED BY <1>1, <1>3, <2>4, <2>5, <2>6 DEF CreateInv
  <1> QED BY <1>5, <1>6, <1>7
--------------------------------------------------------------------------------
(* The steps of the create *)

\* A create that has read an input and goes on.
LEMMA ContinueStep ==
    ASSUME NEW r \in Requests, CreateInv(r), VerdictNext,
           InProgress(r), InProgress(r)',
           req'[r].pid = req[r].pid, req'[r].granted = req[r].granted,
           ~hist[r].tainted => /\ Inputs(r)' = Inputs(r)
                               /\ \A in \in VerdictTypes : Fits(r, in) => Fits(r, in)',
           Inputs(r) \in VerdictTypes
    PROVE  CreateInv(r)'
  <1>1. req'[r].pc # "idle" /\ req'[r].pc # "done"
    BY DEF InProgress
  <1>2. /\ hist'[r].seen = hist[r].seen \union {GrantedNow(r)'}
        /\ hist'[r].tainted = (hist[r].tainted \/ TaintedNow(r)')
        /\ hist'[r].changes \in 0..MaxChanges
        /\ Inputs(r)' = Inputs(r) => hist'[r].changes = hist[r].changes
        /\ Followed(r)' => Followed(r)
    BY <1>1, RememberStep DEF VerdictNext, CreateInv
  <1>3. ASSUME Followed(r)'
        PROVE  /\ Explained(r)'
               /\ hist'[r].changes = 0 => Fits(r, Inputs(r))'
    <2>1. ~hist[r].tainted /\ Followed(r)
      BY <1>2, <1>3 DEF Followed
    <2>2. PICK in \in VerdictTypes : Fits(r, in) /\ Grants(in) \in hist[r].seen
      BY <2>1 DEF CreateInv, Explained
    <2>3. Explained(r)'
      BY <1>2, <2>1, <2>2 DEF Explained, Grants
    <2>4. ASSUME hist'[r].changes = 0
          PROVE  Fits(r, Inputs(r))'
      <3>1. PICK now \in VerdictTypes : now = Inputs(r)
        OBVIOUS
      <3>2. Fits(r, now)
        BY <1>2, <2>1, <2>4, <3>1 DEF CreateInv
      <3>3. Fits(r, now)' /\ now = Inputs(r)'
        BY <2>1, <3>1, <3>2
      <3> QED BY <3>3 DEF Fits
    <2> QED BY <2>3, <2>4
  <1>4. GrantedNow(r)' \in hist'[r].seen
    BY <1>2
  <1>5. req'[r].pid # SystemPid /\ req'[r].granted
    BY DEF CreateInv
  <1>6. ~hist'[r].tainted => ~TaintedNow(r)'
    BY <1>2, Zenon
  <1> QED BY <1>1, <1>2, <1>3, <1>4, <1>5, <1>6 DEF CreateInv

\* A create whose verdict is known.
LEMMA FinishStep ==
    ASSUME NEW r \in Requests, CreateInv(r), VerdictNext, InProgress(r), req'[r].pc = "done",
           ~hist[r].tainted =>
              \A in \in VerdictTypes : Fits(r, in) => req'[r].granted = Grants(in)
    PROVE  CreateInv(r)'
  <1>1. /\ hist'[r].seen = hist[r].seen \union {GrantedNow(r)'}
        /\ hist'[r].changes \in 0..MaxChanges
        /\ Followed(r)' => Followed(r)
    BY RememberStep DEF VerdictNext, CreateInv
  <1>2. ASSUME Followed(r)'
        PROVE  req'[r].granted \in hist'[r].seen
    <2>1. PICK in \in VerdictTypes : Fits(r, in) /\ Grants(in) \in hist[r].seen
      BY <1>1, <1>2 DEF CreateInv, Explained
    <2>2. ~hist[r].tainted
      BY <1>1, <1>2 DEF Followed
    <2> QED BY <1>1, <2>1, <2>2
  <1> QED BY <1>1, <1>2 DEF CreateInv, InProgress

\* The fields of a create in progress.
LEMMA EvaluationFields ==
    ASSUME TypeOK, NEW r \in Requests, InProgress(r)
    PROVE  /\ req[r] \in Evaluation
           /\ req[r].pid \in Pids /\ req[r].granted \in BOOLEAN /\ req[r].listed \in BOOLEAN
           /\ req[r].coll \in Collections
           /\ req[r].pc \in {"blacklist", "handle", "check", "inverse"}
  BY DEF TypeOK, InProgress, IdleRequest, Evaluation, Answered, Create

LEMMA CheckBlacklistStep ==
    ASSUME TypeOK, NEW r \in Requests, CreateInv(r), VerdictNext, CheckBlacklist(r)
    PROVE  CreateInv(r)'
  <1>1. InProgress(r) /\ req[r].pc = "blacklist"
    BY DEF CheckBlacklist, InProgress
  <1>2. PICK hidden \in BOOLEAN :
          /\ ctx.bl # Dangling => hidden = Blacklisted(req[r].dev, req[r].session)
          /\ req' = [req EXCEPT ![r].pc = IF hidden THEN "handle" ELSE "done"]
    BY DEF CheckBlacklist
  <1>3. /\ req[r] \in Evaluation /\ req[r].granted \in BOOLEAN
        /\ Inputs(r) \in VerdictTypes
        /\ ~hist[r].tainted => Inputs(r).hidden = hidden
    <2>1. ~hist[r].tainted => ctx.bl # Dangling
      BY <1>1 DEF CreateInv, TaintedNow, ListsLoaded
    <2> QED BY <1>1, <1>2, <2>1, EvaluationFields, InputTypes DEF Inputs
  <1>4. req'[r] = [req[r] EXCEPT !.pc = IF hidden THEN "handle" ELSE "done"]
    BY <1>2 DEF TypeOK
  <1>5. /\ req'[r].pc = IF hidden THEN "handle" ELSE "done"
        /\ req'[r].pid = req[r].pid /\ req'[r].dev = req[r].dev
        /\ req'[r].session = req[r].session /\ req'[r].granted = req[r].granted
    BY <1>3, <1>4 DEF Evaluation, Create
  <1>6. req[r].granted
    BY <1>1 DEF CreateInv
  <1>7. CASE hidden
    <2>1. InProgress(r)'
      BY <1>5, <1>7 DEF InProgress
    <2>2. Inputs(r)' = Inputs(r)
      BY <1>5 DEF CheckBlacklist, requestFrame, driverVars, registryVars, Inputs,
                  Blacklisted, WhitelistedNow, Registered
    <2>3. ~hist[r].tainted => \A in \in VerdictTypes : Fits(r, in) => Fits(r, in)'
      BY <1>1, <1>3, <1>5, <1>7, <2>2 DEF Fits
    <2> QED BY <1>1, <1>3, <1>5, <2>1, <2>2, <2>3, ContinueStep
  <1>8. CASE ~hidden
    <2>1. req'[r].pc = "done"
      BY <1>5, <1>8
    <2>2. ASSUME ~hist[r].tainted, NEW in \in VerdictTypes, Fits(r, in)
          PROVE  req'[r].granted = Grants(in)
      <3>1. ~in.hidden
        BY <1>1, <1>3, <1>8, <2>2 DEF Fits
      <3> QED BY <1>3, <1>5, <1>6, <3>1 DEF Grants
    <2> QED BY <1>1, <2>1, <2>2, FinishStep
  <1> QED BY <1>7, <1>8

LEMMA ReadWhitelistHandleStep ==
    ASSUME TypeOK, NEW r \in Requests, CreateInv(r), VerdictNext, ReadWhitelistHandle(r)
    PROVE  CreateInv(r)'
  <1>1. /\ InProgress(r) /\ req[r].pc = "handle"
        /\ req' = [req EXCEPT ![r].pc = "check", ![r].coll = ctx.wl]
    BY DEF ReadWhitelistHandle, InProgress
  <1>2. req[r] \in Evaluation /\ Inputs(r) \in VerdictTypes
    BY <1>1, EvaluationFields, InputTypes
  <1>3. req'[r] = [req[r] EXCEPT !.pc = "check", !.coll = ctx.wl]
    BY <1>1 DEF TypeOK
  <1>4. /\ req'[r].pc = "check" /\ req'[r].pid = req[r].pid /\ req'[r].dev = req[r].dev
        /\ req'[r].session = req[r].session /\ req'[r].granted = req[r].granted
    BY <1>2, <1>3 DEF Evaluation, Create
  <1>5. InProgress(r)'
    BY <1>4 DEF InProgress
  <1>6. Inputs(r)' = Inputs(r)
    BY <1>4 DEF ReadWhitelistHandle, requestFrame, driverVars, registryVars, Inputs,
                Blacklisted, WhitelistedNow, Registered
  <1>7. \A in \in VerdictTypes : Fits(r, in) => Fits(r, in)'
    BY <1>1, <1>4, <1>6 DEF Fits
  <1> QED BY <1>1, <1>2, <1>4, <1>5, <1>6, <1>7, ContinueStep

\* The answer about the whitelist, from the cache or a scan.
LEMMA AnswerStep ==
    ASSUME TypeOK, NEW r \in Requests, CreateInv(r), VerdictNext, req[r].pc = "check",
           NEW listed \in BOOLEAN, Answer(r, listed),
           UNCHANGED <<ctx, sessions>>,
           ~hist[r].tainted => Inputs(r).listed = listed /\ Inputs(r)'.listed = listed
    PROVE  CreateInv(r)'
  <1>1. InProgress(r)
    BY DEF InProgress
  <1>2. req[r] \in Evaluation /\ Inputs(r) \in VerdictTypes
    BY <1>1, EvaluationFields, InputTypes
  <1>3. req'[r] = [req[r] EXCEPT !.pc = "inverse", !.coll = Unread, !.listed = listed]
    BY DEF TypeOK, Answer
  <1>4. /\ req'[r].pc = "inverse" /\ req'[r].pid = req[r].pid /\ req'[r].dev = req[r].dev
        /\ req'[r].session = req[r].session /\ req'[r].granted = req[r].granted
        /\ req'[r].listed = listed
    BY <1>2, <1>3 DEF Evaluation, Create
  <1>5. InProgress(r)'
    BY <1>4 DEF InProgress
  <1>6. /\ Inputs(r)'.active = Inputs(r).active /\ Inputs(r)'.hidden = Inputs(r).hidden
        /\ Inputs(r)'.inverse = Inputs(r).inverse
    BY <1>4, InputFrame
  <1>7. ASSUME ~hist[r].tainted
        PROVE  /\ Inputs(r)' = Inputs(r)
               /\ \A in \in VerdictTypes : Fits(r, in) => Fits(r, in)'
    <2>1. Inputs(r)' = [active |-> Inputs(r)'.active, hidden |-> Inputs(r)'.hidden,
                        listed |-> Inputs(r)'.listed, inverse |-> Inputs(r)'.inverse]
      BY DEF Inputs
    <2>2. Inputs(r) = [active |-> Inputs(r).active, hidden |-> Inputs(r).hidden,
                       listed |-> Inputs(r).listed, inverse |-> Inputs(r).inverse]
      BY DEF Inputs
    <2>3. Inputs(r)' = Inputs(r)
      BY <1>6, <1>7, <2>1, <2>2
    <2>4. \A in \in VerdictTypes : Fits(r, in) => Fits(r, in)'
      BY <1>4, <1>7, <2>3 DEF Fits
    <2> QED BY <2>3, <2>4
  <1> QED BY <1>1, <1>2, <1>4, <1>5, <1>7, ContinueStep

LEMMA CheckWhitelistCachedStep ==
    ASSUME TypeOK, NEW r \in Requests, CreateInv(r), VerdictNext, CheckWhitelistCached(r)
    PROVE  CreateInv(r)'
  <1> DEFINE p == req[r].pid
             listed == Registered(p) /\ cache[p] = "Found"
  <1>1. /\ req[r].pc = "check" /\ Answer(r, listed) /\ (Registered(p) => cache[p] # "Empty")
        /\ UNCHANGED <<ctx, pool, sessions, image, cache>>
    BY DEF CheckWhitelistCached, requestFrame, driverVars, registryVars
  <1>2. p \in Pids /\ req[r] \in Evaluation
    BY <1>1, EvaluationFields DEF InProgress
  <1>3. Inputs(r).listed = listed
    BY <1>1, <1>2 DEF Inputs, WhitelistedNow
  <1>4. Inputs(r)'.listed = Inputs(r).listed
    <2>1. req'[r] = [req[r] EXCEPT !.pc = "inverse", !.coll = Unread, !.listed = listed]
      BY <1>1 DEF TypeOK, Answer
    <2>2. req'[r].pid = req[r].pid /\ req'[r].dev = req[r].dev /\ req'[r].session = req[r].session
      BY <1>2, <2>1 DEF Evaluation, Create
    <2> QED BY <1>1, <2>2, InputFrame
  <1>5. listed \in BOOLEAN
    OBVIOUS
  <1> HIDE DEF listed
  <1> QED BY <1>1, <1>3, <1>4, <1>5, AnswerStep

LEMMA CheckWhitelistScanStep ==
    ASSUME TypeOK, OnlyLoadedWhitelistLive, NEW r \in Requests, CreateInv(r), VerdictNext,
           CheckWhitelistScan(r)
    PROVE  CreateInv(r)'
  <1> DEFINE p == req[r].pid
             c == req[r].coll
  <1>1. PICK found \in BOOLEAN :
          /\ pool[c].live => found = (image[p] \in pool[c].names)
          /\ cache' = [cache EXCEPT ![p] = Verdict(found)]
          /\ Answer(r, found)
    BY DEF CheckWhitelistScan
  <1>2. /\ req[r].pc = "check" /\ Registered(p) /\ cache[p] = "Empty"
        /\ UNCHANGED <<ctx, pool, sessions, image>>
    BY DEF CheckWhitelistScan, requestFrame, driverVars
  <1>3. p \in Pids /\ c \in Collections /\ req[r] \in Evaluation
    BY <1>2, EvaluationFields DEF InProgress
  <1>4. req'[r].pid = p
    <2>1. req'[r] = [req[r] EXCEPT !.pc = "inverse", !.coll = Unread, !.listed = found]
      BY <1>1 DEF TypeOK, Answer
    <2> QED BY <1>3, <2>1 DEF Evaluation, Create
  <1>5. ASSUME ~hist[r].tainted
        PROVE  Inputs(r).listed = found /\ Inputs(r)'.listed = found
    <2>1. pool[c].live
      BY <1>2, <1>5 DEF CreateInv, InProgress, TaintedNow
    <2>2. c = ctx.wl
      BY <1>3, <2>1 DEF OnlyLoadedWhitelistLive
    <2>3. Inputs(r).listed = found
      BY <1>1, <1>2, <1>3, <2>1, <2>2 DEF Inputs, WhitelistedNow
    <2>4. Registered(p)' /\ cache'[p] = Verdict(found)
      BY <1>1, <1>2, <1>3, <1>4 DEF TypeOK, Registered
    <2>5. Inputs(r)'.listed = (Registered(p)' /\ (IF cache'[p] # "Empty" THEN cache'[p] = "Found"
                                                 ELSE image'[p] \in pool'[ctx'.wl].names))
      BY <1>3, <1>4 DEF Inputs, WhitelistedNow, Registered
    <2> QED BY <2>3, <2>4, <2>5 DEF Verdict
  <1> QED BY <1>1, <1>2, <1>5, AnswerStep

LEMMA ReadInverseStep ==
    ASSUME TypeOK, NEW r \in Requests, CreateInv(r), VerdictNext, ReadInverse(r)
    PROVE  CreateInv(r)'
  <1>1. /\ InProgress(r) /\ req[r].pc = "inverse"
        /\ req' = [req EXCEPT ![r].pc = "done", ![r].granted = Granted(req[r].listed)]
    BY DEF ReadInverse, InProgress
  <1>2. req[r] \in Evaluation
    BY <1>1, EvaluationFields
  <1>3. req'[r] = [req[r] EXCEPT !.pc = "done", !.granted = Granted(req[r].listed)]
    BY <1>1 DEF TypeOK
  <1>4. req'[r].pc = "done" /\ req'[r].granted = (req[r].listed # ctx.inverse)
    BY <1>2, <1>3 DEF Evaluation, Create, Granted
  <1>5. ASSUME NEW in \in VerdictTypes, Fits(r, in)
        PROVE  req'[r].granted = Grants(in)
    BY <1>1, <1>4, <1>5 DEF Fits, Grants, Inputs
  <1> QED BY <1>1, <1>4, <1>5, FinishStep

\* A create that enters is not followed by any other step yet.
LEMMA EnterStep ==
    ASSUME TypeOK, TypeOK', NEW r \in Requests, VerdictNext,
           NEW p \in Callers, NEW d \in Devices, NEW s \in SessionIds,
           OnDeviceFileCreate(r, p, d, s)
    PROVE  CreateInv(r)'
  <1>1. /\ req[r].pc = "idle"
        /\ req' = [req EXCEPT ![r] =
              [pc |-> IF Evaluated(p) THEN "blacklist" ELSE "done",
               pid |-> p, dev |-> d, session |-> s, coll |-> Unread,
               listed |-> FALSE, granted |-> TRUE]]
        /\ ctx' = ctx
    BY DEF OnDeviceFileCreate, requestFrame, driverVars
  <1>2. /\ req'[r].pc = IF Evaluated(p) THEN "blacklist" ELSE "done"
        /\ req'[r].pid = p /\ req'[r].granted = TRUE
    BY <1>1 DEF TypeOK
  <1>3. hist'[r] = [seen |-> {GrantedNow(r)'}, changes |-> 0, tainted |-> TaintedNow(r)']
    BY <1>1, <1>2 DEF VerdictNext, Remember
  <1>4. /\ hist'[r].seen = {GrantedNow(r)'} /\ hist'[r].changes = 0
        /\ hist'[r].changes \in 0..MaxChanges
    BY <1>3 DEF MaxChanges
  <1>5. ~hist'[r].tainted => ~TaintedNow(r)'
    <2> DEFINE seen == {GrantedNow(r)'}
               tainted == TaintedNow(r)'
    <2>1. hist'[r] = [seen |-> seen, changes |-> 0, tainted |-> tainted]
      BY <1>3
    <2> HIDE DEF seen, tainted
    <2>2. hist'[r].tainted = tainted
      BY <2>1
    <2> QED BY <2>2 DEF tainted
  <1>6. CASE Evaluated(p)
    <2>1. PICK in \in VerdictTypes : in = Inputs(r)'
      <3>1. (TypeOK => Inputs(r) \in VerdictTypes)'
        BY InputTypes, PTL
      <3> QED BY <3>1
    <2>2. Fits(r, in)' /\ Fits(r, Inputs(r))'
      <3>1. req'[r].pc = "blacklist" /\ ctx'.active
        BY <1>1, <1>2, <1>6 DEF Evaluated
      <3>2. in.active
        BY <2>1, <3>1 DEF Inputs
      <3>3. Fits(r, in)'
        BY <2>1, <3>1, <3>2 DEF Fits
      <3> QED BY <2>1, <3>3 DEF Fits
    <2>3. GrantedNow(r)' = Grants(in)
      <3>1. (req[r].pid # SystemPid => GrantedNow(r) = Grants(Inputs(r)))'
        BY GrantedNowIs, PTL
      <3> QED BY <1>2, <1>6, <2>1, <3>1 DEF Evaluated, Grants
    <2>4. Explained(r)'
      BY <1>4, <2>2, <2>3 DEF Explained, Grants
    <2> QED BY <1>2, <1>4, <1>5, <1>6, <2>2, <2>4 DEF CreateInv, Evaluated
  <1>7. CASE ~Evaluated(p)
    <2>1. GrantedNow(r)' = TRUE
      BY <1>1, <1>2, <1>7 DEF GrantedNow, Evaluated, Inputs
    <2> QED BY <1>2, <1>4, <1>7, <2>1 DEF CreateInv, InProgress
  <1> QED BY <1>6, <1>7

\* An idle create, or one whose verdict waits for its completion.
LEMMA WaitingStep ==
    ASSUME NEW r \in Requests, CreateInv(r), VerdictNext,
           req'[r].pc = "idle" \/ (req'[r] = req[r] /\ ~InProgress(r))
    PROVE  CreateInv(r)'
  <1>1. CASE req'[r].pc = "idle"
    <2>1. hist'[r] = NoHistory
      BY <1>1 DEF VerdictNext, Remember
    <2> QED BY <1>1, <2>1 DEF CreateInv, InProgress, NoHistory, MaxChanges
  <1>2. CASE req'[r].pc # "idle" /\ req'[r] = req[r] /\ ~InProgress(r)
    <2>1. hist'[r] = hist[r]
      BY <1>2 DEF VerdictNext, Remember
    <2> QED BY <1>2, <2>1 DEF CreateInv, InProgress, Followed
  <1> QED BY <1>1, <1>2
--------------------------------------------------------------------------------
(* The invariant *)

LEMMA VerdictStep ==
    ASSUME TypeOK, TypeOK', OnlyLoadedWhitelistLive, VerdictInv, [VerdictNext]_<<vars, hist>>
    PROVE  VerdictInv'
  <1> SUFFICES ASSUME NEW r \in Requests PROVE CreateInv(r)'
    BY DEF VerdictInv
  <1>1. CreateInv(r)
    BY DEF VerdictInv
  <1>2. CASE UNCHANGED <<vars, hist>>
    BY <1>1, <1>2 DEF vars, driverVars, registryVars, CreateInv, InProgress, TaintedNow,
       ListsLoaded, Followed, Explained, Fits, GrantedNow, Inputs, WhitelistedNow,
       Registered, Blacklisted
  <1>3. CASE VerdictNext /\ req'[r] = req[r]
    BY <1>1, <1>3, OtherStep, WaitingStep DEF InProgress
  <1>4. CASE VerdictNext /\ req'[r] # req[r]
    <2>1. Next
      BY <1>4 DEF VerdictNext
    <2>2. CASE ProcessNext \/ SetterNext
      <3>1. req' = req
        BY <2>2 DEF ProcessNext, ProcessCreate, LoadExecutable, LoadExecutableUnregistered,
             LoadModule, ProcessExit, ProcessExitCleanup, AddSessionBlacklist,
             ClearSessionBlacklist, SetterNext, SetWhitelist, ReloadWhitelist,
             ReloadWhitelistFails, FlushEvaluationCache, SetBlacklist, ReloadBlacklist,
             ReloadBlacklistFails, SetActive, ApplyActive, SetInverse, ApplyInverse
      <3> QED BY <1>4, <3>1
    <2>3. CASE Restart
      <3>1. req'[r].pc = "idle"
        BY <2>3 DEF Restart, IdleRequest
      <3> QED BY <1>1, <1>4, <3>1, WaitingStep
    <2>4. CASE RequestNext
      <3>1. PICK q \in Requests :
               \/ \E p \in Callers, d \in Devices, s \in SessionIds :
                     OnDeviceFileCreate(q, p, d, s)
               \/ CheckBlacklist(q)
               \/ ReadWhitelistHandle(q)
               \/ CheckWhitelistCached(q)
               \/ CheckWhitelistScan(q)
               \/ ReadInverse(q)
               \/ Complete(q)
        BY <2>4 DEF RequestNext
      <3>2. q = r
        BY <1>4, <3>1 DEF OnDeviceFileCreate, CheckBlacklist, ReadWhitelistHandle,
           CheckWhitelistCached, CheckWhitelistScan, ReadInverse, Complete, Answer, TypeOK
      <3>3. CASE \E p \in Callers, d \in Devices, s \in SessionIds :
                     OnDeviceFileCreate(r, p, d, s)
        BY <1>4, <3>3, EnterStep
      <3>4. CASE CheckBlacklist(r)
        BY <1>1, <1>4, <3>4, CheckBlacklistStep
      <3>5. CASE ReadWhitelistHandle(r)
        BY <1>1, <1>4, <3>5, ReadWhitelistHandleStep
      <3>6. CASE CheckWhitelistCached(r)
        BY <1>1, <1>4, <3>6, CheckWhitelistCachedStep
      <3>7. CASE CheckWhitelistScan(r)
        BY <1>1, <1>4, <3>7, CheckWhitelistScanStep
      <3>8. CASE ReadInverse(r)
        BY <1>1, <1>4, <3>8, ReadInverseStep
      <3>9. CASE Complete(r)
        <4>1. req'[r].pc = "idle"
          BY <3>9 DEF Complete, TypeOK, IdleRequest
        <4> QED BY <1>1, <1>4, <4>1, WaitingStep
      <3> QED BY <3>1, <3>2, <3>3, <3>4, <3>5, <3>6, <3>7, <3>8, <3>9
    <2> QED BY <2>1, <2>2, <2>3, <2>4 DEF Next
  <1> QED BY <1>2, <1>3, <1>4

\* OnDeviceFileCreate reads its four inputs at four moments.  Still, a create that finds both
\* lists loaded, with at most one change around it, gets a verdict that the driver as a whole
\* stood for at one moment, for any number of processes, writers and creates.
THEOREM VerdictStoodFor == VerdictSpec => []VerdictInForce
  <1>1. VerdictSpec => Spec
    <2>1. VerdictInit => Init
      BY DEF VerdictInit
    <2>2. [VerdictNext]_<<vars, hist>> => [Next]_vars
      BY DEF VerdictNext
    <2> QED BY <2>1, <2>2, PTL DEF VerdictSpec, Spec
  <1>2. VerdictInit => VerdictInv
    BY DEF VerdictInit, Init, VerdictInv, CreateInv, InProgress, IdleRequest, NoHistory,
           MaxChanges
  <1>3. TypeOK /\ TypeOK' /\ OnlyLoadedWhitelistLive /\ VerdictInv
           /\ [VerdictNext]_<<vars, hist>> => VerdictInv'
    BY VerdictStep
  <1>4. VerdictInv => VerdictInForce
    BY DEF VerdictInv, VerdictInForce, CreateInv, Followed
  <1> QED BY <1>1, <1>2, <1>3, <1>4, TypeCorrect, NoWhitelistLeaks, PTL
          DEF VerdictSpec
================================================================================
