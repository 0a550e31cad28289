--------------------------- MODULE ClientSessionProofs ---------------------------
(***************************************************************************)
(* What ClientSession promises for any number of clients, applications and *)
(* devices: types, that a working dialog edits what is in force, that a    *)
(* command line applies what it collected and nothing else, and that the   *)
(* control device is released.                                             *)
(*                                                                         *)
(* The argument is ownership.  A client that is in a session has the       *)
(* device, so the steps of others leave the settings alone; each client's  *)
(* part of the invariant is then a matter of its own steps.                *)
(***************************************************************************)
EXTENDS ClientSession, TLAPS

\* Where a client has the device for itself
Holding == Reading \union Applying \union {"commands", "open", "probing"}
HolderInv(c) == pc[c] \in Holding => holder = c

\* What the constructor has read is in force, and was when the session was opened.
ReadInv(c) ==
    /\ pc[c] \in Reading => found = reg
    /\ pc[c] \in {"readBlacklist", "readWhitelist", "readInverse", "own"}
          => cache[c].active = reg.active
    /\ pc[c] \in {"readWhitelist", "readInverse", "own"} => cache[c].blacklist = reg.blacklist
    /\ pc[c] \in {"readInverse", "own"} => cache[c].whitelist = reg.whitelist
    /\ pc[c] = "own" => cache[c].inverse = reg.inverse

DialogInv(c) ==
    pc[c] = "open" => cache[c] = reg /\ (stale[c] \/ box[c] = cache[c].whitelist)

\* AppliedPrefix, setting by setting
ApplyInv(c) ==
    pc[c] \in Applying \union {"commands"} =>
      /\ reg.whitelist = IF pc[c] \in {"applyBlacklist", "applyActive", "applyInverse"}
                         THEN cache[c].whitelist ELSE WithOwnEntry(c, found).whitelist
      /\ reg.blacklist = IF pc[c] \in {"applyActive", "applyInverse"}
                         THEN cache[c].blacklist ELSE found.blacklist
      /\ reg.active = IF pc[c] = "applyInverse" THEN cache[c].active ELSE found.active
      /\ reg.inverse = found.inverse

ClientInv(c) == HolderInv(c) /\ ReadInv(c) /\ DialogInv(c) /\ ApplyInv(c)
SessionInv == TypeOK /\ \A c \in Clients : ClientInv(c)
--------------------------------------------------------------------------------
(* Settings *)

LEMMA SettingsEqual ==
    ASSUME NEW s \in Settings, NEW t \in Settings,
           s.whitelist = t.whitelist, s.blacklist = t.blacklist,
           s.active = t.active, s.inverse = t.inverse
    PROVE  s = t
  BY DEF Settings

LEMMA BlankSettings == Blank \in Settings
  BY DEF Blank, Settings

\* What the constructor makes of the whitelist.
LEMMA OwnEntrySettings ==
    ASSUME NEW c \in Clients, NEW s \in Settings
    PROVE  /\ WithOwnEntry(c, s) \in Settings
           /\ WithOwnEntry(c, s).blacklist = s.blacklist
           /\ WithOwnEntry(c, s).active = s.active
           /\ WithOwnEntry(c, s).inverse = s.inverse
  BY ClientsAssumption DEF WithOwnEntry, Settings

\* The explicit form of the invariant says what AppliedPrefix says.
LEMMA ApplyInvMeaning ==
    ASSUME TypeOK, NEW c \in CommandLines, ClientInv(c)
    PROVE  pc[c] \in Applying \union {"commands"} =>
             reg = [f \in DOMAIN reg |->
                      IF f \in Applied(pc[c]) THEN cache[c][f] ELSE WithOwnEntry(c, found)[f]]
  <1> SUFFICES ASSUME pc[c] \in Applying \union {"commands"}
               PROVE  reg = [f \in DOMAIN reg |->
                        IF f \in Applied(pc[c]) THEN cache[c][f] ELSE WithOwnEntry(c, found)[f]]
    OBVIOUS
  <1>1. c \in Clients /\ found \in Settings
    BY ClientsAssumption DEF TypeOK
  <1>2. /\ WithOwnEntry(c, found).blacklist = found.blacklist
        /\ WithOwnEntry(c, found).active = found.active
        /\ WithOwnEntry(c, found).inverse = found.inverse
    BY <1>1, OwnEntrySettings
  <1>3. \A f \in DOMAIN reg :
          reg[f] = IF f \in Applied(pc[c]) THEN cache[c][f] ELSE WithOwnEntry(c, found)[f]
    <2>1. DOMAIN reg = {"whitelist", "blacklist", "active", "inverse"}
      BY DEF TypeOK, Settings
    <2>2. ApplyInv(c)
      BY DEF ClientInv
    <2>3. reg.whitelist = IF "whitelist" \in Applied(pc[c])
                          THEN cache[c].whitelist ELSE WithOwnEntry(c, found).whitelist
      BY <2>2 DEF ApplyInv, Applied, Applying
    <2>4. reg.blacklist = IF "blacklist" \in Applied(pc[c])
                          THEN cache[c].blacklist ELSE WithOwnEntry(c, found).blacklist
      BY <2>2, <1>2 DEF ApplyInv, Applied, Applying
    <2>5. reg.active = IF "active" \in Applied(pc[c])
                       THEN cache[c].active ELSE WithOwnEntry(c, found).active
      BY <2>2, <1>2 DEF ApplyInv, Applied, Applying
    <2>6. reg.inverse = IF "inverse" \in Applied(pc[c])
                        THEN cache[c].inverse ELSE WithOwnEntry(c, found).inverse
      BY <2>2, <1>2 DEF ApplyInv, Applied, Applying
    <2> QED BY <2>1, <2>3, <2>4, <2>5, <2>6
  <1>4. reg = [f \in DOMAIN reg |-> reg[f]]
    BY DEF TypeOK, Settings
  <1> QED BY <1>3, <1>4
--------------------------------------------------------------------------------
(* A step of one client *)

\* What it leaves alone of the others: all they have, and, when one of them has the
\* device, the settings.
Frame(c) ==
    \A d \in Clients \ {c} :
        /\ pc'[d] = pc[d] /\ cache'[d] = cache[d] /\ box'[d] = box[d] /\ stale'[d] = stale[d]
        /\ holder = d => holder' = d /\ reg' = reg /\ found' = found

StepOf(c) == TypeOK' /\ Frame(c) /\ ClientInv(c)'

\* A step of client c keeps what holds of all others.
LEMMA OthersKeep ==
    ASSUME SessionInv, NEW c \in Clients, StepOf(c)
    PROVE  SessionInv'
  <1>1. ASSUME NEW d \in Clients \ {c}
        PROVE  ClientInv(d)'
    <2>1. /\ pc'[d] = pc[d] /\ cache'[d] = cache[d] /\ box'[d] = box[d] /\ stale'[d] = stale[d]
          /\ holder = d => holder' = d /\ reg' = reg /\ found' = found
      BY <1>1 DEF StepOf, Frame
    <2>2. ClientInv(d)
      BY <1>1 DEF SessionInv
    <2>3. pc[d] \in Holding => holder = d
      BY <2>2 DEF ClientInv, HolderInv
    <2>4. HolderInv(d)'
      BY <2>1, <2>3 DEF HolderInv
    <2>5. ReadInv(d)'
      <3>1. CASE pc[d] \in Reading
        BY <3>1, <2>1, <2>2, <2>3 DEF ReadInv, ClientInv, Holding
      <3>2. CASE pc[d] \notin Reading
        BY <3>2, <2>1 DEF ReadInv, Reading
      <3> QED BY <3>1, <3>2
    <2>6. DialogInv(d)'
      BY <2>1, <2>2, <2>3 DEF DialogInv, ClientInv, Holding
    <2>7. ApplyInv(d)'
      <3>1. CASE pc[d] \in Applying \union {"commands"}
        <4>1. found' = found /\ reg' = reg
          BY <3>1, <2>1, <2>3 DEF Holding
        <4> QED BY <3>1, <4>1, <2>1, <2>2 DEF ApplyInv, ClientInv, WithOwnEntry
      <3>2. CASE pc[d] \notin Applying \union {"commands"}
        BY <3>2, <2>1 DEF ApplyInv
      <3> QED BY <3>1, <3>2
    <2> QED BY <2>4, <2>5, <2>6, <2>7 DEF ClientInv
  <1> QED BY <1>1 DEF StepOf, SessionInv

\* Outside of a session there is nothing to keep.
Outside == {"closed", "asking", "probed", "exception"}

LEMMA OutsideKeeps ==
    ASSUME NEW c \in Clients, pc'[c] \in Outside
    PROVE  ClientInv(c)'
  BY DEF ClientInv, HolderInv, ReadInv, DialogInv, ApplyInv, Outside, Holding, Reading, Applying

\* A client that ends its session.
LEMMA LeaveStep ==
    ASSUME TypeOK, NEW c \in Clients, NEW label, Leave(c, label),
           label \in Outside,
           label \in IF c \in CommandLines THEN CommandLineLabels ELSE GuiLabels,
           NEW s \in Settings, reg' = s, holder = c \/ reg' = reg,
           box' \in [Clients -> SUBSET Apps], stale' \in [Clients -> BOOLEAN],
           \A d \in Clients \ {c} : box'[d] = box[d] /\ stale'[d] = stale[d]
    PROVE  StepOf(c)
  <1>1. /\ pc' = [pc EXCEPT ![c] = label]
        /\ holder' = Released(c)
        /\ cache' = [cache EXCEPT ![c] = Blank]
        /\ found' = IF holder = c THEN Blank ELSE found
    BY DEF Leave
  <1>2. TypeOK'
    <2>1. holder' \in Clients \union {NoClient} /\ found' \in Settings
      BY <1>1, BlankSettings DEF TypeOK, Released
    <2>2. cache' \in [Clients -> Settings]
      BY <1>1, BlankSettings DEF TypeOK
    <2>3. /\ pc' \in [Clients -> CommandLineLabels \union GuiLabels]
          /\ \A d \in CommandLines : pc'[d] \in CommandLineLabels
          /\ \A d \in Guis : pc'[d] \in GuiLabels
      BY <1>1, ClientsAssumption DEF TypeOK, Guis
    <2> QED BY <2>1, <2>2, <2>3 DEF TypeOK
  <1>3. Frame(c)
    BY <1>1 DEF TypeOK, Frame, Released
  <1>4. ClientInv(c)'
    BY <1>1, OutsideKeeps DEF TypeOK
  <1> QED BY <1>2, <1>3, <1>4 DEF StepOf

\* A client that goes on at label with s as its copy of the settings.
LEMMA ProceedStep ==
    ASSUME TypeOK, NEW c \in Clients, NEW label, NEW s \in Settings, Proceed(c, s, label),
           label \in IF c \in CommandLines THEN CommandLineLabels ELSE GuiLabels,
           reg' \in Settings, holder = c \/ reg' = reg,
           box' \in [Clients -> SUBSET Apps], stale' \in [Clients -> BOOLEAN],
           \A d \in Clients \ {c} : box'[d] = box[d] /\ stale'[d] = stale[d]
    PROVE  /\ TypeOK' /\ Frame(c)
           /\ pc'[c] = label /\ cache'[c] = s /\ found' = found /\ holder' = holder
  <1>1. /\ pc' = [pc EXCEPT ![c] = label]
        /\ cache' = [cache EXCEPT ![c] = s]
        /\ holder' = holder /\ found' = found
    BY DEF Proceed
  <1>2. TypeOK'
    <2>2. cache' \in [Clients -> Settings]
      BY <1>1 DEF TypeOK
    <2>3. /\ pc' \in [Clients -> CommandLineLabels \union GuiLabels]
          /\ \A d \in CommandLines : pc'[d] \in CommandLineLabels
          /\ \A d \in Guis : pc'[d] \in GuiLabels
      BY <1>1, ClientsAssumption DEF TypeOK, Guis
    <2> QED BY <1>1, <2>2, <2>3 DEF TypeOK
  <1>3. Frame(c)
    BY <1>1 DEF TypeOK, Frame
  <1> QED BY <1>1, <1>2, <1>3 DEF TypeOK

\* A request that is sent in a session: it fails and the session is over, or the
\* client goes on at label with one of the outcomes that are good.
LEMMA SendStep ==
    ASSUME SessionInv, NEW c \in Clients, pc[c] \in Holding,
           NEW request, \A o \in request : o.settings \in Settings,
           NEW s \in Settings, NEW label, Send(c, request, s, label),
           label \in IF c \in CommandLines THEN CommandLineLabels ELSE GuiLabels,
           box' \in [Clients -> SUBSET Apps], stale' \in [Clients -> BOOLEAN],
           \A d \in Clients \ {c} : box'[d] = box[d] /\ stale'[d] = stale[d]
    PROVE  /\ TypeOK' /\ Frame(c)
           /\ \/ pc'[c] \in {"closed", "exception"}
              \/ \E o \in request :
                    /\ o.ok /\ reg' = o.settings
                    /\ pc'[c] = label /\ cache'[c] = s /\ found' = found /\ holder' = c
  <1>1. TypeOK /\ ClientInv(c) /\ holder = c
    BY DEF SessionInv, ClientInv, HolderInv
  <1>2. PICK o \in request :
          /\ reg' = o.settings
          /\ IF o.ok THEN Proceed(c, s, label) ELSE Throw(c, s)
    BY DEF Send
  <1>3. reg' \in Settings
    BY <1>2
  <1>4. CASE o.ok
    <2>1. Proceed(c, s, label)
      BY <1>2, <1>4
    <2>2. /\ TypeOK' /\ Frame(c)
          /\ pc'[c] = label /\ cache'[c] = s /\ found' = found /\ holder' = holder
      BY <1>1, <1>3, <2>1, ProceedStep
    <2> QED BY <1>1, <1>2, <1>4, <2>2
  <1>5. CASE ~o.ok
    <2>1. CASE pc[c] = "open"
      <3>1. Proceed(c, s, "exception")
        BY <1>2, <1>5, <2>1 DEF Throw
      <3>2. c \notin CommandLines
        BY <1>1, <2>1 DEF TypeOK, CommandLineLabels, Reading, Applying
      <3>3. "exception" \in GuiLabels
        BY DEF GuiLabels
      <3>4. TypeOK' /\ Frame(c) /\ pc'[c] = "exception"
        BY <1>1, <1>3, <3>1, <3>2, <3>3, ProceedStep
      <3> QED BY <3>4
    <2>2. CASE pc[c] # "open"
      <3> DEFINE end == IF c \in CommandLines THEN "closed" ELSE "exception"
      <3>1. Leave(c, end)
        BY <1>2, <1>5, <2>2 DEF Throw
      <3>2. /\ end \in Outside
            /\ end \in IF c \in CommandLines THEN CommandLineLabels ELSE GuiLabels
        BY DEF Outside, CommandLineLabels, GuiLabels
      <3>3. pc'[c] = end
        BY <1>1, <3>1 DEF Leave, TypeOK
      <3> HIDE DEF end
      <3>4. StepOf(c)
        BY <1>1, <1>3, <3>1, <3>2, LeaveStep
      <3>5. end \in {"closed", "exception"}
        BY DEF end
      <3> QED BY <3>3, <3>4, <3>5 DEF StepOf
    <2> QED BY <2>1, <2>2
  <1> QED BY <1>4, <1>5

\* Every outcome of a request has settings.
LEMMA RequestSettings ==
    ASSUME TypeOK
    PROVE  /\ \A o \in GetRequest : o.settings = reg
           /\ \A o \in NoRequest : o.ok /\ o.settings = reg
           /\ reg \in Settings
           /\ \A s \in Settings : \A o \in ListRequest(s) \union SwitchRequest(s) :
                 o.settings \in Settings /\ (o.ok => o.settings = s)
  <1>1. \A s : /\ Done(s).settings = s /\ Done(s).ok
               /\ Failed(s).settings = s /\ ~Failed(s).ok
    BY DEF Done, Failed
  <1>2. reg \in Settings
    BY DEF TypeOK
  <1>3. ASSUME NEW s \in Settings, NEW o \in ListRequest(s) \union SwitchRequest(s)
        PROVE  o.settings \in Settings /\ (o.ok => o.settings = s)
    <2>1. CASE o = Done(s)
      BY <1>1, <2>1, Zenon
    <2>2. CASE o = Failed(s) \/ o = Failed(reg)
      BY <1>1, <1>2, <2>2, Zenon
    <2> QED BY <2>1, <2>2 DEF ListRequest, SwitchRequest
  <1>4. \A o \in GetRequest : o.settings = reg
    BY <1>1, Zenon DEF GetRequest
  <1>5. \A o \in NoRequest : o.ok /\ o.settings = reg
    BY <1>1, Zenon DEF NoRequest
  <1> QED BY <1>2, <1>3, <1>4, <1>5
--------------------------------------------------------------------------------
(* Opening a session *)

LEMMA DeviceStep ==
    ASSUME SessionInv, NEW c \in Clients, Device(c)
    PROVE  StepOf(c)
  <1>1. /\ TypeOK /\ holder = NoClient /\ holder' = c /\ found' = reg
        /\ pc' = [pc EXCEPT ![c] = "readActive"]
        /\ UNCHANGED <<reg, cache, box, stale>>
    BY DEF SessionInv, Device, Free, dialogVars
  <1>2. TypeOK'
    <2>1. /\ pc' \in [Clients -> CommandLineLabels \union GuiLabels]
          /\ \A d \in CommandLines : pc'[d] \in CommandLineLabels
          /\ \A d \in Guis : pc'[d] \in GuiLabels
      BY <1>1, ClientsAssumption DEF TypeOK, Guis, CommandLineLabels, GuiLabels, Reading
    <2> QED BY <1>1, <2>1 DEF TypeOK
  <1>3. Frame(c)
    BY <1>1, ClientsAssumption DEF TypeOK, Frame
  <1>4. ClientInv(c)'
    <2>1. pc'[c] = "readActive"
      BY <1>1 DEF TypeOK
    <2> QED BY <1>1, <2>1
            DEF ClientInv, HolderInv, ReadInv, DialogInv, ApplyInv, Reading, Applying
  <1> QED BY <1>2, <1>3, <1>4 DEF StepOf

\* The four requests of the constructor.
LEMMA GetStep ==
    ASSUME SessionInv, NEW c \in Clients,
           GetActive(c) \/ GetBlacklist(c) \/ GetWhitelist(c) \/ GetInverse(c)
    PROVE  StepOf(c)
  <1>1. TypeOK /\ ClientInv(c) /\ box' = box /\ stale' = stale
    BY DEF SessionInv, GetActive, GetBlacklist, GetWhitelist, GetInverse, dialogVars
  <1>2. PICK s \in Settings, label \in Reading :
          /\ Send(c, GetRequest, s, label)
          /\ pc[c] \in Reading
          /\ \/ /\ pc[c] = "readActive" /\ label = "readBlacklist"
                /\ s = [cache[c] EXCEPT !.active = reg.active]
             \/ /\ pc[c] = "readBlacklist" /\ label = "readWhitelist"
                /\ s = [cache[c] EXCEPT !.blacklist = reg.blacklist]
             \/ /\ pc[c] = "readWhitelist" /\ label = "readInverse"
                /\ s = [cache[c] EXCEPT !.whitelist = reg.whitelist]
             \/ /\ pc[c] = "readInverse" /\ label = "own"
                /\ s = [cache[c] EXCEPT !.inverse = reg.inverse]
    <2>1. cache[c] \in Settings /\ reg \in Settings
      BY <1>1 DEF TypeOK
    <2>2. /\ [cache[c] EXCEPT !.active = reg.active] \in Settings
          /\ [cache[c] EXCEPT !.blacklist = reg.blacklist] \in Settings
          /\ [cache[c] EXCEPT !.whitelist = reg.whitelist] \in Settings
          /\ [cache[c] EXCEPT !.inverse = reg.inverse] \in Settings
      BY <2>1 DEF Settings
    <2> QED BY <2>2 DEF GetActive, GetBlacklist, GetWhitelist, GetInverse, Reading
  <1>3. /\ TypeOK' /\ Frame(c)
        /\ \/ pc'[c] \in {"closed", "exception"}
           \/ /\ reg' = reg /\ pc'[c] = label /\ cache'[c] = s /\ found' = found /\ holder' = c
    <2>1. label \in IF c \in CommandLines THEN CommandLineLabels ELSE GuiLabels
      BY DEF CommandLineLabels, GuiLabels
    <2>2. pc[c] \in Holding
      BY <1>2 DEF Holding
    <2>3. /\ box' \in [Clients -> SUBSET Apps] /\ stale' \in [Clients -> BOOLEAN]
          /\ \A d \in Clients \ {c} : box'[d] = box[d] /\ stale'[d] = stale[d]
      BY <1>1 DEF TypeOK
    <2>4. \A o \in GetRequest : o.settings \in Settings /\ o.settings = reg
      BY <1>1, RequestSettings
    <2>5. /\ TypeOK' /\ Frame(c)
          /\ \/ pc'[c] \in {"closed", "exception"}
             \/ \E o \in GetRequest :
                    /\ o.ok /\ reg' = o.settings
                    /\ pc'[c] = label /\ cache'[c] = s /\ found' = found /\ holder' = c
      BY <1>2, <2>1, <2>2, <2>3, <2>4, SendStep
    <2> QED BY <2>4, <2>5
  <1>4. ClientInv(c)'
    <2>1. CASE pc'[c] \in {"closed", "exception"}
      BY <2>1, OutsideKeeps DEF Outside
    <2>2. CASE /\ reg' = reg /\ pc'[c] = label /\ cache'[c] = s /\ found' = found /\ holder' = c
      <3>1. HolderInv(c)' /\ DialogInv(c)' /\ ApplyInv(c)'
        BY <2>2, <1>2 DEF HolderInv, DialogInv, ApplyInv, Applying
      <3>2. ReadInv(c) /\ cache[c] \in Settings
        BY <1>1 DEF ClientInv, TypeOK
      <3>3. ReadInv(c)'
        BY <2>2, <1>2, <3>2 DEF ReadInv, Settings
      <3> QED BY <3>1, <3>3 DEF ClientInv
    <2> QED BY <1>3, <2>1, <2>2
  <1> QED BY <1>3, <1>4 DEF StepOf

\* The entry of the client's own program.
LEMMA OwnEntryStep ==
    ASSUME SessionInv, NEW c \in Clients, OwnEntry(c)
    PROVE  StepOf(c)
  <1> DEFINE s == WithOwnEntry(c, cache[c])
             request == IF s = cache[c] THEN NoRequest ELSE SetWhitelistRequest(s.whitelist)
             label == IF c \in CommandLines THEN "commands" ELSE "open"
  <1>1. /\ TypeOK /\ ClientInv(c) /\ pc[c] = "own" /\ Send(c, request, s, label)
        /\ stale' = [stale EXCEPT ![c] = pc'[c] = "open"] /\ box' = box
    BY DEF SessionInv, OwnEntry
  <1>2. cache[c] = reg /\ found = reg /\ cache[c] \in Settings /\ reg \in Settings
    <2>1. cache[c] \in Settings /\ reg \in Settings
      BY <1>1 DEF TypeOK
    <2> QED BY <1>1, <2>1, SettingsEqual DEF ClientInv, ReadInv, Reading
  <1>3. /\ s \in Settings /\ s = [reg EXCEPT !.whitelist = s.whitelist]
        /\ s = WithOwnEntry(c, found)
        /\ s.blacklist = reg.blacklist /\ s.active = reg.active /\ s.inverse = reg.inverse
    BY <1>2, OwnEntrySettings DEF Settings, WithOwnEntry
  <1>4. \A o \in request : o.settings \in Settings /\ (o.ok => o.settings = s)
    <2>1. CASE s = cache[c]
      BY <1>1, <1>2, <2>1, RequestSettings
    <2>2. CASE s # cache[c]
      <3>1. request = ListRequest(s)
        BY <1>3, <2>2 DEF SetWhitelistRequest
      <3> HIDE DEF request, s
      <3> QED BY <1>1, <1>3, <3>1, RequestSettings
    <2> QED BY <2>1, <2>2
  <1>5. label \in IF c \in CommandLines THEN CommandLineLabels ELSE GuiLabels
    BY DEF CommandLineLabels, GuiLabels
  <1>6. pc[c] \in Holding
    BY <1>1 DEF Holding, Reading
  <1>7. /\ box' \in [Clients -> SUBSET Apps] /\ stale' \in [Clients -> BOOLEAN]
        /\ \A d \in Clients \ {c} : box'[d] = box[d] /\ stale'[d] = stale[d]
        /\ pc'[c] = "open" => stale'[c]
    BY <1>1 DEF TypeOK
  <1>8. label \in {"commands", "open"}
    OBVIOUS
  <1> HIDE DEF s, request, label
  <1>9. /\ TypeOK' /\ Frame(c)
        /\ \/ pc'[c] \in {"closed", "exception"}
           \/ \E o \in request :
                 /\ o.ok /\ reg' = o.settings
                 /\ pc'[c] = label /\ cache'[c] = s /\ found' = found /\ holder' = c
    BY <1>1, <1>3, <1>4, <1>5, <1>6, <1>7, SendStep
  <1>10. CASE pc'[c] \in {"closed", "exception"}
    BY <1>9, <1>10, OutsideKeeps DEF Outside, StepOf
  <1>11. CASE pc'[c] = label /\ reg' = s /\ cache'[c] = s /\ found' = found /\ holder' = c
    <2>1. HolderInv(c)' /\ ReadInv(c)' /\ DialogInv(c)'
      BY <1>7, <1>8, <1>11 DEF HolderInv, ReadInv, DialogInv, Reading
    <2>2. WithOwnEntry(c, found)' = s
      BY <1>3, <1>11 DEF WithOwnEntry
    <2>3. ApplyInv(c)'
      BY <1>2, <1>3, <1>8, <1>11, <2>2 DEF ApplyInv, Applying
    <2> QED BY <1>9, <2>1, <2>3 DEF ClientInv, StepOf
  <1> QED BY <1>4, <1>9, <1>10, <1>11
--------------------------------------------------------------------------------
(* Edits *)

\* A setter's request: none, or one for what the proxy will hold.
LEMMA EditStep ==
    ASSUME SessionInv, NEW c \in Clients, pc[c] \in {"open", "commands"},
           NEW s \in Settings, NEW request, Send(c, request, s, pc[c]),
           pc[c] = "commands" => request = NoRequest,
           pc[c] = "open" => \A o \in request : o.settings \in Settings /\ (o.ok => o.settings = s),
           box' \in [Clients -> SUBSET Apps], stale' \in [Clients -> BOOLEAN],
           \A d \in Clients \ {c} : box'[d] = box[d] /\ stale'[d] = stale[d],
           pc'[c] = "open" => stale'[c] \/ box'[c] = s.whitelist
    PROVE  StepOf(c)
  <1>1. TypeOK /\ ClientInv(c)
    BY DEF SessionInv
  <1>2. /\ pc[c] \in Holding
        /\ pc[c] \in IF c \in CommandLines THEN CommandLineLabels ELSE GuiLabels
    BY <1>1 DEF Holding, TypeOK, Guis
  <1>3. \A o \in request : o.settings \in Settings
    BY <1>1, RequestSettings
  <1>4. /\ TypeOK' /\ Frame(c)
        /\ \/ pc'[c] \in {"closed", "exception"}
           \/ \E o \in request :
                 /\ o.ok /\ reg' = o.settings
                 /\ pc'[c] = pc[c] /\ cache'[c] = s /\ found' = found /\ holder' = c
    BY <1>2, <1>3, SendStep
  <1>5. CASE pc'[c] \in {"closed", "exception"}
    BY <1>4, <1>5, OutsideKeeps DEF Outside, StepOf
  <1>6. ASSUME NEW o \in request, o.ok, reg' = o.settings,
               pc'[c] = pc[c], cache'[c] = s, found' = found, holder' = c
        PROVE  StepOf(c)
    <2>1. CASE pc[c] = "open"
      <3>1. reg' = s
        BY <1>6, <2>1
      <3>2. HolderInv(c)' /\ ReadInv(c)' /\ DialogInv(c)' /\ ApplyInv(c)'
        BY <1>6, <2>1, <3>1
        DEF HolderInv, ReadInv, DialogInv, ApplyInv, Reading, Applying
      <3> QED BY <1>4, <3>2 DEF ClientInv, StepOf
    <2>2. CASE pc[c] = "commands"
      <3>1. reg' = reg
        BY <1>1, <1>6, <2>2, RequestSettings
      <3>2. WithOwnEntry(c, found)' = WithOwnEntry(c, found)
        BY <1>6 DEF WithOwnEntry
      <3>3. ApplyInv(c)
        BY <1>1 DEF ClientInv
      <3>4. HolderInv(c)' /\ ReadInv(c)' /\ DialogInv(c)' /\ ApplyInv(c)'
        BY <1>6, <2>2, <3>1, <3>2, <3>3
        DEF HolderInv, ReadInv, DialogInv, ApplyInv, Reading, Applying
      <3> QED BY <1>4, <3>4 DEF ClientInv, StepOf
    <2> QED BY <2>1, <2>2
  <1> QED BY <1>4, <1>5, <1>6

\* What a client edits: its copy of the settings, which is in force in a dialog.
LEMMA Editing ==
    ASSUME SessionInv, NEW c \in Clients, pc[c] \in {"open", "commands"}
    PROVE  /\ cache[c] \in Settings /\ reg \in Settings /\ TypeOK
           /\ pc[c] = "commands" => ~WriteThrough(c)
           /\ pc[c] = "open" => cache[c] = reg
  BY DEF SessionInv, ClientInv, DialogInv, TypeOK, WriteThrough, Guis, GuiLabels, Reading

LEMMA ThroughSettings ==
    ASSUME SessionInv, NEW c \in Clients, pc[c] \in {"open", "commands"},
           NEW s \in Settings, NEW changed \in BOOLEAN, NEW request,
           ~changed => s = cache[c],
           pc[c] = "open" => request = ListRequest(s) \/ request = SwitchRequest(s)
    PROVE  /\ pc[c] = "commands" => Through(c, changed, request) = NoRequest
           /\ pc[c] = "open" => \A o \in Through(c, changed, request) :
                 o.settings \in Settings /\ (o.ok => o.settings = s)
  <1>1. /\ cache[c] \in Settings /\ reg \in Settings /\ TypeOK
        /\ pc[c] = "commands" => ~WriteThrough(c)
        /\ pc[c] = "open" => cache[c] = reg
    BY Editing
  <1>2. pc[c] = "commands" => Through(c, changed, request) = NoRequest
    BY <1>1 DEF Through
  <1>3. ASSUME pc[c] = "open", NEW o \in Through(c, changed, request)
        PROVE  o.settings \in Settings /\ (o.ok => o.settings = s)
    <2>1. CASE WriteThrough(c) /\ changed
      BY <1>1, <1>3, <2>1, RequestSettings DEF Through
    <2>2. CASE ~WriteThrough(c)
      <3>1. c \in CommandLines
        BY <2>2 DEF WriteThrough, Guis
      <3> QED BY <1>1, <1>3, <3>1 DEF TypeOK, CommandLineLabels, Reading, Applying
    <2>3. CASE ~changed
      BY <1>1, <1>3, <2>3, RequestSettings DEF Through
    <2> QED BY <2>1, <2>2, <2>3
  <1> QED BY <1>2, <1>3

\* The list box and the posted refresh after an edit.
EditBox(c, w) ==
    /\ box' \in [Clients -> SUBSET Apps] /\ stale' \in [Clients -> BOOLEAN]
    /\ \A d \in Clients \ {c} : box'[d] = box[d] /\ stale'[d] = stale[d]
    /\ pc'[c] = "open" => stale'[c] \/ box'[c] = w

LEMMA SetWhitelistStep ==
    ASSUME SessionInv, NEW c \in Clients, pc[c] \in {"open", "commands"},
           NEW w \in SUBSET Apps, SetWhitelist(c, w), EditBox(c, w)
    PROVE  StepOf(c)
  <1> DEFINE s == [cache[c] EXCEPT !.whitelist = w]
             changed == w # cache[c].whitelist
             request == SetWhitelistRequest(w)
  <1>1. /\ cache[c] \in Settings
        /\ pc[c] = "open" => cache[c] = reg
    BY Editing
  <1>2. s \in Settings /\ s.whitelist = w /\ (~changed => s = cache[c])
    BY <1>1 DEF Settings
  <1>3. pc[c] = "open" => request = ListRequest(s)
    BY <1>1 DEF SetWhitelistRequest
  <1>4. Send(c, Through(c, changed, request), s, pc[c])
    BY DEF SetWhitelist
  <1>5. changed \in BOOLEAN
    OBVIOUS
  <1> HIDE DEF s, changed, request
  <1>6. /\ pc[c] = "commands" => Through(c, changed, request) = NoRequest
        /\ pc[c] = "open" => \A o \in Through(c, changed, request) :
              o.settings \in Settings /\ (o.ok => o.settings = s)
    BY <1>2, <1>3, <1>5, ThroughSettings
  <1> QED BY <1>2, <1>4, <1>6, EditStep DEF EditBox

\* The other setters leave the whitelist, and with it the list box, alone.
LEMMA SetOtherStep ==
    ASSUME SessionInv, NEW c \in Clients, pc[c] \in {"open", "commands"},
           \/ \E b \in SUBSET Paths : SetBlacklist(c, b)
           \/ \E a \in BOOLEAN : SetActive(c, a)
           \/ \E i \in BOOLEAN : SetInverse(c, i),
           EditBox(c, cache[c].whitelist)
    PROVE  StepOf(c)
  <1>1. /\ cache[c] \in Settings
        /\ pc[c] = "open" => cache[c] = reg
    BY Editing
  <1>2. ASSUME NEW b \in SUBSET Paths, SetBlacklist(c, b)
        PROVE  StepOf(c)
    <2> DEFINE s == [cache[c] EXCEPT !.blacklist = b]
               changed == b # cache[c].blacklist
               request == SetBlacklistRequest(b)
    <2>1. s \in Settings /\ s.whitelist = cache[c].whitelist /\ (~changed => s = cache[c])
      BY <1>1 DEF Settings
    <2>2. pc[c] = "open" => request = ListRequest(s)
      BY <1>1 DEF SetBlacklistRequest
    <2>3. Send(c, Through(c, changed, request), s, pc[c])
      BY <1>2 DEF SetBlacklist
    <2>4. changed \in BOOLEAN
      OBVIOUS
    <2> HIDE DEF s, changed, request
    <2>5. /\ pc[c] = "commands" => Through(c, changed, request) = NoRequest
          /\ pc[c] = "open" => \A o \in Through(c, changed, request) :
                o.settings \in Settings /\ (o.ok => o.settings = s)
      BY <2>1, <2>2, <2>4, ThroughSettings
    <2> QED BY <2>1, <2>3, <2>5, EditStep DEF EditBox
  <1>3. ASSUME NEW a \in BOOLEAN, SetActive(c, a)
        PROVE  StepOf(c)
    <2> DEFINE s == [cache[c] EXCEPT !.active = a]
               changed == a # cache[c].active
               request == SetActiveRequest(a)
    <2>1. s \in Settings /\ s.whitelist = cache[c].whitelist /\ (~changed => s = cache[c])
      BY <1>1 DEF Settings
    <2>2. pc[c] = "open" => request = SwitchRequest(s)
      BY <1>1 DEF SetActiveRequest
    <2>3. Send(c, Through(c, changed, request), s, pc[c])
      BY <1>3 DEF SetActive
    <2>4. changed \in BOOLEAN
      OBVIOUS
    <2> HIDE DEF s, changed, request
    <2>5. /\ pc[c] = "commands" => Through(c, changed, request) = NoRequest
          /\ pc[c] = "open" => \A o \in Through(c, changed, request) :
                o.settings \in Settings /\ (o.ok => o.settings = s)
      BY <2>1, <2>2, <2>4, ThroughSettings
    <2> QED BY <2>1, <2>3, <2>5, EditStep DEF EditBox
  <1>4. ASSUME NEW i \in BOOLEAN, SetInverse(c, i)
        PROVE  StepOf(c)
    <2> DEFINE s == [cache[c] EXCEPT !.inverse = i]
               changed == i # cache[c].inverse
               request == SetInverseRequest(i)
    <2>1. s \in Settings /\ s.whitelist = cache[c].whitelist /\ (~changed => s = cache[c])
      BY <1>1 DEF Settings
    <2>2. pc[c] = "open" => request = SwitchRequest(s)
      BY <1>1 DEF SetInverseRequest
    <2>3. Send(c, Through(c, changed, request), s, pc[c])
      BY <1>4 DEF SetInverse
    <2>4. changed \in BOOLEAN
      OBVIOUS
    <2> HIDE DEF s, changed, request
    <2>5. /\ pc[c] = "commands" => Through(c, changed, request) = NoRequest
          /\ pc[c] = "open" => \A o \in Through(c, changed, request) :
                o.settings \in Settings /\ (o.ok => o.settings = s)
      BY <2>1, <2>2, <2>4, ThroughSettings
    <2> QED BY <2>1, <2>3, <2>5, EditStep DEF EditBox
  <1> QED BY <1>2, <1>3, <1>4
--------------------------------------------------------------------------------
(* The end of a program *)

LEMMA EndStep ==
    ASSUME SessionInv, NEW c \in Clients, End(c)
    PROVE  StepOf(c)
  <1>1. /\ TypeOK /\ Leave(c, "closed") /\ reg' = reg
        /\ box' = [box EXCEPT ![c] = {}] /\ stale' = [stale EXCEPT ![c] = FALSE]
    BY DEF SessionInv, End
  <1>2. /\ box' \in [Clients -> SUBSET Apps] /\ stale' \in [Clients -> BOOLEAN]
        /\ \A d \in Clients \ {c} : box'[d] = box[d] /\ stale'[d] = stale[d]
    BY <1>1 DEF TypeOK
  <1>3. /\ "closed" \in Outside
        /\ "closed" \in IF c \in CommandLines THEN CommandLineLabels ELSE GuiLabels
    BY DEF Outside, CommandLineLabels, GuiLabels
  <1>4. reg \in Settings
    BY <1>1 DEF TypeOK
  <1> QED BY <1>1, <1>2, <1>3, <1>4, LeaveStep
--------------------------------------------------------------------------------
(* The command line *)

LEMMA CommandStep ==
    ASSUME SessionInv, NEW c \in CommandLines, ExecuteCommand(c)
    PROVE  StepOf(c)
  <1>1. /\ c \in Clients /\ TypeOK /\ pc[c] = "commands" /\ box' = box /\ stale' = stale
    BY ClientsAssumption DEF ExecuteCommand, SessionInv, dialogVars
  <1>2. cache[c] \in Settings
    BY <1>1 DEF TypeOK
  <1>3. cache[c].whitelist \in SUBSET Apps /\ cache[c].blacklist \in SUBSET Paths
        /\ cache[c].active \in BOOLEAN
    BY <1>2 DEF Settings
  <1>4. \/ \E w \in SUBSET Apps : SetWhitelist(c, w)
        \/ \E b \in SUBSET Paths : SetBlacklist(c, b)
        \/ \E a \in BOOLEAN : SetActive(c, a)
        \/ \E i \in BOOLEAN : SetInverse(c, i)
    <2>1. CASE AppReg(c) \/ AppUnreg(c) \/ AppClean(c)
      <3>1. /\ \A a \in Apps : cache[c].whitelist \union {a} \in SUBSET Apps
            /\ \A a \in Apps : cache[c].whitelist \ {a} \in SUBSET Apps
            /\ cache[c].whitelist \ Missing \in SUBSET Apps
        BY <1>3
      <3> QED BY <2>1, <3>1
              DEF AppReg, AppUnreg, AppClean, WhitelistAddEntry, WhitelistDelEntry
    <2>2. CASE DevHide(c) \/ DevUnhinde(c)
      <3>1. /\ \A q \in Paths : cache[c].blacklist \union {q} \in SUBSET Paths
            /\ \A q \in Paths : cache[c].blacklist \ {q} \in SUBSET Paths
        BY <1>3
      <3> QED BY <2>2, <3>1 DEF DevHide, DevUnhinde, BlacklistAddEntry, BlacklistDelEntry
    <2>3. CASE CloakOn(c) \/ CloakOff(c) \/ CloakToggle(c)
      BY <2>3, Zenon DEF CloakOn, CloakOff, CloakToggle
    <2>4. CASE InvOn(c) \/ InvOff(c)
      BY <2>4, Zenon DEF InvOn, InvOff
    <2> QED BY <2>1, <2>2, <2>3, <2>4 DEF ExecuteCommand
  <1>5. pc[c] = "commands" => pc'[c] # "open"
    <2>2. ASSUME NEW s, NEW request, Send(c, request, s, pc[c])
          PROVE  pc'[c] # "open"
      BY <1>1, <2>2 DEF Send, Proceed, Throw, Leave, TypeOK
    <2> QED BY <1>4, <2>2 DEF SetWhitelist, SetBlacklist, SetActive, SetInverse
  <1>6. /\ \A w : EditBox(c, w)
    BY <1>1, <1>5 DEF EditBox, TypeOK
  <1> QED BY <1>1, <1>4, <1>6, SetWhitelistStep, SetOtherStep

LEMMA EndOfInputStep ==
    ASSUME SessionInv, NEW c \in CommandLines, EndOfInput(c)
    PROVE  StepOf(c)
  <1>1. /\ c \in Clients /\ TypeOK /\ ClientInv(c) /\ pc[c] = "commands"
        /\ pc' = [pc EXCEPT ![c] = "applyWhitelist"]
        /\ UNCHANGED <<reg, holder, cache, found, box, stale>>
    BY ClientsAssumption DEF EndOfInput, SessionInv, dialogVars
  <1>2. TypeOK' /\ pc'[c] = "applyWhitelist"
    BY <1>1 DEF TypeOK, Guis, CommandLineLabels, Applying
  <1>3. Frame(c)
    BY <1>1 DEF TypeOK, Frame
  <1>4. HolderInv(c)' /\ ReadInv(c)' /\ DialogInv(c)'
    BY <1>1, <1>2 DEF ClientInv, HolderInv, ReadInv, DialogInv, Reading, Holding
  <1>5. ApplyInv(c)'
    BY <1>1, <1>2 DEF ClientInv, ApplyInv, Applying, WithOwnEntry
  <1> QED BY <1>2, <1>3, <1>4, <1>5 DEF ClientInv, StepOf

\* The outcomes of a request of ApplyConfigurationChanges.
LEMMA ApplyOutcome ==
    ASSUME TypeOK, NEW s \in Settings, NEW request,
           request \in {ListRequest(s), SwitchRequest(s)},
           NEW differs \in BOOLEAN, ~differs => s = reg
    PROVE  \A o \in IF differs THEN request ELSE GetRequest :
              o.settings \in Settings /\ (o.ok => o.settings = s)
  <1>1. CASE differs
    BY <1>1, RequestSettings
  <1>2. CASE ~differs
    BY <1>2, RequestSettings
  <1> QED BY <1>1, <1>2

\* One of the first three requests of ApplyConfigurationChanges: it sets field s.
LEMMA ApplySend ==
    ASSUME SessionInv, NEW c \in CommandLines, pc[c] \in Applying,
           NEW s \in Settings, NEW request, NEW differs \in BOOLEAN,
           request \in {ListRequest(s), SwitchRequest(s)}, ~differs => s = reg,
           NEW label \in Applying, Apply(c, pc[c], differs, request, label)
    PROVE  /\ TypeOK' /\ Frame(c)
           /\ \/ pc'[c] \in {"closed", "exception"}
              \/ /\ reg' = s /\ pc'[c] = label /\ cache'[c] = cache[c]
                 /\ found' = found /\ holder' = c
  <1> DEFINE sent == IF differs THEN request ELSE GetRequest
  <1>1. c \in Clients /\ TypeOK /\ box' = box /\ stale' = stale
    BY ClientsAssumption DEF SessionInv, Apply, dialogVars
  <1>2. \A o \in sent : o.settings \in Settings /\ (o.ok => o.settings = s)
    BY <1>1, ApplyOutcome
  <1>3. Send(c, sent, cache[c], label) /\ cache[c] \in Settings /\ pc[c] \in Holding
    BY <1>1 DEF Apply, TypeOK, Holding
  <1>4. label \in IF c \in CommandLines THEN CommandLineLabels ELSE GuiLabels
    BY DEF CommandLineLabels
  <1>5. /\ box' \in [Clients -> SUBSET Apps] /\ stale' \in [Clients -> BOOLEAN]
        /\ \A d \in Clients \ {c} : box'[d] = box[d] /\ stale'[d] = stale[d]
    BY <1>1 DEF TypeOK
  <1> HIDE DEF sent
  <1>6. /\ TypeOK' /\ Frame(c)
        /\ \/ pc'[c] \in {"closed", "exception"}
           \/ \E o \in sent :
                 /\ o.ok /\ reg' = o.settings
                 /\ pc'[c] = label /\ cache'[c] = cache[c] /\ found' = found /\ holder' = c
    BY <1>1, <1>2, <1>3, <1>4, <1>5, SendStep
  <1> QED BY <1>2, <1>6

\* A setting that was sent becomes one of those that are applied.
LEMMA ApplyStep ==
    ASSUME SessionInv, NEW c \in CommandLines,
           ApplyWhitelist(c) \/ ApplyBlacklist(c) \/ ApplyActive(c)
    PROVE  StepOf(c)
  <1>1. c \in Clients /\ TypeOK /\ ApplyInv(c) /\ cache[c] \in Settings /\ reg \in Settings
        /\ found \in Settings
    BY ClientsAssumption DEF SessionInv, ClientInv, TypeOK
  <1>2. \E s \in Settings, label \in Applying :
          /\ TypeOK' /\ Frame(c)
          /\ \/ pc'[c] \in {"closed", "exception"}
             \/ /\ reg' = s /\ pc'[c] = label /\ cache'[c] = cache[c]
                /\ found' = found /\ holder' = c
          /\ \/ /\ pc[c] = "applyWhitelist" /\ label = "applyBlacklist"
                /\ s = [reg EXCEPT !.whitelist = cache[c].whitelist]
             \/ /\ pc[c] = "applyBlacklist" /\ label = "applyActive"
                /\ s = [reg EXCEPT !.blacklist = cache[c].blacklist]
             \/ /\ pc[c] = "applyActive" /\ label = "applyInverse"
                /\ s = [reg EXCEPT !.active = cache[c].active]
    <2>1. CASE ApplyWhitelist(c)
      <3> DEFINE s == [reg EXCEPT !.whitelist = cache[c].whitelist]
                 differs == reg.whitelist # cache[c].whitelist
                 request == SetWhitelistRequest(cache[c].whitelist)
      <3>1. s \in Settings /\ (~differs => s = reg) /\ request = ListRequest(s) /\ differs \in BOOLEAN
        BY <1>1 DEF Settings, SetWhitelistRequest
      <3>2. pc[c] = "applyWhitelist" /\ "applyBlacklist" \in Applying /\ pc[c] \in Applying
            /\ Apply(c, pc[c], differs, request, "applyBlacklist")
        BY <2>1 DEF ApplyWhitelist, Apply, Applying
      <3>3. s = [reg EXCEPT !.whitelist = cache[c].whitelist]
        OBVIOUS
      <3> HIDE DEF s, differs, request
      <3> QED BY <3>1, <3>2, <3>3, ApplySend
    <2>2. CASE ApplyBlacklist(c)
      <3> DEFINE s == [reg EXCEPT !.blacklist = cache[c].blacklist]
                 differs == reg.blacklist # cache[c].blacklist
                 request == SetBlacklistRequest(cache[c].blacklist)
      <3>1. s \in Settings /\ (~differs => s = reg) /\ request = ListRequest(s) /\ differs \in BOOLEAN
        BY <1>1 DEF Settings, SetBlacklistRequest
      <3>2. pc[c] = "applyBlacklist" /\ "applyActive" \in Applying /\ pc[c] \in Applying
            /\ Apply(c, pc[c], differs, request, "applyActive")
        BY <2>2 DEF ApplyBlacklist, Apply, Applying
      <3>3. s = [reg EXCEPT !.blacklist = cache[c].blacklist]
        OBVIOUS
      <3> HIDE DEF s, differs, request
      <3> QED BY <3>1, <3>2, <3>3, ApplySend
    <2>3. CASE ApplyActive(c)
      <3> DEFINE s == [reg EXCEPT !.active = cache[c].active]
                 differs == reg.active # cache[c].active
                 request == SetActiveRequest(cache[c].active)
      <3>1. s \in Settings /\ (~differs => s = reg) /\ request = SwitchRequest(s) /\ differs \in BOOLEAN
        BY <1>1 DEF Settings, SetActiveRequest
      <3>2. pc[c] = "applyActive" /\ "applyInverse" \in Applying /\ pc[c] \in Applying
            /\ Apply(c, pc[c], differs, request, "applyInverse")
        BY <2>3 DEF ApplyActive, Apply, Applying
      <3>3. s = [reg EXCEPT !.active = cache[c].active]
        OBVIOUS
      <3> HIDE DEF s, differs, request
      <3> QED BY <3>1, <3>2, <3>3, ApplySend
    <2> QED BY <2>1, <2>2, <2>3
  <1>3. PICK s \in Settings, label \in Applying :
          /\ TypeOK' /\ Frame(c)
          /\ \/ pc'[c] \in {"closed", "exception"}
             \/ /\ reg' = s /\ pc'[c] = label /\ cache'[c] = cache[c]
                /\ found' = found /\ holder' = c
          /\ \/ /\ pc[c] = "applyWhitelist" /\ label = "applyBlacklist"
                /\ s = [reg EXCEPT !.whitelist = cache[c].whitelist]
             \/ /\ pc[c] = "applyBlacklist" /\ label = "applyActive"
                /\ s = [reg EXCEPT !.blacklist = cache[c].blacklist]
             \/ /\ pc[c] = "applyActive" /\ label = "applyInverse"
                /\ s = [reg EXCEPT !.active = cache[c].active]
    BY <1>2
  <1>4. CASE pc'[c] \in {"closed", "exception"}
    BY <1>1, <1>3, <1>4, OutsideKeeps DEF Outside, StepOf
  <1>5. CASE /\ reg' = s /\ pc'[c] = label /\ cache'[c] = cache[c]
             /\ found' = found /\ holder' = c
    <2>1. HolderInv(c)' /\ ReadInv(c)' /\ DialogInv(c)'
      BY <1>3, <1>5 DEF HolderInv, ReadInv, DialogInv, Reading
    <2>2. WithOwnEntry(c, found)' = WithOwnEntry(c, found)
      BY <1>5 DEF WithOwnEntry
    <2> DEFINE own == WithOwnEntry(c, found)
    <2>3. own' = own
      BY <2>2
    <2>4. ApplyInv(c)'
      <3> HIDE DEF own
      <3>1. reg' = s /\ pc'[c] = label /\ cache'[c] = cache[c] /\ found' = found
        BY <1>5
      <3>2. /\ s.whitelist = IF pc[c] = "applyWhitelist" THEN cache[c].whitelist ELSE reg.whitelist
            /\ s.blacklist = IF pc[c] = "applyBlacklist" THEN cache[c].blacklist ELSE reg.blacklist
            /\ s.active = IF pc[c] = "applyActive" THEN cache[c].active ELSE reg.active
            /\ s.inverse = reg.inverse
        BY <1>1, <1>3 DEF Settings
      <3> QED BY <1>1, <1>3, <2>2, <3>1, <3>2 DEF ApplyInv, Applying
    <2> QED BY <1>1, <1>3, <2>1, <2>4 DEF ClientInv, StepOf
  <1> QED BY <1>3, <1>4, <1>5

\* After the last setting the session is over.
LEMMA ApplyInverseStep ==
    ASSUME SessionInv, NEW c \in CommandLines, ApplyInverse(c)
    PROVE  StepOf(c)
  <1> DEFINE s == [reg EXCEPT !.inverse = cache[c].inverse]
             differs == reg.inverse # cache[c].inverse
             sent == IF differs THEN SwitchRequest(s) ELSE GetRequest
  <1>1. /\ c \in Clients /\ TypeOK /\ ClientInv(c) /\ pc[c] = "applyInverse"
        /\ \E o \in sent : reg' = o.settings
        /\ Leave(c, "closed") /\ box' = box /\ stale' = stale
    BY ClientsAssumption DEF SessionInv, ApplyInverse, SetInverseRequest, dialogVars
  <1>2. s \in Settings /\ (~differs => s = reg) /\ differs \in BOOLEAN
    BY <1>1 DEF TypeOK, Settings
  <1>3. SwitchRequest(s) \in {ListRequest(s), SwitchRequest(s)}
    OBVIOUS
  <1>4. \A o \in sent : o.settings \in Settings
    <2> HIDE DEF s, differs
    <2> QED BY <1>1, <1>2, <1>3, ApplyOutcome
  <1> HIDE DEF sent
  <1>5. reg' \in Settings
    BY <1>1, <1>4
  <1>6. holder = c
    BY <1>1 DEF ClientInv, HolderInv, Holding, Applying
  <1>7. "closed" \in Outside /\ "closed" \in CommandLineLabels
    BY DEF Outside, CommandLineLabels
  <1>8. /\ box' \in [Clients -> SUBSET Apps] /\ stale' \in [Clients -> BOOLEAN]
        /\ \A d \in Clients \ {c} : box'[d] = box[d] /\ stale'[d] = stale[d]
    BY <1>1 DEF TypeOK
  <1> QED BY <1>1, <1>5, <1>6, <1>7, <1>8, LeaveStep
--------------------------------------------------------------------------------
(* The configuration client *)

LEMMA EnterStep ==
    ASSUME SessionInv, NEW c \in Guis, Probe(c) \/ ProbeClose(c) \/ Answer(c) \/ DeviceFails(c)
    PROVE  StepOf(c)
  <1>1. c \in Clients /\ c \notin CommandLines /\ TypeOK
    BY DEF Guis, SessionInv
  <1>2. /\ UNCHANGED <<reg, cache, found, box, stale>>
        /\ \E label \in {"closed", "probing", "asking", "probed", "exception"} :
              /\ pc' = [pc EXCEPT ![c] = label]
              /\ label = "probing" => holder = NoClient /\ holder' = c
              /\ label # "probing" => holder' \in {holder, Released(c)}
    BY DEF Probe, ProbeClose, Answer, DeviceFails, Free, dialogVars
  <1>3. PICK label \in {"closed", "probing", "asking", "probed", "exception"} :
              /\ pc' = [pc EXCEPT ![c] = label]
              /\ label = "probing" => holder = NoClient /\ holder' = c
              /\ label # "probing" => holder' \in {holder, Released(c)}
    BY <1>2
  <1>4. TypeOK'
    <2>1. /\ pc' \in [Clients -> CommandLineLabels \union GuiLabels]
          /\ \A d \in CommandLines : pc'[d] \in CommandLineLabels
          /\ \A d \in Guis : pc'[d] \in GuiLabels
      BY <1>1, <1>3, ClientsAssumption DEF TypeOK, Guis, GuiLabels
    <2>2. holder' \in Clients \union {NoClient}
      BY <1>1, <1>3 DEF TypeOK, Released
    <2> QED BY <1>1, <1>2, <2>1, <2>2 DEF TypeOK
  <1>5. Frame(c)
    BY <1>1, <1>2, <1>3, ClientsAssumption DEF TypeOK, Frame, Released
  <1>6. ClientInv(c)'
    <2>1. pc'[c] = label
      BY <1>1, <1>3 DEF TypeOK
    <2>2. CASE label = "probing"
      BY <1>3, <2>1, <2>2
      DEF ClientInv, HolderInv, ReadInv, DialogInv, ApplyInv, Reading, Applying
    <2>3. CASE label # "probing"
      BY <1>1, <2>1, <2>3, OutsideKeeps DEF Outside
    <2> QED BY <2>2, <2>3
  <1> QED BY <1>4, <1>5, <1>6 DEF StepOf

\* The list box is refreshed from the proxy; a refresh is posted.
LEMMA BoxStep ==
    ASSUME SessionInv, NEW c \in Guis, RefreshBox(c) \/ ShowTab(c)
    PROVE  StepOf(c)
  <1>1. /\ c \in Clients /\ TypeOK /\ ClientInv(c) /\ pc[c] = "open"
        /\ UNCHANGED <<reg, holder, pc, cache, found>>
    BY DEF Guis, SessionInv, RefreshBox, ShowTab, Input
  <1>2. cache[c].whitelist \in SUBSET Apps
    BY <1>1 DEF TypeOK, Settings
  <1>3. /\ box' \in [Clients -> SUBSET Apps] /\ stale' \in [Clients -> BOOLEAN]
        /\ \A d \in Clients \ {c} : box'[d] = box[d] /\ stale'[d] = stale[d]
        /\ stale'[c] \/ box'[c] = cache[c].whitelist
    BY <1>1, <1>2 DEF TypeOK, RefreshBox, ShowTab
  <1>4. TypeOK' /\ Frame(c)
    BY <1>1, <1>3 DEF TypeOK, Frame
  <1>5. HolderInv(c)' /\ ReadInv(c)' /\ DialogInv(c)' /\ ApplyInv(c)'
    BY <1>1, <1>3 DEF ClientInv, HolderInv, ReadInv, DialogInv, ApplyInv, Reading, Applying
  <1> QED BY <1>4, <1>5 DEF ClientInv, StepOf

\* Edits of the whitelist in the dialog post a refresh, unless it is over.
LEMMA WhitelistEditStep ==
    ASSUME SessionInv, NEW c \in Guis, Insert(c) \/ Delete(c) \/ Drop(c)
    PROVE  StepOf(c)
  <1>1. c \in Clients /\ TypeOK
    BY DEF Guis, SessionInv
  <1>2. cache[c].whitelist \in SUBSET Apps /\ box[c] \in SUBSET Apps
    BY <1>1 DEF TypeOK, Settings
  <1>3. PICK w \in SUBSET Apps :
          /\ Input(c) /\ SetWhitelist(c, w)
          /\ stale' = [stale EXCEPT ![c] = pc'[c] = "open"]
          /\ box' = [box EXCEPT ![c] = w] \/ box' = box
    <2>1. CASE Insert(c)
      <3>1. PICK a \in (Apps \ Missing) \ box[c] : SetFromBox(c, box[c] \union {a})
        BY <2>1 DEF Insert
      <3> QED BY <1>2, <3>1 DEF SetFromBox
    <2>2. CASE Delete(c)
      <3>1. PICK selected \in SUBSET box[c] : SetFromBox(c, box[c] \ selected)
        BY <2>2 DEF Delete
      <3> QED BY <1>2, <3>1 DEF SetFromBox
    <2>3. CASE Drop(c)
      <3>1. PICK dropped \in SUBSET (Apps \ Missing) :
               /\ Input(c) /\ SetWhitelist(c, cache[c].whitelist \union dropped)
               /\ stale' = [stale EXCEPT ![c] = pc'[c] = "open"] /\ box' = box
        BY <2>3 DEF Drop
      <3> QED BY <1>2, <3>1
    <2> QED BY <2>1, <2>2, <2>3
  <1>4. pc[c] \in {"open", "commands"}
    BY <1>3 DEF Input
  <1>5. EditBox(c, w)
    BY <1>1, <1>3 DEF TypeOK, EditBox
  <1> QED BY <1>1, <1>3, <1>4, <1>5, SetWhitelistStep

\* The other edits leave the list box alone.
LEMMA OtherEditStep ==
    ASSUME SessionInv, NEW c \in Guis, CheckInverse(c) \/ CheckEnable(c) \/ ChangeTree(c)
    PROVE  StepOf(c)
  <1>1. /\ c \in Clients /\ TypeOK /\ ClientInv(c) /\ pc[c] = "open" /\ ~stale[c]
        /\ box' = box /\ stale' = stale
    BY DEF Guis, SessionInv, CheckInverse, CheckEnable, ChangeTree, Input, dialogVars
  <1>2. \/ \E b \in SUBSET Paths : SetBlacklist(c, b)
        \/ \E a \in BOOLEAN : SetActive(c, a)
        \/ \E i \in BOOLEAN : SetInverse(c, i)
    <2>1. CASE ChangeTree(c)
      BY <2>1 DEF ChangeTree
    <2>2. CASE CheckInverse(c) \/ CheckEnable(c)
      <3>1. (~cache[c].inverse) \in BOOLEAN /\ (~cache[c].active) \in BOOLEAN
        OBVIOUS
      <3> QED BY <2>2, <3>1, Zenon DEF CheckInverse, CheckEnable
    <2> QED BY <2>1, <2>2
  <1>3. EditBox(c, cache[c].whitelist)
    BY <1>1 DEF TypeOK, EditBox, ClientInv, DialogInv
  <1> QED BY <1>1, <1>2, <1>3, SetOtherStep
--------------------------------------------------------------------------------
(* The invariant *)

LEMMA SessionInit == Init => SessionInv
  <1> SUFFICES ASSUME Init PROVE SessionInv
    OBVIOUS
  <1>1. TypeOK
    <2>1. cache \in [Clients -> Settings] /\ found \in Settings
      BY BlankSettings DEF Init
    <2>2. /\ reg \in Settings /\ holder \in Clients \union {NoClient}
          /\ pc \in [Clients -> CommandLineLabels \union GuiLabels]
          /\ \A c \in CommandLines : pc[c] \in CommandLineLabels
          /\ \A c \in Guis : pc[c] \in GuiLabels
      BY ClientsAssumption DEF Init, CommandLineLabels, GuiLabels, Guis
    <2>3. box \in [Clients -> SUBSET Apps] /\ stale \in [Clients -> BOOLEAN]
      BY DEF Init
    <2> QED BY <2>1, <2>2, <2>3 DEF TypeOK
  <1>2. ASSUME NEW c \in Clients PROVE ClientInv(c)
    <2>1. pc[c] = "closed"
      BY DEF Init
    <2> QED BY <2>1 DEF ClientInv, HolderInv, ReadInv, DialogInv, ApplyInv,
                        Holding, Reading, Applying
  <1> QED BY <1>1, <1>2 DEF SessionInv

\* Every step of the system is one of some client.
ClientStep(c) ==
    \/ Device(c) \/ OpenSession(c) \/ Kill(c)
    \/ c \in CommandLines /\ CommandLine(c)
    \/ c \in Guis /\ Gui(c)

LEMMA NextIsOfAClient == Next => \E c \in Clients : ClientStep(c)
  BY ClientsAssumption DEF Next, ClientStep, Guis

LEMMA ClientStepIsAStep ==
    ASSUME SessionInv, NEW c \in Clients, ClientStep(c)
    PROVE  StepOf(c)
  <1>1. CASE Device(c) \/ OpenSession(c) \/ Kill(c)
    <2>1. CASE Device(c)
      BY <2>1, DeviceStep
    <2>2. CASE OpenSession(c)
      BY <2>2, GetStep, OwnEntryStep DEF OpenSession
    <2>3. CASE Kill(c)
      BY <2>3, EndStep DEF Kill
    <2> QED BY <1>1, <2>1, <2>2, <2>3
  <1>2. CASE c \in CommandLines /\ CommandLine(c)
    <2>2. CASE ExecuteCommand(c)
      BY <1>2, <2>2, CommandStep
    <2>3. CASE Cancel(c) \/ LineError(c)
      BY <2>3, EndStep DEF Cancel, LineError
    <2>4. CASE EndOfInput(c)
      BY <1>2, <2>4, EndOfInputStep
    <2>5. CASE ApplyConfigurationChanges(c)
      BY <1>2, <2>5, ApplyStep, ApplyInverseStep DEF ApplyConfigurationChanges
    <2> QED BY <1>2, <2>2, <2>3, <2>4, <2>5 DEF CommandLine
  <1>3. CASE c \in Guis /\ Gui(c)
    <2>2. CASE Probe(c) \/ ProbeClose(c) \/ Answer(c) \/ DeviceFails(c)
      BY <1>3, <2>2, EnterStep
    <2>3. CASE RefreshBox(c) \/ ShowTab(c)
      BY <1>3, <2>3, BoxStep
    <2>4. CASE Edit(c)
      BY <1>3, <2>4, WhitelistEditStep, OtherEditStep DEF Edit
    <2>5. CASE Close(c)
      BY <2>5, EndStep DEF Close
    <2> QED BY <1>3, <2>2, <2>3, <2>4, <2>5 DEF Gui
  <1> QED BY <1>1, <1>2, <1>3 DEF ClientStep

LEMMA SessionStep == SessionInv /\ [Next]_vars => SessionInv'
  <1> SUFFICES ASSUME SessionInv, [Next]_vars PROVE SessionInv'
    OBVIOUS
  <1>1. CASE Next
    BY <1>1, NextIsOfAClient, ClientStepIsAStep, OthersKeep
  <1>2. CASE UNCHANGED vars
    BY <1>2 DEF vars, SessionInv, TypeOK, ClientInv, HolderInv, ReadInv, DialogInv, ApplyInv,
                WithOwnEntry
  <1> QED BY <1>1, <1>2

\* Whoever is in a session has the control device, and what the constructor read,
\* a dialog shows, and a command line collected, relates to the settings in force
\* as the invariant says, whichever requests the driver refuses and whoever is killed.
THEOREM SessionInvariant == Spec => []SessionInv
  <1> QED BY SessionInit, SessionStep, PTL DEF Spec

\* Each program stays in its own part of the protocol, and every proxy, list box and
\* stored setting has its type.
THEOREM SessionTypeCorrect == Spec => []TypeOK
  <1>1. SessionInv => TypeOK
    BY DEF SessionInv
  <1> QED BY <1>1, SessionInvariant, PTL

\* FilterDriverProxy's copy in a working dialog is what the driver has in force,
\* although the setters change the copy before the driver has accepted it.
THEOREM DialogEditsWhatIsInForce == Spec => []CacheInForce
  <1>1. SessionInv => CacheInForce
    BY DEF SessionInv, CacheInForce, ClientInv, DialogInv, Guis
  <1> QED BY <1>1, SessionInvariant, PTL

\* The whitelist's list box shows the whitelist whenever the dialog takes input: all
\* ways to change the one without the other post a refresh that comes first.
THEOREM InputFindsTheWhitelist == Spec => []BoxIsTheWhitelist
  <1>1. SessionInv => BoxIsTheWhitelist
    BY DEF SessionInv, BoxIsTheWhitelist, ClientInv, DialogInv, Guis, Input
  <1> QED BY <1>1, SessionInvariant, PTL

\* ApplyConfigurationChanges: at every request, the settings before it are as the
\* command line wants them and the others as it found them.
THEOREM NothingButThePrefixIsApplied == Spec => []AppliedPrefix
  <1>1. SessionInv => AppliedPrefix
    <2> SUFFICES ASSUME SessionInv, NEW c \in CommandLines,
                        pc[c] \in Applying \union {"commands"}
                 PROVE  reg = [f \in DOMAIN reg |->
                          IF f \in Applied(pc[c]) THEN cache[c][f] ELSE WithOwnEntry(c, found)[f]]
      BY DEF AppliedPrefix
    <2>1. TypeOK /\ ClientInv(c)
      BY ClientsAssumption DEF SessionInv
    <2> QED BY <2>1, ApplyInvMeaning
  <1> QED BY <1>1, SessionInvariant, PTL
--------------------------------------------------------------------------------
(* The control device is released *)

\* Whoever has the device open is in a session or in a probe, or is a dialog that threw
\* and lives on until its message box is answered.
HeldInv == \A c \in Clients : holder = c => pc[c] \in Holding \union {"exception"}

\* The order in which a client that has the device goes on
Onward == {
    <<"readActive", "readBlacklist">>, <<"readBlacklist", "readWhitelist">>,
    <<"readWhitelist", "readInverse">>, <<"readInverse", "own">>,
    <<"own", "commands">>, <<"own", "open">>, <<"commands", "applyWhitelist">>,
    <<"applyWhitelist", "applyBlacklist">>, <<"applyBlacklist", "applyActive">>,
    <<"applyActive", "applyInverse">>}

\* What a step of client c does to the device and to its own place: it takes the device,
\* goes on with it, or gives it up.
Moves(c) ==
    /\ holder' \in {holder, c, NoClient}
    /\ holder' = c =>
         \/ pc'[c] = "exception"
         \/ holder = NoClient /\ pc'[c] \in {"readActive", "probing"}
         \/ pc'[c] = pc[c] /\ pc[c] \in {"open", "commands"}
         \/ <<pc[c], pc'[c]>> \in Onward

LEMMA LeaveMoves ==
    ASSUME TypeOK, NEW c \in Clients, NEW label, Leave(c, label)
    PROVE  Moves(c)
  <1>1. holder' = IF holder = c THEN NoClient ELSE holder
    BY DEF Leave, Released
  <1> QED BY <1>1, ClientsAssumption DEF Moves

LEMMA SendMoves ==
    ASSUME TypeOK, NEW c \in Clients, NEW s, NEW request, NEW label,
           Send(c, request, s, label),
           \/ <<pc[c], label>> \in Onward
           \/ label = pc[c] /\ pc[c] \in {"open", "commands"}
    PROVE  Moves(c)
  <1>1. CASE Proceed(c, s, label)
    BY <1>1 DEF Proceed, Moves, TypeOK
  <1>2. CASE Throw(c, s)
    <2>1. CASE pc[c] = "open"
      BY <1>2, <2>1 DEF Throw, Proceed, Moves, TypeOK
    <2>2. CASE pc[c] # "open"
      <3>1. \E end : Leave(c, end)
        BY <1>2, <2>2 DEF Throw
      <3> QED BY <3>1, LeaveMoves
    <2> QED BY <2>1, <2>2
  <1> QED BY <1>1, <1>2 DEF Send

LEMMA EditMoves ==
    ASSUME TypeOK, NEW c \in Clients, pc[c] \in {"open", "commands"},
           \/ \E w : SetWhitelist(c, w)
           \/ \E b : SetBlacklist(c, b)
           \/ \E a : SetActive(c, a)
           \/ \E i : SetInverse(c, i)
    PROVE  Moves(c)
  <1>1. \E request, s : Send(c, request, s, pc[c])
    BY Zenon DEF SetWhitelist, SetBlacklist, SetActive, SetInverse
  <1> QED BY <1>1, SendMoves

LEMMA ClientStepMoves ==
    ASSUME SessionInv, HeldInv, NEW c \in Clients, ClientStep(c)
    PROVE  Moves(c)
  <1>1. TypeOK
    BY DEF SessionInv
  <1>2. CASE Device(c)
    BY <1>1, <1>2 DEF Device, Free, Moves, TypeOK
  <1>3. CASE OpenSession(c)
    <2>1. CASE GetActive(c) \/ GetBlacklist(c) \/ GetWhitelist(c) \/ GetInverse(c)
      <3>1. \E request, s, label : Send(c, request, s, label) /\ <<pc[c], label>> \in Onward
        BY <2>1, Zenon DEF GetActive, GetBlacklist, GetWhitelist, GetInverse, Onward
      <3> QED BY <1>1, <3>1, SendMoves
    <2>2. CASE OwnEntry(c)
      <3>1. \E request, s : \E label \in {"commands", "open"} :
               pc[c] = "own" /\ Send(c, request, s, label)
        BY <2>2 DEF OwnEntry
      <3> QED BY <1>1, <3>1, SendMoves DEF Onward
    <2> QED BY <1>3, <2>1, <2>2 DEF OpenSession
  <1>4. CASE Kill(c) \/ Cancel(c) \/ LineError(c) \/ Close(c) \/ ApplyInverse(c)
    BY <1>1, <1>4, LeaveMoves DEF Kill, Cancel, LineError, Close, End, ApplyInverse
  <1>5. CASE ExecuteCommand(c)
    <2>1. \/ \E w : SetWhitelist(c, w)
          \/ \E b : SetBlacklist(c, b)
          \/ \E a : SetActive(c, a)
          \/ \E i : SetInverse(c, i)
      BY <1>5, Zenon DEF ExecuteCommand, AppReg, AppUnreg, AppClean, DevHide, DevUnhinde,
             CloakOn, CloakOff, CloakToggle, InvOn, InvOff, WhitelistAddEntry,
             WhitelistDelEntry, BlacklistAddEntry, BlacklistDelEntry
    <2> QED BY <1>1, <1>5, <2>1, EditMoves DEF ExecuteCommand
  <1>6. CASE EndOfInput(c)
    BY <1>1, <1>6 DEF EndOfInput, Moves, Onward, TypeOK
  <1>7. CASE ApplyWhitelist(c) \/ ApplyBlacklist(c) \/ ApplyActive(c)
    <2>1. \E request, s, label : Send(c, request, s, label) /\ <<pc[c], label>> \in Onward
      BY <1>7, Zenon DEF ApplyWhitelist, ApplyBlacklist, ApplyActive, Apply, Onward
    <2> QED BY <1>1, <2>1, SendMoves
  <1>8. CASE c \in Guis /\ (Probe(c) \/ ProbeClose(c) \/ Answer(c) \/ DeviceFails(c))
    <2>1. CASE ProbeClose(c)
      BY <1>1, <2>1, ClientsAssumption DEF ProbeClose, Released, Moves
    <2>2. CASE Probe(c) \/ Answer(c) \/ DeviceFails(c)
      <3>1. pc[c] \in {"closed", "asking", "probed"}
        BY <2>2 DEF Probe, Answer, DeviceFails
      <3>2. holder # c
        BY <3>1 DEF HeldInv, Holding, Reading, Applying
      <3> QED BY <1>1, <2>2, <3>2 DEF Probe, Answer, DeviceFails, Free, Moves, TypeOK
    <2> QED BY <1>8, <2>1, <2>2
  <1>9. CASE RefreshBox(c) \/ ShowTab(c)
    BY <1>1, <1>9 DEF RefreshBox, ShowTab, Input, Moves, TypeOK
  <1>10. CASE Edit(c)
    <2>1. /\ pc[c] = "open"
          /\ \/ \E w : SetWhitelist(c, w)
             \/ \E b : SetBlacklist(c, b)
             \/ \E a : SetActive(c, a)
             \/ \E i : SetInverse(c, i)
      BY <1>10, Zenon DEF Edit, Insert, Delete, Drop, SetFromBox, CheckInverse, CheckEnable,
             ChangeTree, Input
    <2> QED BY <1>1, <2>1, EditMoves
  <1> QED BY <1>2, <1>3, <1>4, <1>5, <1>6, <1>7, <1>8, <1>9, <1>10
          DEF ClientStep, CommandLine, ApplyConfigurationChanges, Gui

LEMMA HeldStep == SessionInv /\ HeldInv /\ [Next]_vars => HeldInv'
  <1> SUFFICES ASSUME SessionInv, HeldInv, [Next]_vars, NEW d \in Clients, holder' = d
               PROVE  pc'[d] \in Holding \union {"exception"}
    BY DEF HeldInv
  <1>1. CASE UNCHANGED vars
    BY <1>1 DEF vars, HeldInv
  <1>2. CASE Next
    <2>1. PICK c \in Clients : ClientStep(c)
      BY <1>2, NextIsOfAClient
    <2>2. Moves(c) /\ StepOf(c)
      BY <2>1, ClientStepMoves, ClientStepIsAStep
    <2>3. CASE d = c
      <3>1. \A l, m : <<l, m>> \in Onward => m \in Holding
        BY DEF Onward, Holding, Reading, Applying
      <3> QED BY <2>2, <2>3, <3>1 DEF Moves, Holding, Reading
    <2>4. CASE d # c
      <3>1. holder = d
        BY <2>2, <2>4, ClientsAssumption DEF Moves
      <3> QED BY <2>2, <2>4, <3>1 DEF StepOf, Frame, HeldInv
    <2> QED BY <2>3, <2>4
  <1> QED BY <1>1, <1>2

\* The handle of the control device is never left open: a client that has it is in a
\* session, in a probe, or in the dialog behind the message box of an exception.
THEOREM NoHandleIsLeftOpen == Spec => []HeldInv
  <1>1. Init => HeldInv
    BY ClientsAssumption DEF Init, HeldInv
  <1> QED BY <1>1, HeldStep, SessionInvariant, PTL DEF Spec

\* Client c has the device at a label, where it goes on by itself.
At(c, label) == holder = c /\ ~AwaitsUser(c) /\ pc[c] = label

\* Client c has the device at a label that comes next.
Ahead(c, l) == \E m \in Holding : <<l, m>> \in Onward /\ At(c, m)

\* It has given the device up, or the user does not act.
Idle(c) == holder # c \/ AwaitsUser(c)

\* The others leave client c where it is; it can only go onward, give up, or wait.
LEMMA AtStep ==
    ASSUME SessionInv, HeldInv, [Next]_vars, NEW c \in Clients, NEW l \in Holding, At(c, l)
    PROVE  Idle(c)' \/ At(c, l)' \/ Ahead(c, l)'
  <1>1. CASE UNCHANGED vars
    BY <1>1 DEF vars, At, AwaitsUser, Input
  <1>2. ASSUME NEW d \in Clients, ClientStep(d), d # c
        PROVE  At(c, l)'
    <2>1. StepOf(d)
      BY <1>2, ClientStepIsAStep
    <2>2. holder' = c /\ pc'[c] = pc[c] /\ stale'[c] = stale[c]
      BY <1>2, <2>1 DEF StepOf, Frame, At
    <2> QED BY <2>2 DEF At, AwaitsUser, Input
  <1>3. CASE ClientStep(c)
    <2>1. Moves(c)
      BY <1>3, ClientStepMoves
    <2>2. \A m : <<l, m>> \in Onward => m \in Holding
      BY DEF Onward, Holding, Reading, Applying
    <2>3. holder = c /\ pc[c] = l /\ holder # NoClient
      BY ClientsAssumption DEF At
    <2> QED BY <2>1, <2>2, <2>3 DEF Moves, At, Ahead, Idle, AwaitsUser
  <1> QED BY <1>1, <1>2, <1>3, NextIsOfAClient

\* A step of the program that has the device open takes it onward.
LEMMA HolderGoesOn ==
    ASSUME SessionInv, HeldInv, HolderStep, NEW c \in Clients, NEW l \in Holding, At(c, l)
    PROVE  Idle(c)' \/ Ahead(c, l)'
  <1>1. /\ OpenSession(c) \/ EndOfInput(c) \/ ApplyConfigurationChanges(c)
           \/ ProbeClose(c) \/ RefreshBox(c)
        /\ holder = c /\ pc[c] = l /\ TypeOK
    BY DEF HolderStep, At, SessionInv
  <1>2. CASE RefreshBox(c)
    BY <1>1, <1>2 DEF RefreshBox, TypeOK, Idle, AwaitsUser, Input
  <1>3. CASE ~RefreshBox(c)
    <2>1. /\ ClientStep(c)
          /\ l \notin {"open"}
          /\ l = "commands" => pc'[c] # l
      <3>1. CASE OpenSession(c)
        BY <1>1, <3>1 DEF ClientStep, OpenSession, GetActive, GetBlacklist, GetWhitelist,
               GetInverse, OwnEntry
      <3>2. CASE EndOfInput(c)
        BY <1>1, <3>2 DEF ClientStep, CommandLine, EndOfInput, TypeOK, GuiLabels, Guis, Reading
      <3>3. CASE ApplyConfigurationChanges(c)
        <4>1. pc[c] \in Applying
          BY <3>3 DEF ApplyConfigurationChanges, ApplyWhitelist, ApplyBlacklist, ApplyActive,
                 ApplyInverse, Apply, Applying
        <4>2. c \in CommandLines
          BY <1>1, <4>1 DEF TypeOK, GuiLabels, Guis, Reading, Applying
        <4> QED BY <1>1, <3>3, <4>1, <4>2 DEF ClientStep, CommandLine, Applying
      <3>4. CASE ProbeClose(c)
        <4>1. c \in Guis
          BY <1>1, <3>4 DEF ProbeClose, TypeOK, CommandLineLabels, Guis, Reading, Applying
        <4> QED BY <1>1, <3>4, <4>1 DEF ClientStep, Gui, ProbeClose
      <3> QED BY <1>1, <1>3, <3>1, <3>2, <3>3, <3>4
    <2>2. Moves(c)
      BY <2>1, ClientStepMoves
    <2>3. \A m : <<l, m>> \in Onward => m \in Holding
      BY DEF Onward, Holding, Reading, Applying
    <2>4. holder # NoClient
      BY <1>1, ClientsAssumption
    <2> QED BY <1>1, <2>1, <2>2, <2>3, <2>4 DEF Moves, At, Ahead, Idle, AwaitsUser
  <1> QED BY <1>2, <1>3

\* Fairness is of use: whenever the program that has the device open does not wait for its
\* user, some step of it can be taken.
HolderReady == \E c \in Clients : holder = c /\ ~AwaitsUser(c)
HolderCanGoOn == [](HolderReady => ENABLED <<HolderStep>>_vars)

\* Label by label; an open dialog and a probe have nothing ahead of them but the end.
LEMMA DeviceOfOneIsReleased ==
    ASSUME NEW c \in Clients
    PROVE  Spec /\ HolderCanGoOn => (holder = c ~> (holder # c \/ AwaitsUser(c)))
  <1>1. /\ Ahead(c, "readActive")' => At(c, "readBlacklist")'
        /\ Ahead(c, "readBlacklist")' => At(c, "readWhitelist")'
        /\ Ahead(c, "readWhitelist")' => At(c, "readInverse")'
        /\ Ahead(c, "readInverse")' => At(c, "own")'
        /\ Ahead(c, "own")' => At(c, "commands")' \/ At(c, "open")'
        /\ Ahead(c, "commands")' => At(c, "applyWhitelist")'
        /\ Ahead(c, "applyWhitelist")' => At(c, "applyBlacklist")'
        /\ Ahead(c, "applyBlacklist")' => At(c, "applyActive")'
        /\ Ahead(c, "applyActive")' => At(c, "applyInverse")'
        /\ ~Ahead(c, "applyInverse")'
        /\ ~Ahead(c, "open")'
        /\ ~Ahead(c, "probing")'
    BY DEF Ahead, Onward
  <1>2. /\ "readActive" \in Holding /\ "readBlacklist" \in Holding
        /\ "readWhitelist" \in Holding /\ "readInverse" \in Holding /\ "own" \in Holding
        /\ "commands" \in Holding /\ "open" \in Holding /\ "probing" \in Holding
        /\ "applyWhitelist" \in Holding /\ "applyBlacklist" \in Holding
        /\ "applyActive" \in Holding /\ "applyInverse" \in Holding
    BY DEF Holding, Reading, Applying
  <1>3. SessionInv /\ HeldInv /\ [Next]_vars =>
        /\ At(c, "readActive") => At(c, "readActive")' \/ At(c, "readBlacklist")' \/ Idle(c)'
        /\ At(c, "readBlacklist") =>
              At(c, "readBlacklist")' \/ At(c, "readWhitelist")' \/ Idle(c)'
        /\ At(c, "readWhitelist") => At(c, "readWhitelist")' \/ At(c, "readInverse")' \/ Idle(c)'
        /\ At(c, "readInverse") => At(c, "readInverse")' \/ At(c, "own")' \/ Idle(c)'
        /\ At(c, "own") => At(c, "own")' \/ At(c, "commands")' \/ At(c, "open")' \/ Idle(c)'
        /\ At(c, "commands") => At(c, "commands")' \/ At(c, "applyWhitelist")' \/ Idle(c)'
        /\ At(c, "applyWhitelist") =>
              At(c, "applyWhitelist")' \/ At(c, "applyBlacklist")' \/ Idle(c)'
        /\ At(c, "applyBlacklist") =>
              At(c, "applyBlacklist")' \/ At(c, "applyActive")' \/ Idle(c)'
        /\ At(c, "applyActive") => At(c, "applyActive")' \/ At(c, "applyInverse")' \/ Idle(c)'
        /\ At(c, "applyInverse") => At(c, "applyInverse")' \/ Idle(c)'
        /\ At(c, "open") => At(c, "open")' \/ Idle(c)'
        /\ At(c, "probing") => At(c, "probing")' \/ Idle(c)'
    BY <1>1, <1>2, AtStep
  <1>4. SessionInv /\ HeldInv /\ <<HolderStep>>_vars =>
        /\ At(c, "readActive") => At(c, "readBlacklist")' \/ Idle(c)'
        /\ At(c, "readBlacklist") => At(c, "readWhitelist")' \/ Idle(c)'
        /\ At(c, "readWhitelist") => At(c, "readInverse")' \/ Idle(c)'
        /\ At(c, "readInverse") => At(c, "own")' \/ Idle(c)'
        /\ At(c, "own") => At(c, "commands")' \/ At(c, "open")' \/ Idle(c)'
        /\ At(c, "commands") => At(c, "applyWhitelist")' \/ Idle(c)'
        /\ At(c, "applyWhitelist") => At(c, "applyBlacklist")' \/ Idle(c)'
        /\ At(c, "applyBlacklist") => At(c, "applyActive")' \/ Idle(c)'
        /\ At(c, "applyActive") => At(c, "applyInverse")' \/ Idle(c)'
        /\ At(c, "applyInverse") => Idle(c)'
        /\ At(c, "open") => Idle(c)'
        /\ At(c, "probing") => Idle(c)'
    BY <1>1, <1>2, HolderGoesOn
  <1>5. HeldInv /\ ~Idle(c) =>
        /\ HolderReady
        /\ \/ At(c, "readActive") \/ At(c, "readBlacklist") \/ At(c, "readWhitelist")
           \/ At(c, "readInverse") \/ At(c, "own") \/ At(c, "commands") \/ At(c, "open")
           \/ At(c, "applyWhitelist") \/ At(c, "applyBlacklist") \/ At(c, "applyActive")
           \/ At(c, "applyInverse") \/ At(c, "probing")
    BY DEF HeldInv, HolderReady, Idle, At, AwaitsUser, Holding, Reading, Applying
  <1>6. Idle(c) <=> holder # c \/ AwaitsUser(c)
    BY DEF Idle
  <1> QED BY <1>3, <1>4, <1>5, <1>6, SessionInvariant, NoHandleIsLeftOpen, PTL
          DEF Spec, Fairness, HolderCanGoOn

\* The control device, which only one program can have open (ControlDevice.c:39), comes free
\* again: for any number of clients, whichever requests are refused and whoever is killed,
\* the program that has it open closes it, unless it is its user's turn.
THEOREM DeviceIsReleased == Spec /\ HolderCanGoOn => DeviceReleased
  BY DeviceOfOneIsReleased DEF DeviceReleased
================================================================================
