------------------------- MODULE DiagnosticsTraceProofs -------------------------
(***************************************************************************)
(* Proofs about DiagnosticsTrace, for any number of capture files and      *)
(* downloads, any scopes, and whichever calls may fail.                    *)
(***************************************************************************)
EXTENDS DiagnosticsTrace, TLAPS

Starts == {"tune", "start", "enable", "abort"}
Restores == {"undo", "restore", "discard"}

\* Where the call that holds the mutex may be, given what the service has recorded.
PhaseInv ==
    /\ pc \in Starts \union {"undo"} => state = "Idle"
    /\ pc \in {"enable", "abort"} => handle
    /\ pc \in {"restore", "discard"} => state # "Idle" /\ ~handle
    /\ pc = "delete" => state # "Recording"
    /\ state = "Recording" /\ pc = "free" => handle
    /\ state = "Ready" => ~handle
    /\ pc \in Restores \union {"tune"} => todo # <<>>
    /\ pc = "tune" => tune
    /\ pc \in {"start", "enable", "abort"} \/ state = "Recording" => didTune = tune

\* The service's path, the session's and those of the downloads.
PathInv ==
    /\ state # "Idle" \/ pc \in Starts => path \in Files
    /\ pc \in {"tune", "start"} =>
          path # session /\ \A g \in Getters : get[g].file # path
    /\ pc \in {"enable", "abort"} \/ (state = "Recording" /\ pc = "free") =>
          session = path /\ path \in files
    /\ state = "Ready" \/ pc \in {"restore", "discard"} => session # path
    /\ \A g \in Getters :
          get[g].pc # "idle" => get[g].file \in Files /\ get[g].file # session

\* What is changed in Windows and not yet restored, and why.
AccountInv ==
    /\ pc \in Starts \/ (state = "Recording" /\ pc = "free") =>
          tuned \subseteq lost \union (IF tune THEN ToSet(ScopeChannels(scope)) ELSE {})
    /\ pc = "tune" => ToSet(todo) \subseteq ToSet(ScopeChannels(scope))
    /\ pc \in Restores => tuned \subseteq lost \union ToSet(todo)
    /\ pc = "delete" \/ (state # "Recording" /\ pc = "free") => tuned \subseteq lost
    /\ handle /\ state # "Recording" /\ pc \notin {"enable", "abort"} =>
          "session" \in lost

TraceInv == TypeOK /\ PhaseInv /\ PathInv /\ AccountInv

--------------------------------------------------------------------------------
(* The channels *)

\* Every scope has at least one channel.
LEMMA ScopeHasChannels ==
    ASSUME NEW sc \in {"Full", "Driver", "Userspace"}
    PROVE  ScopeChannels(sc) \in Seq(Channels) /\ ScopeChannels(sc) # <<>>
<1>1. ASSUME NEW a \in Channels PROVE <<a>> \in Seq(Channels) /\ <<a>> # <<>>
  BY <1>1, SMT
<1>2. ASSUME NEW a \in Channels, NEW b \in Channels
      PROVE  <<a, b>> \in Seq(Channels) /\ <<a, b>> # <<>>
  BY <1>2, SMT
<1>3. ASSUME NEW a \in Channels, NEW b \in Channels, NEW c \in Channels
      PROVE  <<a, b, c>> \in Seq(Channels) /\ <<a, b, c>> # <<>>
  BY <1>3, SMT
<1>4. CASE sc = "Full"
  <2>1. ScopeChannels(sc) = <<"driver", "client", "cli">>
    BY <1>4 DEF ScopeChannels
  <2>. QED  BY <1>3, <2>1, Zenon DEF Channels
<1>5. CASE sc = "Driver"
  <2>1. ScopeChannels(sc) = <<"driver">>
    BY <1>5 DEF ScopeChannels
  <2>. QED  BY <1>1, <2>1, Zenon DEF Channels
<1>6. CASE sc = "Userspace"
  <2>1. ScopeChannels(sc) = <<"client", "cli">>
    BY <1>6 DEF ScopeChannels
  <2>. QED  BY <1>2, <2>1, Zenon DEF Channels
<1>. QED  BY <1>4, <1>5, <1>6

\* So has the scope of the service.
LEMMA ServiceHasChannels ==
    TypeOK => ScopeChannels(scope) \in Seq(Channels) /\ ScopeChannels(scope) # <<>>
BY TraceAssumption, ScopeHasChannels DEF TypeOK

\* The channels of a sequence are its first and those of the rest.
LEMMA HeadAndTail ==
    ASSUME NEW s \in Seq(Channels), s # <<>>
    PROVE  /\ Head(s) \in Channels
           /\ Tail(s) \in Seq(Channels)
           /\ ToSet(s) = {Head(s)} \union ToSet(Tail(s))
           /\ Len(s) = 1 <=> Tail(s) = <<>>
<1>1. Head(s) \in Channels /\ Tail(s) \in Seq(Channels)
  BY SMT
<1>2. Len(s) \in Nat \ {0} /\ DOMAIN s = 1 .. Len(s) /\ Head(s) = s[1]
  BY SMT
<1>3. /\ Len(Tail(s)) = Len(s) - 1
      /\ DOMAIN Tail(s) = 1 .. Len(s) - 1
      /\ \A i \in 1 .. Len(s) - 1 : Tail(s)[i] = s[i + 1]
  BY SMT
<1>4. ToSet(s) = {Head(s)} \union ToSet(Tail(s))
  <2>1. ASSUME NEW x \in ToSet(s) PROVE x = Head(s) \/ x \in ToSet(Tail(s))
    <3>1. PICK i \in 1 .. Len(s) : x = s[i]
      BY <1>2, <2>1, SMT DEF ToSet
    <3>2. CASE i = 1
      BY <1>2, <3>1, <3>2, SMT
    <3>3. CASE i # 1
      <4>1. i - 1 \in 1 .. Len(s) - 1 /\ Tail(s)[i - 1] = x
        BY <1>2, <1>3, <3>1, <3>3, SMT
      <4>2. i - 1 \in DOMAIN Tail(s)
        BY <1>3, <4>1, SMT
      <4>. QED  BY <4>1, <4>2, Zenon DEF ToSet
    <3>. QED  BY <3>2, <3>3
  <2>2. Head(s) \in ToSet(s)
    BY <1>2, SMT DEF ToSet
  <2>3. ASSUME NEW x \in ToSet(Tail(s)) PROVE x \in ToSet(s)
    <3>1. PICK i \in 1 .. Len(s) - 1 : x = Tail(s)[i]
      BY <1>3, <2>3, SMT DEF ToSet
    <3>2. i + 1 \in 1 .. Len(s) /\ s[i + 1] = x
      BY <1>2, <1>3, <3>1, SMT
    <3>. QED  BY <1>2, <3>2, SMT DEF ToSet
  <2>. QED  BY <2>1, <2>2, <2>3
<1>5. Len(s) = 1 <=> Tail(s) = <<>>
  BY <1>1, <1>2, <1>3, SMT
<1>. QED  BY <1>1, <1>4, <1>5

\* No channel is left of an empty sequence.
LEMMA NoChannelLeft == ToSet(<<>>) = {}
BY SMT DEF ToSet

\* Restoring one channel takes it off the account.
LEMMA ChannelRestored ==
    ASSUME TypeOK, todo # <<>>, tuned \subseteq lost \union ToSet(todo), RestoreChannel
    PROVE  /\ todo' \in Seq(Channels)
           /\ tuned' \subseteq Channels
           /\ lost' \subseteq Channels \union {"session"}
           /\ tuned' \subseteq lost' \union ToSet(todo')
           /\ "session" \in lost => "session" \in lost'
           /\ Len(todo) # 1 => todo' # <<>>
           /\ Len(todo) = 1 => tuned' \subseteq lost'
<1>1. todo \in Seq(Channels)
  BY DEF TypeOK
<1>2. todo' = Tail(todo) /\ tuned' = tuned \ {Head(todo)} /\ lost' = lost \ {Head(todo)}
  BY DEF RestoreChannel
<1>3. tuned' \subseteq lost' \union ToSet(todo')
  BY <1>1, <1>2, HeadAndTail
<1>4. Len(todo) = 1 => tuned' \subseteq lost'
  BY <1>1, <1>2, <1>3, HeadAndTail, NoChannelLeft
<1>5. "session" \in lost => "session" \in lost'
  BY <1>1, <1>2, HeadAndTail, SMT DEF Channels
<1>6. tuned' \subseteq Channels /\ lost' \subseteq Channels \union {"session"}
  BY <1>2 DEF TypeOK
<1>. QED  BY <1>1, <1>2, <1>3, <1>4, <1>5, <1>6, HeadAndTail

--------------------------------------------------------------------------------
(* The invariant *)

\* Nothing is downloaded, and no channel is to do.
LEMMA AtRest == NoDownload \in [Getters -> Progress] /\ <<>> \in Seq(Channels)
<1>1. NoDownload \in [Getters -> Progress]
  BY SMT DEF NoDownload, Progress
<1>2. <<>> \in Seq(Channels)
  BY SMT
<1>. QED  BY <1>1, <1>2

\* The initial state has nothing to account for.
LEMMA InitTrace == Init => TraceInv
<1>. SUFFICES ASSUME Init PROVE TraceInv
  OBVIOUS
<1>1. TypeOK
  <2>1. todo \in Seq(Channels) /\ get \in [Getters -> Progress]
    BY AtRest DEF Init
  <2>. QED  BY <2>1 DEF Init, TypeOK
<1>2. PhaseInv
  BY SMT DEF Init, PhaseInv, Starts, Restores
<1>3. PathInv
  BY SMT DEF Init, PathInv, Starts, NoDownload
<1>4. AccountInv
  BY SMT DEF Init, AccountInv, Starts, Restores
<1>. QED  BY <1>1, <1>2, <1>3, <1>4 DEF TraceInv

\* Exit keeps the invariant: what is tuned is on the account of the exit.
LEMMA ExitKeeps == TraceInv /\ Exit => TraceInv'
<1>. SUFFICES ASSUME TraceInv, Exit PROVE TraceInv'
  OBVIOUS
<1>1. TypeOK'
  <2>1. todo' \in Seq(Channels) /\ get' \in [Getters -> Progress]
    BY AtRest DEF Exit
  <2>. QED  BY <2>1 DEF Exit, TraceInv, TypeOK
<1>2. PhaseInv'
  BY SMT DEF Exit, PhaseInv, Starts, Restores
<1>3. PathInv'
  BY SMT DEF Exit, PathInv, Starts, NoDownload
<1>4. AccountInv'
  BY SMT DEF Exit, AccountInv, Starts, Restores
<1>. QED  BY <1>1, <1>2, <1>3, <1>4 DEF TraceInv

\* Start: the new path is nobody else's, and nothing is tuned before it.
LEMMA StartKeeps ==
    ASSUME TraceInv, NEW sc \in Scopes, NEW tn \in BOOLEAN, Start(sc, tn)
    PROVE  TraceInv'
<1>. USE DEF TraceInv
<1>c. ScopeChannels(sc) \in Seq(Channels) /\ ScopeChannels(sc) # <<>>
  BY TraceAssumption, ScopeHasChannels
<1>p. path' \in Files
  BY DEF Start, MakeUniqueEtlPath
<1>t. todo' \in Seq(Channels)
  BY <1>c, AtRest DEF Start
<1>1. TypeOK'
  BY <1>p, <1>t DEF Start, TypeOK
<1>2. PhaseInv'
  <2>1. /\ pc' = "tune" => tune' /\ todo' # <<>>
        /\ pc' = "start" => didTune' = tune'
        /\ pc' \in {"tune", "start"} /\ state' = "Idle"
    BY <1>c DEF Start
  <2>. QED  BY <2>1, Zenon DEF PhaseInv, Starts, Restores
<1>3. PathInv'
  BY TraceAssumption, SMT
  DEF Start, MakeUniqueEtlPath, TypeOK, PhaseInv, PathInv, Starts, Restores
<1>4. AccountInv'
  <2>1. tuned \subseteq lost
    BY DEF Start, TypeOK, AccountInv
  <2>2. handle => "session" \in lost
    BY SMT DEF Start, AccountInv
  <2>. QED  BY <2>1, <2>2, SMT DEF Start, AccountInv, Starts, Restores
<1>. QED  BY <1>1, <1>2, <1>3, <1>4

\* One channel more is tuned, and one less is to do.
LEMMA TuneChannelKeeps == TraceInv /\ TuneChannel => TraceInv'
<1>. SUFFICES ASSUME TraceInv, TuneChannel PROVE TraceInv'
  OBVIOUS
<1>. USE DEF TraceInv
<1>h. /\ todo \in Seq(Channels) /\ todo # <<>> /\ Head(todo) \in Channels
      /\ todo' = Tail(todo) /\ todo' \in Seq(Channels)
      /\ ToSet(todo) = {Head(todo)} \union ToSet(todo')
      /\ Len(todo) # 1 => todo' # <<>>
  BY HeadAndTail DEF TuneChannel, TypeOK, PhaseInv, Restores
<1>1. TypeOK'
  BY <1>h DEF TuneChannel, TypeOK
<1>2. PhaseInv'
  <2>1. /\ pc' = "tune" => todo' # <<>>
        /\ pc' = "start" => didTune' = tune'
        /\ pc' \in {"tune", "start"} /\ state' = "Idle" /\ tune'
    BY <1>h DEF TuneChannel, TypeOK, PhaseInv, Starts
  <2>. QED  BY <2>1, Zenon DEF PhaseInv, Starts, Restores
<1>3. PathInv'
  BY TraceAssumption, SMT DEF TuneChannel, TypeOK, PhaseInv, PathInv, Starts, Restores
<1>4. AccountInv'
  <2>1. /\ tuned' = tuned \union {Head(todo)}
        /\ tuned \subseteq lost \union ToSet(ScopeChannels(scope))
        /\ ToSet(todo) \subseteq ToSet(ScopeChannels(scope))
    BY DEF TuneChannel, PhaseInv, AccountInv, Starts
  <2>2. /\ tuned' \subseteq lost \union ToSet(ScopeChannels(scope))
        /\ ToSet(todo') \subseteq ToSet(ScopeChannels(scope))
    BY <1>h, <2>1
  <2>. QED  BY <2>2, SMT DEF TuneChannel, PhaseInv, AccountInv, Starts, Restores
<1>. QED  BY <1>1, <1>2, <1>3, <1>4

\* What was tuned before the failure goes on the account.
LEMMA TuneFailsKeeps == TraceInv /\ TuneFails => TraceInv'
<1>. SUFFICES ASSUME TraceInv, TuneFails PROVE TraceInv'
  OBVIOUS
<1>. USE DEF TraceInv
<1>1. TypeOK'
  BY SMT DEF TuneFails, TypeOK, PhaseInv, Starts, Restores
<1>2. PhaseInv'
  BY SMT DEF TuneFails, TypeOK, PhaseInv, Starts, Restores
<1>3. PathInv'
  BY TraceAssumption, SMT DEF TuneFails, TypeOK, PhaseInv, PathInv, Starts, Restores
<1>4. AccountInv'
  BY SMT DEF TuneFails, TypeOK, PhaseInv, AccountInv, Starts, Restores
<1>. QED  BY <1>1, <1>2, <1>3, <1>4

\* The session records into the path that no download knows.
LEMMA StartTraceKeeps == TraceInv /\ StartTrace => TraceInv'
<1>. SUFFICES ASSUME TraceInv, StartTrace PROVE TraceInv'
  OBVIOUS
<1>. USE DEF TraceInv
<1>1. TypeOK'
  BY DEF StartTrace, TypeOK, PathInv, Starts
<1>2. PhaseInv'
  BY SMT DEF StartTrace, TypeOK, PhaseInv, Starts, Restores
<1>3. PathInv'
  BY TraceAssumption, SMT DEF StartTrace, TypeOK, PhaseInv, PathInv, Starts, Restores
<1>4. AccountInv'
  BY SMT DEF StartTrace, TypeOK, PhaseInv, AccountInv, Starts, Restores
<1>. QED  BY <1>1, <1>2, <1>3, <1>4

\* No session is started; the channels are to be restored if they were tuned.
LEMMA StartTraceFailsKeeps == TraceInv /\ StartTraceFails => TraceInv'
<1>. SUFFICES ASSUME TraceInv, StartTraceFails PROVE TraceInv'
  OBVIOUS
<1>. USE DEF TraceInv
<1>c. ScopeChannels(scope) \in Seq(Channels) /\ ScopeChannels(scope) # <<>>
  BY ServiceHasChannels
<1>1. TypeOK'
  BY <1>c DEF StartTraceFails, TraceFailed, TypeOK
<1>2. PhaseInv'
  BY <1>c, SMT DEF StartTraceFails, TraceFailed, TypeOK, PhaseInv, Starts, Restores
<1>3. PathInv'
  BY TraceAssumption, SMT
  DEF StartTraceFails, TraceFailed, TypeOK, PhaseInv, PathInv, Starts, Restores
<1>4. AccountInv'
  BY SMT
  DEF StartTraceFails, TraceFailed, TypeOK, PhaseInv, AccountInv, Starts, Restores
<1>. QED  BY <1>1, <1>2, <1>3, <1>4

\* Recording starts with the handle and the session at the path.
LEMMA EnableProvidersKeeps == TraceInv /\ EnableProviders => TraceInv'
<1>. SUFFICES ASSUME TraceInv, EnableProviders PROVE TraceInv'
  OBVIOUS
<1>. USE DEF TraceInv
<1>1. TypeOK'
  BY SMT DEF EnableProviders, TypeOK, PhaseInv, Starts, Restores
<1>2. PhaseInv'
  BY SMT DEF EnableProviders, TypeOK, PhaseInv, Starts, Restores
<1>3. PathInv'
  BY TraceAssumption, SMT
  DEF EnableProviders, TypeOK, PhaseInv, PathInv, Starts, Restores
<1>4. AccountInv'
  BY SMT DEF EnableProviders, TypeOK, PhaseInv, AccountInv, Starts, Restores
<1>. QED  BY <1>1, <1>2, <1>3, <1>4

\* The session is to be stopped again.
LEMMA EnableProviderFailsKeeps == TraceInv /\ EnableProviderFails => TraceInv'
<1>. SUFFICES ASSUME TraceInv, EnableProviderFails PROVE TraceInv'
  OBVIOUS
<1>. USE DEF TraceInv
<1>1. TypeOK'
  BY SMT DEF EnableProviderFails, service, TypeOK, PhaseInv, Starts, Restores
<1>2. PhaseInv'
  BY SMT DEF EnableProviderFails, service, TypeOK, PhaseInv, Starts, Restores
<1>3. PathInv'
  BY TraceAssumption, SMT
  DEF EnableProviderFails, service, TypeOK, PhaseInv, PathInv, Starts, Restores
<1>4. AccountInv'
  BY SMT
  DEF EnableProviderFails, service, TypeOK, PhaseInv, AccountInv, Starts, Restores
<1>. QED  BY <1>1, <1>2, <1>3, <1>4

\* The session is stopped, and the channels are to be restored.
LEMMA AbortTraceKeeps == TraceInv /\ AbortTrace => TraceInv'
<1>. SUFFICES ASSUME TraceInv, AbortTrace PROVE TraceInv'
  OBVIOUS
<1>. USE DEF TraceInv
<1>c. ScopeChannels(scope) \in Seq(Channels) /\ ScopeChannels(scope) # <<>>
  BY ServiceHasChannels
<1>1. TypeOK'
  BY <1>c DEF AbortTrace, StopTrace, TraceFailed, TypeOK
<1>2. PhaseInv'
  BY <1>c, SMT
  DEF AbortTrace, StopTrace, TraceFailed, TypeOK, PhaseInv, Starts, Restores
<1>3. PathInv'
  BY TraceAssumption, SMT
  DEF AbortTrace, StopTrace, TraceFailed, TypeOK, PhaseInv, PathInv, Starts, Restores
<1>4. AccountInv'
  BY SMT
  DEF AbortTrace, StopTrace, TraceFailed, TypeOK, PhaseInv, AccountInv, Channels,
      Starts, Restores
<1>. QED  BY <1>1, <1>2, <1>3, <1>4

\* A session that cannot be stopped goes on the account.
LEMMA AbortTraceFailsKeeps == TraceInv /\ AbortTraceFails => TraceInv'
<1>. SUFFICES ASSUME TraceInv, AbortTraceFails PROVE TraceInv'
  OBVIOUS
<1>. USE DEF TraceInv
<1>c. ScopeChannels(scope) \in Seq(Channels) /\ ScopeChannels(scope) # <<>>
  BY ServiceHasChannels
<1>1. TypeOK'
  BY <1>c DEF AbortTraceFails, TraceFailed, TypeOK
<1>2. PhaseInv'
  BY <1>c, SMT DEF AbortTraceFails, TraceFailed, TypeOK, PhaseInv, Starts, Restores
<1>3. PathInv'
  BY TraceAssumption, SMT
  DEF AbortTraceFails, TraceFailed, TypeOK, PhaseInv, PathInv, Starts, Restores
<1>4. AccountInv'
  BY SMT
  DEF AbortTraceFails, TraceFailed, TypeOK, PhaseInv, AccountInv, Starts, Restores
<1>. QED  BY <1>1, <1>2, <1>3, <1>4

\* Channels restored in Start: what is left is still to do.
LEMMA RestoreAfterFailedStartKeeps == TraceInv /\ RestoreAfterFailedStart => TraceInv'
<1>. SUFFICES ASSUME TraceInv, RestoreAfterFailedStart PROVE TraceInv'
  OBVIOUS
<1>. USE DEF TraceInv
<1>r. /\ todo' \in Seq(Channels) /\ tuned' \subseteq Channels
      /\ lost' \subseteq Channels \union {"session"}
      /\ Len(todo) # 1 => todo' # <<>>
  BY ChannelRestored DEF RestoreAfterFailedStart, PhaseInv, AccountInv, Restores
<1>1. TypeOK'
  BY <1>r DEF RestoreAfterFailedStart, TypeOK, RestoreChannel
<1>2. PhaseInv'
  BY <1>r, SMT DEF RestoreAfterFailedStart, TypeOK, PhaseInv, Starts, Restores
<1>3. PathInv'
  BY TraceAssumption, SMT
  DEF RestoreAfterFailedStart, TypeOK, PhaseInv, PathInv, Starts, Restores
<1>4. AccountInv'
  BY ChannelRestored, SMT
  DEF RestoreAfterFailedStart, TypeOK, PhaseInv, AccountInv, Starts, Restores
<1>. QED  BY <1>1, <1>2, <1>3, <1>4

\* Channels restored in Stop.
LEMMA RestoreAfterStopKeeps == TraceInv /\ RestoreAfterStop => TraceInv'
<1>. SUFFICES ASSUME TraceInv, RestoreAfterStop PROVE TraceInv'
  OBVIOUS
<1>. USE DEF TraceInv
<1>r. /\ todo' \in Seq(Channels) /\ tuned' \subseteq Channels
      /\ lost' \subseteq Channels \union {"session"}
      /\ Len(todo) # 1 => todo' # <<>>
  BY ChannelRestored DEF RestoreAfterStop, PhaseInv, AccountInv, Restores
<1>1. TypeOK'
  BY <1>r DEF RestoreAfterStop, TypeOK, RestoreChannel
<1>2. PhaseInv'
  BY <1>r, SMT DEF RestoreAfterStop, TypeOK, PhaseInv, Starts, Restores
<1>3. PathInv'
  BY TraceAssumption, SMT
  DEF RestoreAfterStop, TypeOK, PhaseInv, PathInv, Starts, Restores
<1>4. AccountInv'
  BY ChannelRestored, SMT
  DEF RestoreAfterStop, TypeOK, PhaseInv, AccountInv, Starts, Restores
<1>. QED  BY <1>1, <1>2, <1>3, <1>4

\* Channels restored in DiscardCapture.
LEMMA RestoreBeforeDiscardKeeps == TraceInv /\ RestoreBeforeDiscard => TraceInv'
<1>. SUFFICES ASSUME TraceInv, RestoreBeforeDiscard PROVE TraceInv'
  OBVIOUS
<1>. USE DEF TraceInv
<1>r. /\ todo' \in Seq(Channels) /\ tuned' \subseteq Channels
      /\ lost' \subseteq Channels \union {"session"}
      /\ Len(todo) # 1 => todo' # <<>>
  BY ChannelRestored DEF RestoreBeforeDiscard, PhaseInv, AccountInv, Restores
<1>1. TypeOK'
  BY <1>r DEF RestoreBeforeDiscard, OutOfRecording, TypeOK, RestoreChannel
<1>2. PhaseInv'
  BY <1>r, SMT
  DEF RestoreBeforeDiscard, OutOfRecording, TypeOK, PhaseInv, Starts, Restores
<1>3. PathInv'
  BY TraceAssumption, SMT
  DEF RestoreBeforeDiscard, OutOfRecording, TypeOK, PhaseInv, PathInv, Starts,
      Restores
<1>4. AccountInv'
  BY ChannelRestored, SMT
  DEF RestoreBeforeDiscard, OutOfRecording, TypeOK, PhaseInv, AccountInv, Starts,
      Restores
<1>. QED  BY <1>1, <1>2, <1>3, <1>4

\* What cannot be restored goes on the account.
LEMMA RestoreFailsKeeps == TraceInv /\ RestoreFails => TraceInv'
<1>. SUFFICES ASSUME TraceInv, RestoreFails PROVE TraceInv'
  OBVIOUS
<1>. USE DEF TraceInv
<1>1. TypeOK'
  BY SMT DEF RestoreFails, TypeOK, PhaseInv, Starts, Restores
<1>2. PhaseInv'
  BY SMT DEF RestoreFails, TypeOK, PhaseInv, Starts, Restores
<1>3. PathInv'
  BY TraceAssumption, SMT
  DEF RestoreFails, TypeOK, PhaseInv, PathInv, Starts, Restores
<1>4. AccountInv'
  BY SMT DEF RestoreFails, TypeOK, PhaseInv, AccountInv, Starts, Restores
<1>. QED  BY <1>1, <1>2, <1>3, <1>4

\* Stop: no session is left, and all channels are to be restored.
LEMMA StopKeeps == TraceInv /\ Stop => TraceInv'
<1>. SUFFICES ASSUME TraceInv, Stop PROVE TraceInv'
  OBVIOUS
<1>. USE DEF TraceInv
<1>c. ScopeChannels(scope) \in Seq(Channels) /\ ScopeChannels(scope) # <<>>
  BY ServiceHasChannels
<1>1. TypeOK'
  BY <1>c DEF Stop, StopTrace, Restoring, TypeOK
<1>2. PhaseInv'
  BY <1>c, SMT DEF Stop, StopTrace, Restoring, TypeOK, PhaseInv, Starts, Restores
<1>3. PathInv'
  BY TraceAssumption, SMT
  DEF Stop, StopTrace, Restoring, TypeOK, PhaseInv, PathInv, Starts, Restores
<1>4. AccountInv'
  BY SMT
  DEF Stop, StopTrace, Restoring, TypeOK, PhaseInv, AccountInv, Channels, Starts,
      Restores
<1>. QED  BY <1>1, <1>2, <1>3, <1>4

\* DiscardCapture: likewise, from whichever state it is asked for.
LEMMA DiscardKeeps == TraceInv /\ Discard => TraceInv'
<1>. SUFFICES ASSUME TraceInv, Discard PROVE TraceInv'
  OBVIOUS
<1>. USE DEF TraceInv
<1>c. ScopeChannels(scope) \in Seq(Channels) /\ ScopeChannels(scope) # <<>>
  BY ServiceHasChannels
<1>1. TypeOK'
  BY <1>c DEF Discard, StopTrace, Restoring, OutOfRecording, TypeOK
<1>2. PhaseInv'
  BY <1>c, SMT
  DEF Discard, StopTrace, Restoring, OutOfRecording, TypeOK, PhaseInv, Starts,
      Restores
<1>3. PathInv'
  BY TraceAssumption, SMT
  DEF Discard, StopTrace, Restoring, OutOfRecording, TypeOK, PhaseInv, PathInv,
      Starts, Restores
<1>4. AccountInv'
  BY SMT
  DEF Discard, StopTrace, Restoring, OutOfRecording, TypeOK, PhaseInv, AccountInv,
      Channels, Starts, Restores
<1>. QED  BY <1>1, <1>2, <1>3, <1>4

\* The capture and its path are gone.
LEMMA DeleteCaptureKeeps == TraceInv /\ DeleteCapture => TraceInv'
<1>. SUFFICES ASSUME TraceInv, DeleteCapture PROVE TraceInv'
  OBVIOUS
<1>. USE DEF TraceInv
<1>1. TypeOK'
  BY DEF DeleteCapture, TypeOK
<1>2. PhaseInv'
  BY SMT DEF DeleteCapture, TypeOK, PhaseInv, Starts, Restores
<1>3. PathInv'
  BY TraceAssumption, SMT
  DEF DeleteCapture, TypeOK, PhaseInv, PathInv, Starts, Restores
<1>4. AccountInv'
  BY SMT DEF DeleteCapture, TypeOK, PhaseInv, AccountInv, Starts, Restores
<1>. QED  BY <1>1, <1>2, <1>3, <1>4

\* A capture that cannot be deleted stays.
LEMMA DeleteCaptureFailsKeeps == TraceInv /\ DeleteCaptureFails => TraceInv'
<1>. SUFFICES ASSUME TraceInv, DeleteCaptureFails PROVE TraceInv'
  OBVIOUS
<1>. USE DEF TraceInv
<1>1. TypeOK'
  BY SMT DEF DeleteCaptureFails, service, TypeOK, PhaseInv, Starts, Restores
<1>2. PhaseInv'
  BY SMT DEF DeleteCaptureFails, service, TypeOK, PhaseInv, Starts, Restores
<1>3. PathInv'
  BY TraceAssumption, SMT
  DEF DeleteCaptureFails, service, TypeOK, PhaseInv, PathInv, Starts, Restores
<1>4. AccountInv'
  BY SMT
  DEF DeleteCaptureFails, service, TypeOK, PhaseInv, AccountInv, Starts, Restores
<1>. QED  BY <1>1, <1>2, <1>3, <1>4

\* A download takes the path of a complete capture only.
LEMMA DownloadKeeps == TraceInv /\ Download => TraceInv'
<1>. SUFFICES ASSUME TraceInv, Download PROVE TraceInv'
  OBVIOUS
<1>. USE DEF TraceInv
<1>g. get' \in [Getters -> Progress]
  <2>1. PICK g \in Getters : GetEtlPathForDownload(g) \/ OpenEtl(g) \/ Served(g)
    BY DEF Download
  <2>2. get \in [Getters -> Progress] /\ get[g] \in Progress
    BY DEF TypeOK
  <2>3. ASSUME NEW s \in {"idle", "path", "open"}, NEW f \in Files \union {NoFile}
        PROVE  [get EXCEPT ![g] = [pc |-> s, file |-> f]] \in [Getters -> Progress]
    BY <2>2, SMT DEF Progress
  <2>4. get[g].file \in Files \union {NoFile} /\ path \in Files \union {NoFile}
    BY <2>2 DEF TypeOK, Progress
  <2>5. CASE GetEtlPathForDownload(g)
    BY <2>3, <2>4, <2>5, Zenon DEF GetEtlPathForDownload
  <2>6. CASE OpenEtl(g)
    BY <2>3, <2>4, <2>6, Zenon DEF OpenEtl
  <2>7. CASE Served(g)
    BY <2>3, <2>7, Zenon DEF Served
  <2>. QED  BY <2>1, <2>5, <2>6, <2>7
<1>1. TypeOK'
  BY <1>g
  DEF Download, GetEtlPathForDownload, OpenEtl, Served, getFrame, service, TypeOK
<1>2. PhaseInv'
  BY SMT
  DEF Download, GetEtlPathForDownload, OpenEtl, Served, getFrame, service, TypeOK,
      PhaseInv, Starts, Restores
<1>3. PathInv'
  BY TraceAssumption, SMT
  DEF Download, GetEtlPathForDownload, OpenEtl, Served, getFrame, service, TypeOK,
      PhaseInv, PathInv, Starts, Restores
<1>4. AccountInv'
  BY SMT
  DEF Download, GetEtlPathForDownload, OpenEtl, Served, getFrame, service, TypeOK,
      PhaseInv, AccountInv, Starts, Restores
<1>. QED  BY <1>1, <1>2, <1>3, <1>4

\* A step that changes no variable.
LEMMA StutterKeeps == TraceInv /\ UNCHANGED vars => TraceInv'
BY
  DEF TraceInv, TypeOK, PhaseInv, PathInv, AccountInv, Starts, Restores, vars, service

--------------------------------------------------------------------------------
(* The theorems *)

\* The invariant holds in every state of every behaviour.
THEOREM TraceInvariant == Spec => []TraceInv
<1>1. TraceInv /\ [Next]_vars => TraceInv'
  BY StartKeeps, TuneChannelKeeps, TuneFailsKeeps, StartTraceKeeps,
     StartTraceFailsKeeps, EnableProvidersKeeps, EnableProviderFailsKeeps,
     AbortTraceKeeps, AbortTraceFailsKeeps, RestoreAfterFailedStartKeeps,
     RestoreAfterStopKeeps, RestoreBeforeDiscardKeeps, RestoreFailsKeeps, StopKeeps,
     DiscardKeeps, DeleteCaptureKeeps, DeleteCaptureFailsKeeps, DownloadKeeps,
     ExitKeeps, StutterKeeps
  DEF Next, Starting, Ending
<1>. QED  BY <1>1, InitTrace, PTL DEF Spec

\* The channels that are still to do, the paths and the progress of the downloads
\* keep their types, with any step failing and an exit at any of them.
THEOREM TraceTypeCorrect == Spec => []TypeOK
<1>1. TraceInv => TypeOK
  BY DEF TraceInv
<1>. QED  BY <1>1, TraceInvariant, PTL

\* No download serves a file that is being recorded (HandleGetEtl opens the file
\* after GetEtlPathForDownload has released the mutex).
THEOREM DownloadsComplete == Spec => []DownloadsAreComplete
<1>1. TraceInv => DownloadsAreComplete
  BY DEF TraceInv, PathInv, DownloadsAreComplete
<1>. QED  BY <1>1, TraceInvariant, PTL

\* A capture that is offered is not recorded any more, whatever failed while it was
\* stopped (Stop, DiscardCapture).
THEOREM ReadyComplete == Spec => []ReadyIsComplete
<1>1. TraceInv => ReadyIsComplete
  BY DEF TraceInv, PhaseInv, PathInv, ReadyIsComplete
<1>. QED  BY <1>1, TraceInvariant, PTL

\* A service that says that it records has the kernel record into its file (Start).
THEOREM RecordingLive == Spec => []RecordingIsLive
<1>1. TraceInv => RecordingIsLive
  BY DEF TraceInv, PhaseInv, PathInv, RecordingIsLive
<1>. QED  BY <1>1, TraceInvariant, PTL

\* Between two calls, every channel that is not at its default and a session that is
\* still held are those of the recording, or of a failed step or an exit.
THEOREM NothingUnaccounted == Spec => []NothingLeftBehind
<1>1. TraceInv => NothingLeftBehind
  BY DEF TraceInv, PhaseInv, AccountInv, NothingLeftBehind, Starts, Restores
<1>. QED  BY <1>1, TraceInvariant, PTL

================================================================================
