------------------------------ MODULE DiagnosticsTrace ------------------------------
(***************************************************************************)
(* The capture of diagnostics that the watchdog offers over HTTP           *)
(* (Watchdog/DiagnosticsTraceService.cpp, EtwTraceSession.cpp,             *)
(* DiagnosticsTraceHandler.cpp). Start, Stop and DiscardCapture hold the   *)
(* mutex from begin to end, but each is a sequence of calls to Windows     *)
(* that may fail, and the process may end between any two of them. What    *)
(* Windows keeps (the kernel trace session, the capture files, the         *)
(* settings of the event channels) survives it. A download uses the path   *)
(* it was given after the mutex has been released.                         *)
(*                                                                         *)
(* A call that is refused, or fails before it changed anything, does       *)
(* nothing and is not a step.                                              *)
(***************************************************************************)
EXTENDS Naturals, Sequences, SequencesExt

CONSTANTS
    Files,    \* paths of capture files
    NoFile,   \* no path
    Getters,  \* threads of the HTTP server that serve downloads
    Scopes,   \* the scopes that are asked for
    MayFail   \* the calls to Windows that may fail, and "exit"

\* Mutant: one name does not match the manifest.
ScopeChannelsMisspelt(sc) ==
    CASE sc = "Full"      -> <<"driver", "client", "cli">>
      [] sc = "Driver"    -> <<"driver">>
      [] sc = "Userspace" -> <<"client", "cli ">>

\* The event channels that TuneScopeChannels goes through.
ScopeChannels(sc) ==
    CASE sc = "Full"      -> <<"driver", "client", "cli">>
      [] sc = "Driver"    -> <<"driver">>
      [] sc = "Userspace" -> <<"client", "cli">>

Channels == {"driver", "client", "cli"}

ASSUME TraceAssumption ==
    /\ NoFile \notin Files
    /\ Scopes \subseteq {"Full", "Driver", "Userspace"}
    /\ MayFail \subseteq {"tune", "restore", "start", "enable", "control", "remove", "exit"}

VARIABLES
    state,    \* _state
    scope,    \* _scope
    tune,     \* _tuneChannels
    didTune,  \* _didTuneChannels
    path,     \* _etlPath
    handle,   \* _trace._sessionHandle is not zero
    pc,       \* what the call that holds _mutex does next
    todo,     \* the channels it has still to tune or to restore
    session,  \* the file that the kernel's session of our name writes
    files,    \* the capture files on disk
    tuned,    \* the channels with maximum visibility
    lost,     \* history: what a failed step or an exit left behind
    get       \* progress of each download

service == <<state, scope, tune, didTune, path, handle>>
vars == <<service, pc, todo, session, files, tuned, lost, get>>

\* A download has no path, has the one it was given, or has opened it.
Progress == [pc: {"idle", "path", "open"}, file: Files \union {NoFile}]

\* Every variable holds what its C++ counterpart can hold.
TypeOK ==
    /\ state \in {"Idle", "Recording", "Ready"}
    /\ scope \in Scopes \union {"Full"}
    /\ tune \in BOOLEAN /\ didTune \in BOOLEAN /\ handle \in BOOLEAN
    /\ path \in Files \union {NoFile}
    /\ pc \in {"free", "tune", "start", "enable", "abort", "undo", "restore",
               "discard", "delete"}
    /\ todo \in Seq(Channels)
    /\ session \in Files \union {NoFile}
    /\ files \subseteq Files
    /\ tuned \subseteq Channels
    /\ lost \subseteq Channels \union {"session"}
    /\ get \in [Getters -> Progress]

NoDownload == [g \in Getters |-> [pc |-> "idle", file |-> NoFile]]

Init ==
    /\ state = "Idle" /\ scope = "Full" /\ path = NoFile
    /\ tune = TRUE /\ didTune = FALSE /\ handle = FALSE
    /\ pc = "free" /\ todo = <<>>
    /\ session = NoFile /\ files = {} /\ tuned = {} /\ lost = {}
    /\ get = NoDownload

\* The watchdog ends, in whatever it is doing; nothing stops its session. It starts
\* anew with what Windows has kept.
Exit ==
    /\ "exit" \in MayFail
    /\ state' = "Idle" /\ scope' = "Full" /\ path' = NoFile
    /\ tune' = TRUE /\ didTune' = FALSE /\ handle' = FALSE
    /\ pc' = "free" /\ todo' = <<>>
    /\ lost' = lost \union tuned
    /\ get' = NoDownload
    /\ UNCHANGED <<session, files, tuned>>

--------------------------------------------------------------------------------
(* Start *)

\* Mutant: the name is only checked against the disk.
ReusedEtlPaths == Files \ (files \union {session})

\* The name is the time of the call, so it is later than that of any file that is on
\* disk, recorded, or known to a download.
MakeUniqueEtlPath == Files \ (files \union {session} \union {get[g].file : g \in Getters})

Start(sc, tn) ==
    /\ pc = "free" /\ state # "Recording"
    /\ state' = "Idle"
    /\ files' = IF state = "Ready" THEN files \ {path} ELSE files
    /\ scope' = sc /\ tune' = tn /\ didTune' = FALSE
    /\ path' \in MakeUniqueEtlPath
    /\ pc' = IF tn THEN "tune" ELSE "start"
    /\ todo' = IF tn THEN ScopeChannels(sc) ELSE <<>>
    /\ UNCHANGED <<handle, session, tuned, lost, get>>

\* ApplyReadmeMaximumDiagnosticVisibility of one channel: saved as a whole or not.
TuneChannel ==
    /\ pc = "tune"
    /\ tuned' = tuned \union {Head(todo)}
    /\ todo' = Tail(todo)
    /\ IF Len(todo) = 1 THEN pc' = "start" /\ didTune' = TRUE
                        ELSE UNCHANGED <<pc, didTune>>
    /\ UNCHANGED <<state, scope, tune, path, handle, session, files, lost, get>>

\* The channels tuned so far are not restored.
TuneFails ==
    /\ "tune" \in MayFail /\ pc = "tune"
    /\ path' = NoFile
    /\ pc' = "free" /\ todo' = <<>>
    /\ lost' = lost \union tuned
    /\ UNCHANGED <<state, scope, tune, didTune, handle, session, files, tuned, get>>

\* StartTraceW; a session that an earlier watchdog left behind may be taken for
\* safe to stop (TryStopStaleOurSession), and is replaced.
StartTrace ==
    /\ pc = "start" /\ ~handle
    /\ handle' = TRUE
    /\ session' = path
    /\ files' = files \union {path}
    /\ pc' = "enable"
    /\ UNCHANGED <<state, scope, tune, didTune, path, todo, tuned, lost, get>>

\* What Start does when EtwTraceSession::Start has failed.
TraceFailed ==
    IF didTune THEN /\ pc' = "undo" /\ todo' = ScopeChannels(scope)
                    /\ UNCHANGED path
               ELSE /\ pc' = "free" /\ UNCHANGED todo
                    /\ path' = NoFile

\* The service holds a session already, another watchdog may, or StartTraceW fails,
\* the second time with the stale session stopped.
StartTraceFails ==
    /\ pc = "start"
    /\ \/ handle /\ UNCHANGED session
       \/ ~handle /\ session # NoFile /\ UNCHANGED session
       \/ ~handle /\ "start" \in MayFail /\ session' \in {session, NoFile}
    /\ TraceFailed
    /\ UNCHANGED <<state, scope, tune, didTune, handle, files, tuned, lost, get>>

EnableProviders ==
    /\ pc = "enable"
    /\ state' = "Recording"
    /\ pc' = "free"
    /\ UNCHANGED <<scope, tune, didTune, path, handle, todo, session, files, tuned,
                   lost, get>>

EnableProviderFails ==
    /\ "enable" \in MayFail /\ pc = "enable"
    /\ pc' = "abort"
    /\ UNCHANGED <<service, todo, session, files, tuned, lost, get>>

\* EtwTraceSession::Stop: an error of ControlTraceW leaves the handle as it is.
StopTrace ==
    /\ handle' = FALSE
    /\ session' = IF handle THEN NoFile ELSE session
    /\ lost' = lost \ {"session"}

AbortTrace ==
    /\ pc = "abort"
    /\ StopTrace
    /\ TraceFailed
    /\ UNCHANGED <<state, scope, tune, didTune, files, tuned, get>>

AbortTraceFails ==
    /\ "control" \in MayFail /\ pc = "abort"
    /\ TraceFailed
    /\ lost' = lost \union {"session"}
    /\ UNCHANGED <<state, scope, tune, didTune, handle, session, files, tuned, get>>

--------------------------------------------------------------------------------
(* Restoring the channels, and Stop *)

\* Mutant: the channels are gone through, and left as they are.
LeaveChannel ==
    /\ todo' = Tail(todo)
    /\ UNCHANGED <<tuned, lost>>

\* RestoreReadmeDefaultDiagnosticVisibility of one channel.
RestoreChannel ==
    /\ todo' = Tail(todo)
    /\ tuned' = tuned \ {Head(todo)}
    /\ lost' = lost \ {Head(todo)}

RestoreAfterFailedStart ==
    /\ pc = "undo"
    /\ RestoreChannel
    /\ IF Len(todo) = 1 THEN pc' = "free" /\ didTune' = FALSE /\ path' = NoFile
                        ELSE UNCHANGED <<pc, didTune, path>>
    /\ UNCHANGED <<state, scope, tune, handle, session, files, get>>

RestoreAfterStop ==
    /\ pc = "restore"
    /\ RestoreChannel
    /\ IF Len(todo) = 1 THEN pc' = "free" /\ state' = "Ready"
                        ELSE UNCHANGED <<pc, state>>
    /\ UNCHANGED <<scope, tune, didTune, path, handle, session, files, get>>

\* Mutant: the recording is only over when its file is gone.
UntilDeleted(st) == st

\* "transition out of Recording before delete attempt"
OutOfRecording(st) == IF st = "Recording" THEN "Ready" ELSE st

RestoreBeforeDiscard ==
    /\ pc = "discard"
    /\ RestoreChannel
    /\ IF Len(todo) = 1 THEN pc' = "delete" /\ state' = OutOfRecording(state)
                        ELSE UNCHANGED <<pc, state>>
    /\ UNCHANGED <<scope, tune, didTune, path, handle, session, files, get>>

\* The first channel that cannot be restored ends the call. A recording that was
\* stopped is ready all the same.
RestoreFails ==
    /\ "restore" \in MayFail /\ pc \in {"undo", "restore", "discard"}
    /\ state' = IF pc = "undo" THEN state ELSE "Ready"
    /\ pc' = "free" /\ todo' = <<>>
    /\ lost' = lost \union tuned
    /\ UNCHANGED <<scope, tune, didTune, path, handle, session, files, tuned, get>>

Restoring == didTune /\ tune

\* Mutant: a capture is ready as soon as its end is asked for.
StopUnchecked ==
    /\ pc = "free" /\ state = "Recording"
    /\ state' = "Ready"
    /\ UNCHANGED <<scope, tune, didTune, path, handle, pc, todo, session, files,
                   tuned, lost, get>>

Stop ==
    /\ pc = "free" /\ state = "Recording"
    /\ StopTrace
    /\ IF Restoring THEN /\ pc' = "restore" /\ todo' = ScopeChannels(scope)
                         /\ UNCHANGED state
                    ELSE /\ state' = "Ready"
                         /\ UNCHANGED <<pc, todo>>
    /\ UNCHANGED <<scope, tune, didTune, path, files, tuned, get>>

--------------------------------------------------------------------------------
(* DiscardCapture *)

Discard ==
    /\ pc = "free"
    /\ IF state = "Recording" THEN StopTrace
                              ELSE UNCHANGED <<handle, session, lost>>
    /\ IF state # "Idle" /\ Restoring
       THEN /\ pc' = "discard" /\ todo' = ScopeChannels(scope)
            /\ UNCHANGED state
       ELSE /\ pc' = "delete" /\ UNCHANGED todo
            /\ state' = OutOfRecording(state)
    /\ UNCHANGED <<scope, tune, didTune, path, files, tuned, get>>

DeleteCapture ==
    /\ pc = "delete"
    /\ files' = files \ {path}
    /\ path' = NoFile /\ didTune' = FALSE /\ state' = "Idle"
    /\ pc' = "free"
    /\ UNCHANGED <<scope, tune, handle, todo, session, tuned, lost, get>>

DeleteCaptureFails ==
    /\ "remove" \in MayFail /\ pc = "delete" /\ path \in files
    /\ pc' = "free"
    /\ UNCHANGED <<service, todo, session, files, tuned, lost, get>>

--------------------------------------------------------------------------------
(* Downloads (HandleGetEtl) *)

getFrame == <<service, pc, todo, session, files, tuned, lost>>

GetEtlPathForDownload(g) ==
    /\ pc = "free" /\ get[g].pc = "idle"
    /\ state = "Ready" /\ path \in files
    /\ get' = [get EXCEPT ![g] = [pc |-> "path", file |-> path]]
    /\ UNCHANGED getFrame

\* The file may have been deleted since, in which case the request fails.
OpenEtl(g) ==
    /\ get[g].pc = "path"
    /\ get' = [get EXCEPT ![g] =
          IF get[g].file \in files THEN [pc |-> "open", file |-> get[g].file]
                                   ELSE [pc |-> "idle", file |-> NoFile]]
    /\ UNCHANGED getFrame

Served(g) ==
    /\ get[g].pc = "open"
    /\ get' = [get EXCEPT ![g] = [pc |-> "idle", file |-> NoFile]]
    /\ UNCHANGED getFrame

--------------------------------------------------------------------------------
Starting ==
    \/ \E sc \in Scopes, tn \in BOOLEAN : Start(sc, tn)
    \/ TuneChannel \/ TuneFails \/ StartTrace \/ StartTraceFails
    \/ EnableProviders \/ EnableProviderFails \/ AbortTrace \/ AbortTraceFails

Ending ==
    \/ RestoreAfterFailedStart \/ RestoreAfterStop \/ RestoreBeforeDiscard
    \/ RestoreFails \/ Stop \/ Discard \/ DeleteCapture \/ DeleteCaptureFails

Download == \E g \in Getters : GetEtlPathForDownload(g) \/ OpenEtl(g) \/ Served(g)

Next == Starting \/ Ending \/ Download \/ Exit

Spec == Init /\ [][Next]_vars

--------------------------------------------------------------------------------
(* Properties *)

\* A download never serves a file that is being recorded, although the path is used
\* after the mutex has been released and the capture may have been discarded, and
\* the next one started, since (DiagnosticsTraceHandler.cpp:224-228).
DownloadsAreComplete ==
    \A g \in Getters : get[g].pc = "open" => get[g].file # session

\* A capture that is offered is complete: neither the service nor the kernel
\* records any more, whatever failed on the way.
ReadyIsComplete == state = "Ready" => ~handle /\ (path # NoFile => session # path)

\* As long as the service says that it records, the kernel does, into the file that
\* will be offered.
RecordingIsLive ==
    state = "Recording" /\ pc = "free" => handle /\ session = path /\ path \in files

\* Whatever a call leaves changed in Windows after the recording is accounted for
\* by a failure or an exit: otherwise the channels are back at their defaults and
\* no session is held (README.md:126).
NothingLeftBehind ==
    pc = "free" =>
       /\ tuned \subseteq lost \union
             (IF state = "Recording" /\ tune THEN ToSet(ScopeChannels(scope)) ELSE {})
       /\ state # "Recording" /\ handle => "session" \in lost
================================================================================
