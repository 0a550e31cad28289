----------------------------- MODULE ProcessRegistry -----------------------------
(***************************************************************************)
(* What the process-id registry of HidHide/src/Config.c promises to        *)
(* Logic.c: a map from process ids to full image names, each with the      *)
(* cached answer to "is this name on the whitelist?". A name stays until   *)
(* the process is unregistered, and an answer until everything is flushed. *)
(* ProcessIdTree and HidHideDriver implement this specification.           *)
(***************************************************************************)
CONSTANTS Pids, Images, NoImage

VARIABLES image, cache

Init ==
    /\ image = [p \in Pids |-> NoImage]
    /\ cache = [p \in Pids |-> "Empty"]

Known(p) == image[p] # NoImage

\* HidHideProcessIdRegister, when the pid is not registered yet.
Register(p, name) ==
    /\ ~Known(p)
    /\ image' = [image EXCEPT ![p] = name]
    /\ cache' = [cache EXCEPT ![p] = "Empty"]

\* HidHideProcessIdUnregister
Unregister(p) ==
    /\ image' = [image EXCEPT ![p] = NoImage]
    /\ cache' = [cache EXCEPT ![p] = "Empty"]

\* HidHideProcessIdCheckFullImageNameAgainstWhitelist, when nothing is cached.
Evaluate(p, verdict) ==
    /\ Known(p) /\ cache[p] = "Empty"
    /\ cache' = [cache EXCEPT ![p] = verdict]
    /\ UNCHANGED image

\* HidHideProcessIdsFlushWhitelistEvaluationCache
Flush ==
    /\ cache' = [p \in Pids |-> "Empty"]
    /\ UNCHANGED image

\* The driver is loaded anew: the registry is not persistent.
Reset ==
    /\ image' = [p \in Pids |-> NoImage]
    /\ cache' = [p \in Pids |-> "Empty"]

Next ==
    \/ \E p \in Pids :
          \/ \E name \in Images : Register(p, name)
          \/ Unregister(p)
          \/ \E verdict \in {"Found", "NotFound"} : Evaluate(p, verdict)
    \/ Flush
    \/ Reset

Spec == Init /\ [][Next]_<<image, cache>>
================================================================================
