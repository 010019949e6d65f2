---------------------------- MODULE RemoteStore ------------------------------
(***************************************************************************)
(* The Firestore client of the app: the write half (WritePipeline) and the *)
(* read half (WatchTargets).  They take turns on one worker queue and have *)
(* streams of their own; a change of the network or of the user restarts   *)
(* both, and both end with the process.                                    *)
(***************************************************************************)
EXTENDS WritePipeline, WatchTargets

vars == <<writeVars, watchVars>>

Init == WriteInit /\ WatchInit

RestartNetwork(u) == RestartWrites(u) /\ RestartWatch

(* The device is on another network, or the app comes to the foreground.   *)
ConnectivityChanged == "restart" \in Faults /\ RestartNetwork(user)

(* Someone signs in or out.                                                *)
HandleCredentialChange(u) ==
    "switch" \in Faults /\ u # user /\ RestartNetwork(u)

(* A HARD_ASSERT of OnWriteStreamClose or OnWatchStreamClose fails, which  *)
(* ends the process; it is started again.                                  *)
StoppedWhileNeeded ==
    \/ WriteStoppedWhileNeeded /\ WatchKill
    \/ WatchStoppedWhileNeeded /\ WriteKill

(* The process ends, and is started again.                                 *)
Kill == "kill" \in Faults /\ WriteKill /\ WatchKill

ReadStep ==
    \/ \E t \in Targets : getDocuments(t)
    \/ WatchClient \/ WatchBackend

Next ==
    \/ (WriteClient \/ WriteBackend) /\ UNCHANGED watchVars
    \/ ReadStep /\ UNCHANGED writeVars
    \/ ConnectivityChanged \/ StoppedWhileNeeded \/ Kill
    \/ \E u \in Users : HandleCredentialChange(u)

Spec == Init /\ [][Next]_vars

(* Timers elapse, and the network lets messages through now and then.      *)
FairSpec == Spec /\ ClientFairness /\ NetworkFairness

(* A backend that may stay silent for ever.                                *)
SilentSpec == Spec /\ ClientFairness

-----------------------------------------------------------------------------
(* What the code says of itself.                                           *)

(* "Graceful stop (due to Stop() or idle timeout).  Make sure that's       *)
(* desirable.": a stream that is closed with OK is never one that is still *)
(* needed.                                                                 *)
GracefulStopsDesirable == [][~StoppedWhileNeeded]_vars
=============================================================================
