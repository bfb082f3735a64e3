---------------------------- MODULE SegmentWatch ----------------------------
(***************************************************************************)
(* watch_stage2b.sh beside the segment it was written for: it looks for    *)
(* the launcher's ARM FAILED line, for DONE and for the markers of a       *)
(* resumable stop, one after the other, sleeps, and starts over.  The      *)
(* others keep moving between its looks.                                   *)
(***************************************************************************)
EXTENDS Segments

CONSTANT WatchSeg      \* the segment whose output it reads (seg02)

ASSUME WatchAssumption == WatchSeg \in 1 .. MaxSegments

VARIABLES
    watcher,      \* what it looks for next
    reported      \* how it left

watch == <<watcher, reported>>

WatchInit == Init /\ watcher = "off" /\ reported = "nothing"

\* The operator starts it once the segment is launched.
StartWatcher ==
    /\ watcher = "off" /\ reported = "nothing" /\ seg >= WatchSeg
    /\ watcher' = "failure" /\ UNCHANGED reported

LeaveWith(outcome) == watcher' = "off" /\ reported' = outcome

LookForFailure ==
    /\ watcher = "failure"
    /\ IF WatchSeg \in failed THEN LeaveWith("FAILED")
                              ELSE watcher' = "done" /\ UNCHANGED reported

LookForDone ==
    /\ watcher = "done"
    /\ IF "DONE" \in root THEN LeaveWith("DONE")
                          ELSE watcher' = "markers" /\ UNCHANGED reported

\* A marker of a resumable stop, of whatever segment.
Marked == \/ "PREEMPTED-BETWEEN-ARMS" \in root
          \/ \E a \in Arms : markers[a] \cap Resumable # {}

\* Slip: the failure is looked for once, before the loop.
LookForMarkersOnly ==
    /\ watcher = "markers"
    /\ IF Marked THEN LeaveWith("resumable")
                 ELSE watcher' = "done" /\ UNCHANGED reported

LookForMarkers ==
    /\ watcher = "markers"
    /\ IF Marked THEN LeaveWith("resumable")
                 ELSE watcher' = "failure" /\ UNCHANGED reported

Look == LookForFailure \/ LookForDone \/ LookForMarkers

WatchNext ==
    \/ (StartWatcher \/ Look) /\ UNCHANGED vars
    \/ (Trainer \/ Die \/ Launch \/ Launcher \/ Demo \/ \E a \in Arms : Tidy(a))
       /\ UNCHANGED watch
    \/ Reboot /\ watcher' = "off" /\ UNCHANGED reported

\* The watcher's loop runs as long as the box does; nothing else has to.
WatchSpec == WatchInit /\ [][WatchNext]_<<vars, watch>> /\ WF_watch(Look)

----------------------------------------------------------------------------
(* Properties.                                                             *)

\* An arm that fails in the watched segment while the watcher is up is reported
\* as a failure (unless the box goes down with the watcher), provided that no
\* marker of a resumable stop is lying around: the watcher's three looks are
\* not one look, and it leaves on the first thing it sees.
FailureIsReported ==
    [](~Marked) =>
        [](WatchSeg \in failed /\ watcher # "off"
             => <>(watcher = "off" /\ reported \in {"FAILED", "nothing"}))

=============================================================================
