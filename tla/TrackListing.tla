---------------------------- MODULE TrackListing ----------------------------
(***************************************************************************)
(* What MusicProvider.FetchUserTracks promises its caller: if it succeeds, *)
(* some of the tracks the user had while it was at work, and no more of    *)
(* them than a limit.  To a sync it is one step.                           *)
(***************************************************************************)
EXTENDS Naturals, FiniteSets

CONSTANTS Tracks, Limit

VARIABLES
    stage,            \* "idle", "busy", "done" or "failed"
    had,              \* tracks the user has had since the call
    result            \* what the call returned

listing == <<stage, had, result>>

Init == stage = "idle" /\ had = {} /\ result = {}

Call ==
    /\ stage = "idle"
    /\ stage' = "busy"
    /\ had' \in SUBSET Tracks
    /\ UNCHANGED result

NewTrack ==
    /\ stage = "busy"
    /\ \E t \in Tracks : had' = had \cup {t}
    /\ UNCHANGED <<stage, result>>

Succeed ==
    /\ stage = "busy"
    /\ stage' = "done"
    /\ result' \in SUBSET had
    /\ Cardinality(result') <= Limit
    /\ UNCHANGED had

Fail ==
    /\ stage = "busy"
    /\ stage' = "failed"
    /\ UNCHANGED <<had, result>>

GoOn ==
    /\ stage \in {"done", "failed"}
    /\ stage' = "idle"
    /\ had' = {}
    /\ result' = {}

Next == Call \/ NewTrack \/ Succeed \/ Fail \/ GoOn

Spec == Init /\ [][Next]_listing
=============================================================================
