---------------------------- MODULE MCReconciler ----------------------------
(* Two profiles and two triggers: overload needs two bad samples and       *)
(* switches to shed from anywhere, recover needs one good one and switches *)
(* back to normal.                                                         *)
EXTENDS ReconcilerProps

MCSwitchTo     == <<"shed", "normal">>
MCFromProfiles == <<{}, {"shed"}>>
MCCondition(side, limit, n) ==
    [clauses |-> {[signal |-> "successRate", side |-> side, limit |-> limit]},
     srSamples |-> n, latSamples |-> 0]
MCWhen == <<MCCondition("below", 90, 2), MCCondition("above", 97, 1)>>

AC == {"admission-control"}

Breach == {1}
Clean  == {2}

OnlyAC      == {AC}
StreamOrAC  == {AC, {"streaming-protection"}}
BothSamples == {Breach, Clean}
=============================================================================
