------------------------------ MODULE MCRenderer ------------------------------
(* The combinations of the switches of a policy, with partly empty         *)
(* baseline values and two profiles that override different ones of them.  *)
(* The selector has no label "app".                                        *)
EXTENDS RendererProps

MCOverrides ==
    [shed |-> [threshold |-> 85, speed |-> 0, window |-> 20, percentile |-> 75],
     calm |-> [threshold |-> 0, speed |-> 5, window |-> 0, percentile |-> 0]]

MCSelector == [tier |-> "backend", team |-> "payments"]

PartlySet == [threshold |-> 98, speed |-> 0, window |-> 0, percentile |-> 0]

Alone(s) == s.admission /\ ~s.concurrency /\ ~s.streaming

(* Skip paths are always set; dry runs and an explicit backend are for     *)
(* admission control alone, streaming protection without concurrency.      *)
MCSpecs ==
    {s \in [admission: BOOLEAN, concurrency: BOOLEAN, streaming: BOOLEAN, skipPaths: {TRUE},
            values: {PartlySet}, dryRun: BOOLEAN,
            activeProfile: {"", "shed", "calm"}, backend: {"auto", "cilium"}] :
        /\ s.dryRun \/ s.backend = "cilium" => Alone(s) /\ ~(s.dryRun /\ s.backend = "cilium")
        /\ ~(s.streaming /\ s.concurrency)}
=============================================================================
