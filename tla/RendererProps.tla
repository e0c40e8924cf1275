---------------------------- MODULE RendererProps ----------------------------
(***************************************************************************)
(* What the reconcile loop relies on in a rendering: pruning on its list   *)
(* of references, switches on its layers.                                  *)
(***************************************************************************)
EXTENDS Renderer

Value == Nat \ {0}

LayerType ==
    [enabled: BOOLEAN] \cup [enabled: BOOLEAN, threshold: Value, speed: Value]

TypedConfigType ==
    [name: {"adaptive-concurrency"}, enabled: BOOLEAN, percentile: Value]
    \cup [name: {"admission-control"}, enabled: BOOLEAN, window: Value, threshold: Value, speed: Value]

TypeOK ==
    /\ spec \in Specs
    /\ switching \in Backend \cup {"none"}
    /\ \A ref \in DOMAIN cluster : \A c \in cluster[ref].config : c \in TypedConfigType
    /\ \A f \in DOMAIN pushed : pushed[f] \in LayerType
    /\ last.backend \in Backend => last.of \in Specs

-----------------------------------------------------------------------------
(* Nothing the operator ever created is forgotten: whichever edits, mesh   *)
(* changes, failed detections and switches came before, a resource in the  *)
(* cluster is listed in the status, so that the next reconcile can prune   *)
(* it, and after one that applies the two are the same (istio.go:99-177    *)
(* fills the two lists in five branches; controller.go:226-249 prunes also *)
(* when it applies nothing).                                               *)
ClusterTracked ==
    /\ DOMAIN cluster \subseteq managed
    /\ last.delivery = "applied" => DOMAIN cluster = managed

-----------------------------------------------------------------------------
(* A switch of the profile of a policy that had been applied, and of which *)
(* a human has changed nothing meanwhile. If the second read missed the    *)
(* switch, the profile too is the one that was applied.                    *)
OnlySwitched ==
    /\ last.delivery = "applied" /\ last'.delivery # "applied"
    /\ last'.backend = last.backend
    /\ last'.of = [last.of EXCEPT !.activeProfile = last'.of.activeProfile]

(* A switch applies nothing (controller.go:226), so no resource may come   *)
(* or go with a profile: it leaves the resources and their list alone.     *)
SwitchKeepsResources ==
    [][OnlySwitched => cluster' = cluster /\ managed' = managed]_vars

(* What a connected Envoy uses for a key of a filter: the layer's value    *)
(* before that of the static config.                                       *)
InEnvoy(f, key) ==
    IF f \in DOMAIN pushed /\ key \in DOMAIN pushed[f] THEN pushed[f][key]
    ELSE LET c == CHOOSE c \in cluster[<<"EnvoyFilter", f>>].config : TRUE IN c[key]

(* A switch pushed over RTDS gives the Envoys what applying the object     *)
(* that was read after it would, although the resources still hold the     *)
(* former profile's values: the new profile's, if that read saw the switch *)
(* (controller.go:210 and 258-274). Two things are not so. No layer        *)
(* carries the window and the percentile, which stay the former profile's. *)
(* And the threshold is a hundredth of the one that applying gives,        *)
(* although istio.go:269 says that the two match (istio.go:230).           *)
SwitchDelivers ==
    [][OnlySwitched /\ last'.delivery = "pushed" =>
        \A f \in RuntimeFilters(spec) :
            LET c == TypedConfig(spec, f, IstioThreshold(spec)) IN
            /\ \A key \in DOMAIN c \ {"window", "percentile", "threshold"} :
                  InEnvoy(f, key)' = c[key]
            /\ "threshold" \in DOMAIN c =>
                  100 * InEnvoy(f, "threshold")' = c["threshold"]]_vars
=============================================================================
