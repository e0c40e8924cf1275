--------------------------- MODULE ReconcilerProps ---------------------------
(***************************************************************************)
(* What the reconcile loop promises. Which promise holds depends on how    *)
(* stale the cache may be, which calls may fail and what humans edit: each *)
(* run of MCReconciler names that setting in its configuration.            *)
(***************************************************************************)
EXTENDS Reconciler

TypeOK ==
    /\ api \in Policy /\ cache \in Policy /\ pol \in Policy
    /\ watch \in Seq(Policy)
    /\ applied \in [Resource -> ContentSet]
    /\ current \in [Runtime -> ContentSet]
    /\ pc \in {"idle", "evaluate", "switch", "reget", "apply", "prune", "push", "status",
               "degraded"}
    /\ decision \in Decision
    /\ switched \in BOOLEAN
    /\ unsent \in SUBSET Runtime
    /\ count \in [Trigger -> Nat]
    /\ cooling \in SUBSET Trigger
    /\ edits \in 0..MaxEdits
    /\ edited \in SUBSET Edits
    /\ failed \in SUBSET Faults
    /\ overrun \in Nat
    /\ made \in Seq(Decision)
    /\ missed \in BOOLEAN

-----------------------------------------------------------------------------
(* The status is truthful: when status.observedGeneration is the object's  *)
(* generation, status.activeProfile and status.managedResources are those  *)
(* of the current spec (controller.go:280-286). It takes a cache that is   *)
(* current: the merge patch leaves out what a stale object already shows.  *)
ObservedTruthful ==
    api.status.observed = api.gen =>
        /\ api.status.profile = api.profile
        /\ api.status.managed = Rendered(api)

(* Between reconciles, every mesh resource in the cluster is one that      *)
(* status.managedResources lists, so that a later prune or a human can     *)
(* find it (controller.go:246-249, 286): whatever humans edit meanwhile,   *)
(* as long as no call fails between the apply and the status patch.        *)
ResourcesTracked ==
    pc = "idle" /\ api.exists /\ failed \cap {"apply", "delete", "status", "crash"} = {}
        => \A r \in Resource : applied[r].present => r \in api.status.managed

(* Outside a reconcile that is switching, no Envoy that connects is given  *)
(* a profile other than spec.activeProfile (controller.go:203-213,         *)
(* 259-274), however far the cache lags: as long as all switches are the   *)
(* operator's own, over filters that stay, it heard of each of them, and   *)
(* the re-read after the latest one saw it. The last condition is not      *)
(* always met: see SwitchReachesRuntime.                                   *)
RuntimeFollowsProfile ==
    /\ ~switched /\ api.exists
    /\ edited \cap {"profile", "filters"} = {}
    /\ "response" \notin failed
    /\ ~missed
    => \A l \in Runtime : current[l].present => current[l].profile = api.profile

(* human-override freezes automatic switching (api-reference.md:244) with  *)
(* an overrun of one switch at most: the one of the reconcile that read    *)
(* the object before the annotation was set (controller.go:195, 433-442).  *)
OverrideOverrun == api.override => overrun <= 1

(* Every switch is on record: between reconciles decisionHistory holds the *)
(* latest switches that reached the server, newest first, each once, and   *)
(* lastDecision is its head, whatever humans write between the patch of    *)
(* spec and the patch of status (controller.go:298-319). It takes a cache  *)
(* that is current, and no call that fails: a failed patch is recorded as  *)
(* a switch, and a failed apply after a lost response leaves one out.      *)
DecisionsRecorded ==
    LET recorded == IF Len(made) < HistoryMax THEN Len(made) ELSE HistoryMax
    IN  pc = "idle" /\ api.exists /\ failed \cap {"patch", "apply", "status", "crash"} = {} =>
            /\ api.status.history = [i \in 1..recorded |-> made[Len(made) + 1 - i]]
            /\ api.status.decision = IF made = <<>> THEN NoDecision ELSE made[Len(made)]

-----------------------------------------------------------------------------
AppliedMatches ==
    api.exists /\ Valid(api) => \A r \in Rendered(api) : applied[r] = Content(api)

SpecChange ==
    <<api.exists, api.profile, api.filters, api.dryRun>>'
        # <<api.exists, api.profile, api.filters, api.dryRun>>

SpecSettles == <>[][~SpecChange]_vars

(* Level-triggered convergence: once spec stops changing, the mesh         *)
(* resources show it and keep showing it, whatever was lost, stale,        *)
(* skipped or restarted before (controller.go:226-240, 404).               *)
AppliedConverges == SpecSettles => <>[]AppliedMatches

(* After the policy is deleted nothing of it stays: no mesh resource, even *)
(* if a Reconcile in flight applies one late, and no trigger state         *)
(* (controller.go:102-116).                                                *)
DeletionCleansUp ==
    <>[](~api.exists =>
            /\ \A r \in Resource : ~applied[r].present
            /\ cooling = {} /\ \A t \in Trigger : count[t] = 0)

-----------------------------------------------------------------------------
(* What the documentation promises and the code does not keep. *)

(* After a switch the policy is read again "to get updated activeProfile"  *)
(* (controller.go:208), and what is rendered from it goes to the Envoys:   *)
(* once spec stops changing, the runtime layers, which override the        *)
(* resources, carry its profile. The re-read is one of the informer cache, *)
(* which need not have the switch yet, and no later Reconcile pushes.      *)
SwitchReachesRuntime ==
    SpecSettles =>
        <>[](api.exists => \A l \in Runtime :
                              current[l].present => current[l].profile = api.profile)
=============================================================================
