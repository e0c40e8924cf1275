----------------------------- MODULE Reconciler -----------------------------
(***************************************************************************)
(* The reconcile loop of one AdaptivePolicy                                *)
(* (internal/controller/adaptivepolicy_controller.go) between the API      *)
(* server, the informer cache it reads from, the cluster's mesh resources  *)
(* and the state of the RTDS server.                                       *)
(*                                                                         *)
(* controller-runtime runs one Reconcile of a policy at a time, so the     *)
(* loop is one process with a program counter: each step is one call to    *)
(* the outside world, and humans, watch events, the clock, failures and    *)
(* restarts come between any two steps.                                    *)
(***************************************************************************)
EXTENDS TriggerEval, Sequences, FiniteSets

CONSTANTS
    Undefined,     \* a profile name that is not a key of spec.profiles
    FilterSets,    \* the sets of filters a human may enable
    Observations,  \* the sets of triggers one sample may satisfy
    Edits,         \* the kinds of human edit that occur
    MaxEdits,      \* bound on human edits
    Faults,        \* the calls that may fail
    MaxFaults,     \* bound on failures and restarts
    MaxGen,        \* bound on the generation up to which triggers still fire, and
                   \* with it on their switches, also those that change nothing
    MaxLag,        \* most watch events the cache is behind; 0: always current
    HistoryMax,    \* how many decisions status.decisionHistory keeps
    RtdsOn         \* rtdsClient.Connected() /\ meshRenderer.RTDSSupported()

Filter == {"admission-control", "adaptive-concurrency", "streaming-protection"}

AnyProfile == ActiveProfile \cup {Undefined}

ASSUME ReconcilerAssumption ==
    /\ Undefined \notin ActiveProfile
    /\ FilterSets \subseteq SUBSET Filter
    /\ Observations \subseteq SUBSET Trigger
    /\ Edits \subseteq {"profile", "filters", "dryRun", "override", "delete"}
    /\ Faults \subseteq {"detect", "patch", "response", "apply", "delete", "status",
                           "crash"}
    /\ MaxEdits \in Nat /\ MaxFaults \in Nat /\ MaxGen \in Nat /\ MaxLag \in Nat
    /\ HistoryMax \in Nat \ {0}
    /\ RtdsOn \in BOOLEAN

-----------------------------------------------------------------------------
(* Rendering, as far as it decides which resources exist and whether they  *)
(* are up to date: the content of a resource is the profile and the dryRun *)
(* flag it was rendered from.                                              *)
Resource == Filter \cup {"stats-flush"}

RenderOrder == <<"admission-control", "adaptive-concurrency", "stats-flush",
                 "streaming-protection">>

Runtime == {"admission-control", "adaptive-concurrency"}

Rendered(p) == p.filters \cup (IF p.filters \cap Runtime # {} THEN {"stats-flush"} ELSE {})

RTDSLayers(p) == p.filters \cap Runtime

Absent == [present |-> FALSE, profile |-> Baseline, dryRun |-> FALSE]

Content(p) == [present |-> TRUE, profile |-> p.profile, dryRun |-> p.dryRun]

ContentSet == [present: BOOLEAN, profile: AnyProfile, dryRun: BOOLEAN]

-----------------------------------------------------------------------------
(* The AdaptivePolicy object. status.decision is lastDecision: the trigger *)
(* (0 for none) and the profiles before and after; status.history the      *)
(* decisionHistory, newest first.                                          *)
Decision == [trigger: Trigger \cup {0}, from: AnyProfile, to: AnyProfile]

NoDecision == [trigger |-> 0, from |-> Baseline, to |-> Baseline]

(* status.conditions is one list, patched as a whole. *)
Conditions == [ready: {"none", "True", "False"}, degraded: {"none", "True"}, gen: Nat]

Status == [observed: Nat, profile: AnyProfile, managed: SUBSET Resource,
           decision: Decision, history: Seq(Decision), conditions: Conditions]

Policy == [exists: BOOLEAN, profile: AnyProfile, filters: SUBSET Filter, dryRun: BOOLEAN,
           override: BOOLEAN, gen: Nat, status: Status]

EmptyStatus == [observed |-> 0, profile |-> Baseline, managed |-> {},
                decision |-> NoDecision, history |-> <<>>,
                conditions |-> [ready |-> "none", degraded |-> "none", gen |-> 0]]

NewPolicy(p, fs) == [exists |-> TRUE, profile |-> p, filters |-> fs, dryRun |-> FALSE,
                     override |-> FALSE, gen |-> 1, status |-> EmptyStatus]

(* The Go object a Reconcile leaves behind when it returns: garbage. *)
NoPolicy == [NewPolicy(Baseline, {}) EXCEPT !.exists = FALSE, !.gen = 0]

-----------------------------------------------------------------------------
VARIABLES
    api,       \* the policy on the API server
    cache,     \* the policy in the informer cache
    watch,     \* watch events on their way to the cache
    applied,   \* the mesh resources in the cluster
    current,   \* Server.current of the RTDS server, layer by layer
    pc,        \* where the reconcile loop is
    pol,       \* the policy object of the running Reconcile
    decision,  \* the Decision of the running Reconcile
    switched,  \* its profileSwitched
    unsent,    \* the layers it still has to push
    count,     \* triggerState: consecutive samples
    cooling,   \* triggerState: the triggers fired within their cooldown
    edits,     \* number of human edits so far
    edited,    \* history: the kinds of human edit so far
    failed,    \* history: the kinds of call that failed so far
    overrun,   \* history: automatic switches made while human-override is set
    made,      \* history: the switches that reached the API server, oldest first
    missed     \* history: the latest re-read after a switch came from a cache that
               \* did not hold the profile in spec

server == <<api, cache, watch>>
locals == <<pc, pol, decision, switched, unsent>>
memory == <<count, cooling>>
human == <<edits, edited>>
vars == <<api, cache, watch, applied, current, pc, pol, decision, switched, unsent, count,
          cooling, edits, edited, failed, overrun, made, missed>>

(* A call of the given kind fails: each kind once, MaxFaults kinds in all. *)
Fails(kind) ==
    /\ kind \in Faults \ failed
    /\ Cardinality(failed) < MaxFaults
    /\ failed' = failed \cup {kind}

(* A write to the API server: watchers hear of it, the cache later. *)
Write(new) ==
    /\ api' = new
    /\ IF MaxLag = 0
       THEN cache' = new /\ watch' = watch
       ELSE /\ UNCHANGED cache
            /\ IF new = api THEN watch' = watch
               ELSE Len(watch) < MaxLag /\ watch' = Append(watch, new)

(* A status merge patch carries the fields that differ from the object the *)
(* Reconcile holds (client.MergeFrom), not from the object on the server.  *)
(* On a deleted policy it is a NotFound error, which is only logged.       *)
PatchStatus(new) ==
    IF api.exists
    THEN Write([api EXCEPT !.status =
                  [f \in DOMAIN new |-> IF new[f] = pol.status[f] THEN api.status[f]
                                                                  ELSE new[f]]])
    ELSE UNCHANGED server

(* Reconcile returns. *)
Return ==
    /\ pc' = "idle"
    /\ pol' = NoPolicy
    /\ decision' = NoDecision
    /\ switched' = FALSE
    /\ unsent' = {}

Goto(step) == pc' = step /\ UNCHANGED <<pol, decision, switched, unsent>>

-----------------------------------------------------------------------------
Init ==
    /\ \E p \in ActiveProfile, fs \in FilterSets : api = NewPolicy(p, fs)
    /\ cache = api
    /\ watch = <<>>
    /\ applied = [r \in Resource |-> Absent]
    /\ current = [l \in Runtime |-> Absent]
    /\ pc = "idle"
    /\ pol = NoPolicy
    /\ decision = NoDecision
    /\ switched = FALSE
    /\ unsent = {}
    /\ count = [t \in Trigger |-> 0]
    /\ cooling = {}
    /\ edits = 0
    /\ edited = {}
    /\ failed = {}
    /\ overrun = 0
    /\ made = <<>>
    /\ missed = FALSE

-----------------------------------------------------------------------------
(* The steps of Reconcile. *)

(* Seeded fault: the trigger state outlives the policy. *)
FetchDeletedWrongKeepsState ==
    /\ pc = "idle"
    /\ ~cache.exists
    /\ UNCHANGED vars

(* Not found: the trigger state of the policy is dropped. *)
FetchDeleted ==
    /\ pc = "idle"
    /\ ~cache.exists
    /\ count' = [t \in Trigger |-> 0]
    /\ cooling' = {}
    /\ UNCHANGED <<server, applied, current, locals, human, failed, overrun, made, missed>>

(* validatePolicy; that every switchTo is a defined profile is TriggerAssumption. *)
Valid(p) == p.filters # {} /\ p.profile # Undefined

Fetch ==
    /\ pc = "idle"
    /\ cache.exists
    /\ pol' = cache
    /\ pc' = IF Valid(cache) THEN "evaluate" ELSE "degraded"
    /\ UNCHANGED <<server, applied, current, decision, switched, unsent, memory, human, failed,
                   overrun, made, missed>>

FetchDetectFails ==
    /\ pc = "idle"
    /\ cache.exists /\ Valid(cache)
    /\ Fails("detect")
    /\ pol' = cache
    /\ pc' = "degraded"
    /\ UNCHANGED <<server, applied, current, decision, switched, unsent, memory, human, overrun,
                   made, missed>>

(* No evaluation: human override, no triggers, no samples or no scrape. *)
SkipEvaluate ==
    /\ pc = "evaluate"
    /\ Goto("apply")
    /\ UNCHANGED <<server, applied, current, memory, human, failed, overrun, made, missed>>

(* Seeded fault: the human override is not looked at. *)
EvaluateWrongIgnoresOverride(met) ==
    /\ pc = "evaluate"
    /\ api.gen < MaxGen /\ Len(made) + 1 < MaxGen
    /\ NumTriggers > 0
    /\ LET fired == Firing(met, pol.profile, count, cooling, Required(When))
       IN  /\ cooling' = cooling \cup fired
           /\ \/ fired = {} /\ Goto("apply")
              \/ \E t \in fired :
                    /\ decision' = [trigger |-> t, from |-> pol.profile, to |-> SwitchTo[t]]
                    /\ pc' = "switch"
                    /\ UNCHANGED <<pol, switched, unsent>>
    /\ count' = CountAfter(met, pol.profile, count, cooling, Required(When))
    /\ UNCHANGED <<server, applied, current, human, failed, overrun, made, missed>>

Evaluate(met) ==
    /\ pc = "evaluate"
    /\ api.gen < MaxGen /\ Len(made) + 1 < MaxGen
    /\ ~pol.override
    /\ NumTriggers > 0
    /\ LET fired == Firing(met, pol.profile, count, cooling, Required(When))
       IN  /\ cooling' = cooling \cup fired
           /\ \/ fired = {} /\ Goto("apply")
              \/ \E t \in fired :
                    /\ decision' = [trigger |-> t, from |-> pol.profile, to |-> SwitchTo[t]]
                    /\ pc' = "switch"
                    /\ UNCHANGED <<pol, switched, unsent>>
    /\ count' = CountAfter(met, pol.profile, count, cooling, Required(When))
    /\ UNCHANGED <<server, applied, current, human, failed, overrun, made, missed>>

Overruns == IF api.override THEN overrun + 1 ELSE overrun

(* The merge patch of spec.activeProfile carries no resourceVersion: it    *)
(* applies to whatever object the server has, and returns that object.     *)
SwitchedPolicy ==
    [api EXCEPT !.profile = decision.to,
                !.gen = IF api.profile = decision.to THEN @ ELSE @ + 1]

Switch ==
    /\ pc = "switch"
    /\ api.exists
    /\ Write(SwitchedPolicy)
    /\ pol' = SwitchedPolicy
    /\ switched' = TRUE
    /\ pc' = "reget"
    /\ overrun' = Overruns
    /\ made' = Append(made, decision)
    /\ UNCHANGED <<applied, current, decision, unsent, memory, human, failed, missed>>

(* The error is logged and the loop goes on with the current profile. *)
SwitchFails ==
    /\ pc = "switch"
    /\ IF api.exists THEN Fails("patch") ELSE UNCHANGED failed
    /\ Goto("apply")
    /\ UNCHANGED <<server, applied, current, memory, human, overrun, made, missed>>

(* The object is read again, from the cache, which may not have heard of   *)
(* the patch yet: then what follows renders and pushes the old profile.    *)
Reget ==
    /\ pc = "reget"
    /\ IF cache.exists
       THEN pol' = cache /\ pc' = "prune" /\ UNCHANGED <<decision, switched, unsent>>
       ELSE Return
    /\ missed' = (cache.profile # api.profile)
    /\ UNCHANGED <<server, applied, current, memory, human, failed, overrun, made>>

(* The patch reached the server, its response did not come back. *)
SwitchResponseLost ==
    /\ pc = "switch"
    /\ api.exists
    /\ Fails("response")
    /\ Write(SwitchedPolicy)
    /\ Goto("apply")
    /\ overrun' = Overruns
    /\ made' = Append(made, decision)
    /\ UNCHANGED <<applied, current, memory, human, missed>>

(* Seeded fault: create if missing, instead of server-side apply. *)
ApplyToWrongCreates(rs) ==
    [r \in Resource |-> IF r \in rs /\ ~applied[r].present THEN Content(pol) ELSE applied[r]]

(* Server-side apply of every rendered resource, skipped after a switch. *)
ApplyTo(rs) == [r \in Resource |-> IF r \in rs THEN Content(pol) ELSE applied[r]]

Apply ==
    /\ pc = "apply"
    /\ applied' = ApplyTo(Rendered(pol))
    /\ Goto("prune")
    /\ UNCHANGED <<server, current, memory, human, failed, overrun, made, missed>>

(* The first call that fails ends the loop over the resources. *)
ApplyFails ==
    /\ pc = "apply"
    /\ Fails("apply")
    /\ \E k \in 1..Len(RenderOrder) :
          /\ RenderOrder[k] \in Rendered(pol)
          /\ applied' = ApplyTo(Rendered(pol) \cap {RenderOrder[i] : i \in 1..(k - 1)})
    /\ Goto("degraded")
    /\ UNCHANGED <<server, current, memory, human, overrun, made, missed>>

Orphans == pol.status.managed \ Rendered(pol)

(* The layers a switch pushes, one call of Push at a time in any order. *)
ToPush == IF switched /\ RtdsOn THEN RTDSLayers(pol) ELSE {}

AfterPrune ==
    /\ unsent' = ToPush
    /\ pc' = IF ToPush = {} THEN "status" ELSE "push"
    /\ UNCHANGED <<pol, decision, switched>>

DeleteFrom(rs) == [r \in Resource |-> IF r \in rs THEN Absent ELSE applied[r]]

Prune ==
    /\ pc = "prune"
    /\ applied' = DeleteFrom(Orphans)
    /\ AfterPrune
    /\ UNCHANGED <<server, current, memory, human, failed, overrun, made, missed>>

(* A delete that fails is logged, the others are still tried. *)
PruneFails ==
    /\ pc = "prune"
    /\ Fails("delete")
    /\ \E r \in Orphans : applied' = DeleteFrom(Orphans \ {r})
    /\ AfterPrune
    /\ UNCHANGED <<server, current, memory, human, overrun, made, missed>>

(* Seeded fault: only a layer the RTDS server does not hold yet is recorded. *)
RecordedWrongOnce(l) == IF current[l].present THEN current ELSE [current EXCEPT ![l] = Content(pol)]

(* The RTDS server records a layer before it sends it, so a failed send    *)
(* changes what the log says, not what current holds.                      *)
Recorded(l) == [current EXCEPT ![l] = Content(pol)]

PushLayer(l) ==
    /\ pc = "push"
    /\ l \in unsent
    /\ current' = Recorded(l)
    /\ unsent' = unsent \ {l}
    /\ pc' = IF unsent = {l} THEN "status" ELSE "push"
    /\ UNCHANGED <<server, applied, pol, decision, switched, memory, human, failed, overrun,
                   made, missed>>

RecordedDecision == IF decision.trigger # 0 THEN decision ELSE pol.status.decision

(* Seeded fault: the history is started anew by every decision. *)
RecordedHistoryWrongForgets ==
    IF decision.trigger # 0 THEN <<decision>> ELSE pol.status.history

(* A decision, also one whose patch failed, is put before the history.     *)
RecordedHistory ==
    LET all  == <<decision>> \o pol.status.history
        kept == IF Len(all) > HistoryMax THEN HistoryMax ELSE Len(all)
    IN  IF decision.trigger # 0 THEN SubSeq(all, 1, kept) ELSE pol.status.history

Ready == [pol.status.conditions EXCEPT !.ready = "True", !.gen = pol.gen]

(* Seeded fault: the generation on the server, not the one reconciled. *)
NewStatusWrongGeneration ==
    [observed |-> api.gen, profile |-> pol.profile, managed |-> Rendered(pol),
     decision |-> RecordedDecision, history |-> RecordedHistory, conditions |-> Ready]

(* Seeded fault: the shared stats-flush resource is not recorded. *)
NewStatusWrongManaged ==
    [observed |-> pol.gen, profile |-> pol.profile, managed |-> pol.filters,
     decision |-> RecordedDecision, history |-> RecordedHistory, conditions |-> Ready]

NewStatus ==
    [observed |-> pol.gen, profile |-> pol.profile, managed |-> Rendered(pol),
     decision |-> RecordedDecision, history |-> RecordedHistory, conditions |-> Ready]

UpdateStatus ==
    /\ pc = "status"
    /\ PatchStatus(NewStatus)
    /\ Return
    /\ UNCHANGED <<applied, current, memory, human, failed, overrun, made, missed>>

(* A failed status patch is only logged, here and in markDegraded. *)
UpdateStatusFails ==
    /\ pc \in {"status", "degraded"}
    /\ Fails("status")
    /\ Return
    /\ UNCHANGED <<server, applied, current, memory, human, overrun, made, missed>>

MarkDegraded ==
    /\ pc = "degraded"
    /\ PatchStatus([pol.status EXCEPT !.conditions =
                      [ready |-> "False", degraded |-> "True", gen |-> pol.gen]])
    /\ Return
    /\ UNCHANGED <<applied, current, memory, human, failed, overrun, made, missed>>

-----------------------------------------------------------------------------
(* The world around the loop. *)

Deliver ==
    /\ watch # <<>>
    /\ cache' = Head(watch)
    /\ watch' = Tail(watch)
    /\ UNCHANGED <<api, applied, current, locals, memory, human, failed, overrun, made, missed>>

CooldownOver(t) ==
    /\ cooling' = cooling \ {t}
    /\ t \in cooling
    /\ UNCHANGED <<server, applied, current, locals, count, human, failed, overrun, made, missed>>

(* A human write; a change of spec, not of an annotation, is a generation. *)
Human(kind, new) ==
    /\ kind \in Edits
    /\ api.exists
    /\ new # api
    /\ edits < MaxEdits
    /\ edits' = edits + 1
    /\ edited' = edited \cup {kind}
    /\ overrun' = IF kind = "override" THEN 0 ELSE overrun
    /\ Write(new)
    /\ UNCHANGED <<applied, current, locals, memory, failed, made, missed>>

EditProfile(p) ==
    Human("profile", [api EXCEPT !.profile = p, !.gen = IF api.profile = p THEN @ ELSE @ + 1])

EditFilters(fs) ==
    Human("filters", [api EXCEPT !.filters = fs, !.gen = IF api.filters = fs THEN @ ELSE @ + 1])

EditDryRun == Human("dryRun", [api EXCEPT !.dryRun = ~@, !.gen = @ + 1])

EditOverride == Human("override", [api EXCEPT !.override = ~@])

Delete == Human("delete", [api EXCEPT !.exists = FALSE])

(* The owner references: Kubernetes collects what a deleted policy owned. *)
CollectGarbage ==
    /\ ~api.exists
    /\ applied' = [r \in Resource |-> Absent]
    /\ applied' # applied
    /\ UNCHANGED <<server, current, locals, memory, human, failed, overrun, made, missed>>

(* The operator restarts: everything in memory is lost, RTDS state         *)
(* included, and the cache is listed anew.                                 *)
Crash ==
    /\ Fails("crash")
    /\ Return
    /\ count' = [t \in Trigger |-> 0]
    /\ cooling' = {}
    /\ current' = [l \in Runtime |-> Absent]
    /\ cache' = api
    /\ watch' = <<>>
    /\ UNCHANGED <<api, applied, human, overrun, made, missed>>

-----------------------------------------------------------------------------
Step ==
    \/ FetchDeleted \/ Fetch
    \/ SkipEvaluate \/ \E met \in Observations : Evaluate(met)
    \/ Switch \/ Reget \/ Apply \/ Prune
    \/ \E l \in Runtime : PushLayer(l)
    \/ UpdateStatus \/ MarkDegraded
    \/ (~api.exists /\ SwitchFails)

CallFails ==
    \/ FetchDetectFails \/ (api.exists /\ SwitchFails) \/ SwitchResponseLost
    \/ ApplyFails \/ PruneFails \/ UpdateStatusFails

Failure == CallFails \/ Crash

HumanEdit ==
    \/ \E p \in AnyProfile : EditProfile(p)
    \/ \E fs \in FilterSets : EditFilters(fs)
    \/ EditDryRun \/ EditOverride \/ Delete

World ==
    \/ Deliver
    \/ \E t \in Trigger : CooldownOver(t)
    \/ HumanEdit
    \/ CollectGarbage

Next == Step \/ Failure \/ World

Spec == Init /\ [][Next]_vars

(* Every Reconcile runs to its end and requeues itself, watch events       *)
(* arrive, and the garbage collector works. Humans, samples, cooldowns and *)
(* failures are under no obligation.                                       *)
FairSpec == Spec /\ WF_vars(Step) /\ WF_vars(Deliver) /\ WF_vars(CollectGarbage)
=============================================================================
