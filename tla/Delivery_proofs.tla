--------------------------- MODULE Delivery_proofs ---------------------------
(***************************************************************************)
(* Theorems about the reconcile loop and the RTDS server together: the     *)
(* composition implements each of its parts, so that what is proved of     *)
(* each (Reconciler_proofs, Rtds_proofs) holds in it, and from these it    *)
(* follows what an Envoy enforces.                                         *)
(***************************************************************************)
EXTENDS DeliveryProps, Reconciler_proofs

Proved == INSTANCE Rtds_proofs WITH Layer <- Runtime, current <- latest

-----------------------------------------------------------------------------
(* The parts. *)

(* A step of the composition is a step of the reconcile loop, or leaves it *)
(* alone.                                                                  *)
LEMMA LoopSteps == [DeliveryNext]_allVars => [Next]_vars
<1> SUFFICES ASSUME [DeliveryNext]_allVars PROVE Next \/ UNCHANGED vars
  OBVIOUS
<1>1. CASE UNCHANGED allVars
  BY <1>1 DEF allVars
<1>2. CASE Reconciling \/ Failing \/ Changing \/ OperatorRestarts
  BY <1>2 DEF Reconciling, Failing, Changing, OperatorRestarts, Next, Failure
<1>3. CASE \E l \in Runtime : Pushing(l)
  BY <1>3 DEF Pushing, Next, Step
<1>4. CASE \E c \in Server!Conn : Serving(c) \/ Sending(c) \/ KeepaliveExpires(c)
  BY <1>4 DEF Serving, Sending, KeepaliveExpires
<1>5. CASE \E n \in Node : Networking(n)
  BY <1>5 DEF Networking
<1> QED BY <1>1, <1>2, <1>3, <1>4, <1>5 DEF DeliveryNext

(* It is a step of the RTDS server, or leaves that alone: the worker that  *)
(* waits makes Record a PushLayer.                                         *)
LEMMA ServerSteps == [DeliveryNext]_allVars => [Server!Next]_(Server!vars)
<1> SUFFICES ASSUME [DeliveryNext]_allVars PROVE Server!Next \/ UNCHANGED rtds
  BY DEF rtds, Server!vars
<1>1. CASE UNCHANGED allVars
  BY <1>1 DEF allVars
<1>2. CASE Reconciling \/ Failing \/ Changing
  BY <1>2 DEF Reconciling, Failing, Changing
<1>3. CASE OperatorRestarts
  BY <1>3 DEF OperatorRestarts, Server!Next
<1>4. CASE \E l \in Runtime : Pushing(l)
  BY <1>4 DEF Pushing, WorkerFree, Server!PushLayer, Server!Next
<1>5. CASE \E c \in Server!Conn : Serving(c) \/ KeepaliveExpires(c)
  BY <1>5 DEF Serving, KeepaliveExpires, Server!Next
<1>6. ASSUME NEW c \in Server!Conn, Sending(c) PROVE Server!Next
  <2>1. PICK p \in pushes : Server!PushSend(p, c)
    BY <1>6 DEF Sending
  <2>2. c \in p.targets
    BY <2>1 DEF Server!PushSend
  <2> QED BY <2>1, <2>2 DEF Server!Next
<1>7. ASSUME NEW n \in Node, Networking(n) PROVE Server!Next
  BY <1>7 DEF Networking, Server!Next
<1> QED BY <1>1, <1>2, <1>3, <1>4, <1>5, <1>6, <1>7 DEF DeliveryNext

(* Each part starts as on its own. *)
LEMMA PartsStart == DeliveryInit => Init /\ Server!Init
BY DEF DeliveryInit

(* The reconcile loop inside the operator is the one of Reconciler. *)
LEMMA ImplementsLoop == DeliverySpec => Spec
BY PartsStart, LoopSteps, PTL DEF DeliverySpec, Spec

(* The RTDS server inside the operator is the one of Rtds: no two pushes   *)
(* overlap, because the one worker waits for the sends of each             *)
(* (client.go:289-300, controller.go:261-263).                             *)
THEOREM ServerIsImplemented == DeliverySpec => ImplementsServer
<1>1. DeliverySpec => Server!Init /\ [][Server!Next]_(Server!vars)
  BY PartsStart, ServerSteps, PTL DEF DeliverySpec
<1> QED BY <1>1 DEF ImplementsServer, Server!Spec

(* What is proved of the server holds here. *)
LEMMA ServerInv == DeliverySpec => []Proved!RtdsInv
<1> USE DEF Server!Conn, Server!None, Server!NoValues, Server!Unused,
            Proved!Conn, Proved!None, Proved!NoValues, Proved!Unused
<1>1. Server!Init => Proved!Init
  BY DEF Server!Init, Proved!Init
<1>2. Server!Next => Proved!Next
  BY DEF Server!Next, Server!Handle, Server!Register, Server!Registered, Server!RegisterFails,
         Server!Replay, Server!ReplayFails, Server!Deregister, Server!Now, Server!Send,
         Server!KeepaliveExpires, Server!PushLayer, Server!Record, Server!Targets,
         Server!PushSend, Server!Left, Server!Connect, Server!Break, Server!EnvoyRestarts,
         Server!ServerRestarts, Server!server, Server!envoys,
         Proved!Next, Proved!Handle, Proved!Register, Proved!Registered, Proved!RegisterFails,
         Proved!Replay, Proved!ReplayFails, Proved!Deregister, Proved!Now, Proved!Send,
         Proved!KeepaliveExpires, Proved!PushLayer, Proved!Record, Proved!Targets,
         Proved!PushSend, Proved!Left, Proved!Connect, Proved!Break, Proved!EnvoyRestarts,
         Proved!ServerRestarts, Proved!server, Proved!envoys
<1>3. [Server!Next]_(Server!vars) => [Proved!Next]_(Proved!vars)
  BY <1>2 DEF Server!vars, Proved!vars
<1>4. Proved!Init => Proved!RtdsInv
  BY DeliveryAssumption, Proved!InitRtdsInv
<1>5. Proved!RtdsInv /\ [Proved!Next]_(Proved!vars) => Proved!RtdsInv'
  BY DeliveryAssumption, Proved!NextRtdsInv
<1> QED BY <1>1, <1>3, <1>4, <1>5, PartsStart, ServerSteps, PTL DEF DeliverySpec

-----------------------------------------------------------------------------
(* What a mesh resource shows while the RTDS server has no layer for it.   *)

Undisturbed == Untouched /\ "crash" \notin failed

(* No switch was made, or its layers were pushed, or the Reconcile that    *)
(* switched still has to push this one.                                    *)
Pushed(l) ==
    \/ made = <<>>
    \/ current[l].present
    \/ switched /\ (pc \in {"reget", "prune"} \/ l \in unsent)

(* A resource without a layer that overrides it dates from before the      *)
(* first switch, when everybody held the one profile there was.            *)
ShownInv ==
    api.exists /\ Undisturbed =>
        /\ pc # "idle" => Shares(pol)
        /\ pc # "push" => unsent = {}
        /\ \A l \in Runtime : l \in api.filters => Pushed(l)
        /\ \A l \in Runtime :
              applied[l].present => /\ l \in api.filters
                                    /\ made = <<>> => applied[l].profile = api.profile

(* What a step leaves alone of what ShownInv compares with.                *)
LEMMA StaysUndisturbed ==
    ASSUME TypeOK, HeardInv, Next, failed \subseteq failed', api'.exists, Undisturbed'
    PROVE  /\ api.exists /\ Undisturbed /\ Shares(cache) /\ api'.filters = api.filters
           /\ made' = <<>> => made = <<>> /\ api'.profile = api.profile
           /\ \A p : Shares(p) => Shares(p)'
<1>1. /\ api.exists /\ Untouched /\ api'.filters = api.filters
      /\ made' = <<>> => made = <<>> /\ api'.profile = api.profile
  BY SpecStays DEF Undisturbed
<1>2. Undisturbed
  BY <1>1 DEF Undisturbed
<1>3. Shares(cache)
  BY <1>1 DEF HeardInv, Heard
<1>4. ASSUME NEW p, Shares(p) PROVE Shares(p)'
  BY <1>1, <1>4 DEF Shares
<1> QED BY <1>1, <1>2, <1>3, <1>4

(* A step that writes no layer or resource and makes no switch.            *)
LEMMA QuietKeepsShown ==
    ASSUME TypeOK, HeardInv, ShownInv, Next, failed \subseteq failed',
           UNCHANGED <<current, applied, made>>,
           \/ UNCHANGED <<pc, pol, switched, unsent>>
           \/ /\ pc \notin {"reget", "prune", "push"} /\ pc' # "push"
              /\ unsent' = {} \/ UNCHANGED unsent
              /\ pc' = "idle" \/ (pc # "idle" /\ pol' = pol) \/ pol' = cache
    PROVE  ShownInv'
<1> SUFFICES ASSUME api'.exists, Undisturbed' PROVE ShownInv'
  BY DEF ShownInv
<1>1. /\ api.exists /\ Undisturbed /\ Shares(cache) /\ api'.filters = api.filters
      /\ made' = <<>> => made = <<>> /\ api'.profile = api.profile
  BY StaysUndisturbed
<1>2. CASE UNCHANGED <<pc, pol, switched, unsent>>
  BY <1>1, <1>2 DEF ShownInv, Pushed, Shares
<1>3. CASE /\ pc \notin {"reget", "prune", "push"} /\ pc' # "push"
           /\ unsent' = {} \/ UNCHANGED unsent
           /\ pc' = "idle" \/ (pc # "idle" /\ pol' = pol) \/ pol' = cache
  <2>1. unsent = {} /\ unsent' = {}
    BY <1>1, <1>3 DEF ShownInv
  <2> QED BY <1>1, <1>3, <2>1 DEF ShownInv, Pushed, Shares
<1> QED BY <1>2, <1>3

(* Applying writes what the Reconcile holds into resources of the filters. *)
LEMMA ApplyKeepsShown ==
    ASSUME TypeOK, HeardInv, RuntimeInv, ShownInv, Next, failed \subseteq failed',
           pc = "apply", NEW rs, rs \subseteq Rendered(pol), applied' = ApplyTo(rs),
           UNCHANGED <<current, pol, switched, unsent, made>>, pc' \in {"prune", "degraded"}
    PROVE  ShownInv'
<1> SUFFICES ASSUME api'.exists, Undisturbed' PROVE ShownInv'
  BY DEF ShownInv
<1>1. /\ api.exists /\ Undisturbed /\ api'.filters = api.filters
      /\ made' = <<>> => made = <<>> /\ api'.profile = api.profile
  BY StaysUndisturbed
<1>2. ~switched /\ Shares(pol) /\ unsent = {}
  BY <1>1 DEF RuntimeInv, ShownInv, Undisturbed
<1>3. ASSUME NEW l \in Runtime, applied'[l].present
      PROVE  l \in api.filters /\ (made = <<>> => applied'[l].profile = api.profile)
  <2>1. l \in Resource
    BY DEF Runtime, Resource, Filter
  <2>2. CASE l \in rs
    <3>1. applied'[l].profile = pol.profile
      BY <2>1, <2>2 DEF ApplyTo, Content
    <3>2. l \in pol.filters
      BY <2>2 DEF Rendered, Runtime
    <3> QED BY <1>2, <3>1, <3>2 DEF Shares
  <2>3. CASE l \notin rs
    <3>1. applied'[l] = applied[l]
      BY <2>1, <2>3 DEF ApplyTo
    <3> QED BY <1>1, <1>3, <3>1 DEF ShownInv
  <2> QED BY <2>2, <2>3
<1>4. ASSUME NEW l \in Runtime, l \in api.filters PROVE Pushed(l)'
  BY <1>1, <1>2, <1>4 DEF ShownInv, Pushed
<1> QED BY <1>1, <1>2, <1>3, <1>4 DEF ShownInv, Shares

(* After pruning, every layer of the policy is still to be pushed if the   *)
(* Reconcile has switched.                                                 *)
LEMMA PruneKeepsShown ==
    ASSUME RtdsOn, TypeOK, HeardInv, ShownInv, Next, failed \subseteq failed', pc = "prune",
           NEW rs, applied' = DeleteFrom(rs), AfterPrune, UNCHANGED <<api, current, made>>
    PROVE  ShownInv'
<1> SUFFICES ASSUME api'.exists, Undisturbed' PROVE ShownInv'
  BY DEF ShownInv
<1>1. api.exists /\ Undisturbed
  BY StaysUndisturbed
<1>2. Shares(pol) /\ unsent = {}
  BY <1>1 DEF ShownInv
<1>3. /\ unsent' = ToPush /\ UNCHANGED <<pol, switched>>
      /\ pc' = IF ToPush = {} THEN "status" ELSE "push"
  BY DEF AfterPrune
<1>4. ASSUME NEW l \in Runtime, applied'[l].present
      PROVE  l \in api.filters /\ (made = <<>> => applied'[l].profile = api.profile)
  <2>1. l \in Resource
    BY DEF Runtime, Resource, Filter
  <2>2. applied'[l] = applied[l]
    BY <1>4, <2>1 DEF DeleteFrom, Absent
  <2> QED BY <1>1, <1>4, <2>2 DEF ShownInv
<1>5. ASSUME NEW l \in Runtime, l \in api.filters PROVE Pushed(l)'
  <2>1. switched => l \in unsent'
    BY <1>2, <1>3, <1>5 DEF ToPush, RTDSLayers, Shares
  <2> QED BY <1>1, <1>2, <1>3, <1>5, <2>1 DEF ShownInv, Pushed
<1> QED BY <1>2, <1>3, <1>4, <1>5 DEF ShownInv, Shares

(* Each step of Reconcile that succeeds. *)
LEMMA StepKeepsShown ==
    ASSUME RtdsOn, TypeOK, HeardInv, RuntimeInv, ShownInv, Step
    PROVE  ShownInv'
<1> USE DEF server, locals, memory, human, Goto
<1>0. Next
  BY DEF Next
<1>1. CASE \/ FetchDeleted \/ Fetch \/ SkipEvaluate \/ (~api.exists /\ SwitchFails)
           \/ \E met \in Observations : Evaluate(met)
  <2>1. /\ UNCHANGED <<current, applied, made, unsent>> /\ failed \subseteq failed'
        /\ \/ UNCHANGED <<pc, pol, switched>>
           \/ pc = "idle" /\ pol' = cache /\ pc' # "push"
           \/ pc \in {"evaluate", "switch"} /\ pol' = pol /\ pc' # "push"
    BY <1>1 DEF FetchDeleted, Fetch, SkipEvaluate, SwitchFails, Evaluate
  <2> QED BY <1>0, <2>1, QuietKeepsShown
<1>2. CASE Switch
  <2>1. pol' = SwitchedPolicy /\ api' = SwitchedPolicy
    BY <1>2 DEF Switch, Write
  <2>2. api'.filters = api.filters /\ api'.exists = api.exists
    BY <1>2, SwitchWrites
  <2>3. /\ UNCHANGED <<current, applied, edited, failed, unsent>>
        /\ pc = "switch" /\ pc' = "reget" /\ switched' /\ made' # <<>>
    BY <1>2 DEF Switch, TypeOK
  <2> QED BY <2>1, <2>2, <2>3 DEF ShownInv, Pushed, Shares, Undisturbed, Untouched
<1>3. CASE Reget
  <2>1. UNCHANGED <<api, current, applied, edited, failed, made>> /\ pc = "reget"
    BY <1>3 DEF Reget
  <2> SUFFICES ASSUME api.exists, Undisturbed PROVE ShownInv'
    BY <2>1 DEF ShownInv, Undisturbed, Untouched
  <2>2. Shares(cache)
    BY DEF HeardInv, Heard, Undisturbed
  <2>3. pol' = cache /\ pc' = "prune" /\ UNCHANGED <<switched, unsent>>
    BY <1>3, <2>2 DEF Reget, Shares
  <2> QED BY <2>1, <2>2, <2>3 DEF ShownInv, Pushed, Shares
<1>4. CASE Apply
  BY <1>0, <1>4, ApplyKeepsShown DEF Apply
<1>5. CASE Prune
  BY <1>0, <1>5, PruneKeepsShown DEF Prune
<1>6. ASSUME NEW l \in Runtime, PushLayer(l) PROVE ShownInv'
  <2>1. /\ UNCHANGED <<api, applied, edited, failed, pol, switched, made>>
        /\ pc = "push" /\ unsent' = unsent \ {l}
        /\ pc' = IF unsent = {l} THEN "status" ELSE "push"
    BY <1>6 DEF PushLayer
  <2>2. /\ current'[l].present
        /\ \A k \in Runtime \ {l} : current'[k] = current[k]
    BY <1>6 DEF PushLayer, Recorded, Content, TypeOK
  <2>3. pc' # "push" => unsent' = {}
    BY <2>1
  <2>4. ASSUME NEW k \in Runtime, Pushed(k) PROVE Pushed(k)'
    BY <2>1, <2>2, <2>4 DEF Pushed
  <2>5. Undisturbed' => Undisturbed
    BY <2>1 DEF Undisturbed, Untouched
  <2> QED BY <2>1, <2>3, <2>4, <2>5 DEF ShownInv, Shares
<1>7. CASE UpdateStatus \/ MarkDegraded
  <2>1. /\ UNCHANGED <<current, applied, failed, made>>
        /\ pc \in {"status", "degraded"} /\ pc' = "idle" /\ unsent' = {}
    BY <1>7 DEF UpdateStatus, MarkDegraded, Return
  <2> QED BY <1>0, <2>1, QuietKeepsShown
<1> QED BY <1>1, <1>2, <1>3, <1>4, <1>5, <1>6, <1>7 DEF Step

(* Each failure and each step outside Reconcile. *)
LEMMA OthersKeepShown ==
    ASSUME RtdsOn, TypeOK, HeardInv, RuntimeInv, ShownInv, Failure \/ World
    PROVE  ShownInv'
<1> USE DEF server, locals, memory, human, Goto
<1>0. Next
  BY DEF Next
<1>1. CASE FetchDetectFails \/ SwitchFails
  <2>1. /\ UNCHANGED <<current, applied, made, unsent>> /\ failed \subseteq failed'
        /\ \/ pc = "idle" /\ pol' = cache /\ pc' # "push"
           \/ pc = "switch" /\ pol' = pol /\ pc' # "push"
    BY <1>1 DEF FetchDetectFails, SwitchFails, Fails
  <2> QED BY <1>0, <2>1, QuietKeepsShown
<1>2. CASE SwitchResponseLost \/ Crash
  BY <1>2 DEF SwitchResponseLost, Crash, Fails, ShownInv, Undisturbed, Untouched
<1>3. CASE ApplyFails
  <2>1. PICK rs : rs \subseteq Rendered(pol) /\ applied' = ApplyTo(rs)
    BY <1>3 DEF ApplyFails
  <2>2. /\ UNCHANGED <<current, pol, switched, unsent, made>> /\ failed \subseteq failed'
        /\ pc = "apply" /\ pc' = "degraded"
    BY <1>3 DEF ApplyFails, Fails
  <2> QED BY <1>0, <2>1, <2>2, ApplyKeepsShown
<1>4. CASE PruneFails
  <2>1. PICK rs : applied' = DeleteFrom(rs)
    BY <1>4 DEF PruneFails
  <2>2. UNCHANGED <<api, current, made>> /\ failed \subseteq failed' /\ pc = "prune" /\ AfterPrune
    BY <1>4 DEF PruneFails, Fails
  <2> QED BY <1>0, <2>1, <2>2, PruneKeepsShown
<1>5. CASE UpdateStatusFails
  <2>1. /\ UNCHANGED <<current, applied, made>> /\ failed \subseteq failed'
        /\ pc \in {"status", "degraded"} /\ pc' = "idle" /\ unsent' = {}
    BY <1>5 DEF UpdateStatusFails, Return, Fails
  <2> QED BY <1>0, <2>1, QuietKeepsShown
<1>6. CASE Deliver \/ \E t \in Trigger : CooldownOver(t)
  <2>1. UNCHANGED <<current, applied, failed, made, pc, pol, switched, unsent>>
    BY <1>6 DEF Deliver, CooldownOver
  <2> QED BY <1>0, <2>1, QuietKeepsShown
<1>7. CASE CollectGarbage
  BY <1>7 DEF CollectGarbage, ShownInv
<1>8. CASE HumanEdit
  <2>1. UNCHANGED <<current, applied, failed, made, pc, pol, switched, unsent>>
    BY <1>8, HumanEditWrites
  <2> QED BY <1>0, <2>1, QuietKeepsShown
<1> QED BY <1>1, <1>2, <1>3, <1>4, <1>5, <1>6, <1>7, <1>8 DEF Failure, CallFails, World

(* The invariant holds in every state of the loop, and so here. *)
LEMMA ShownInvHolds == RtdsOn /\ DeliverySpec => []ShownInv
<1> SUFFICES ASSUME RtdsOn PROVE DeliverySpec => []ShownInv
  OBVIOUS
<1>1. Init => ShownInv
  <2> SUFFICES ASSUME Init PROVE ShownInv
    OBVIOUS
  <2>1. \A l \in Runtime : ~applied[l].present
    BY DEF Init, Absent, Runtime, Resource, Filter
  <2> QED BY <2>1 DEF Init, ShownInv, Pushed
<1>2. TypeOK /\ HeardInv /\ RuntimeInv /\ ShownInv /\ [Next]_vars => ShownInv'
  <2> SUFFICES ASSUME TypeOK, HeardInv, RuntimeInv, ShownInv, [Next]_vars PROVE ShownInv'
    OBVIOUS
  <2>1. CASE UNCHANGED vars
    BY <2>1 DEF vars, ShownInv, Pushed, Shares, Undisturbed, Untouched
  <2> QED BY <2>1, StepKeepsShown, OthersKeepShown DEF Next
<1> QED BY <1>1, <1>2, TypeCorrect, RuntimeInvHolds, ImplementsLoop, PTL DEF Spec

-----------------------------------------------------------------------------
(* What ties the loop to the server. *)

(* Only a Reconcile that switched pushes, and it is not over before all    *)
(* sends are.                                                              *)
PushesSwitch ==
    /\ pc = "push" => switched
    /\ pushes # {} => switched

(* The layers the loop has pushed are those the server has. *)
ValuesAgree ==
    /\ value \in [1..MaxPushes -> ContentSet]
    /\ \A l \in Runtime :
          IF latest[l] = 0 THEN current[l] = Absent ELSE value[latest[l]] = current[l]

(* Without a restart of the operator, no Envoy has a layer that the server *)
(* does not have.                                                          *)
NothingLeftOver ==
    "crash" \notin failed =>
        \A l \in Runtime : latest[l] = 0 => \A n \in Node : held[n][l] = 0

LinkInv == PushesSwitch /\ ValuesAgree /\ NothingLeftOver

(* The loop keeps to its part of it. *)
LEMMA LoopKeepsPushes ==
    ASSUME PushesSwitch, pushes = {}, Step \/ CallFails
    PROVE  /\ pc' = "push" => switched'
           /\ pc # "push" => current' = current
           /\ failed \subseteq failed'
<1> USE DEF Goto, Fails, locals, PushesSwitch
<1>1. CASE \/ FetchDeleted \/ Fetch \/ SkipEvaluate \/ Switch \/ Reget \/ Apply
           \/ \E met \in Observations : Evaluate(met)
  BY <1>1 DEF FetchDeleted, Fetch, SkipEvaluate, Switch, Reget, Apply, Evaluate, Return
<1>2. CASE Prune \/ PruneFails
  BY <1>2 DEF Prune, PruneFails, AfterPrune, ToPush
<1>3. CASE \E l \in Runtime : PushLayer(l)
  BY <1>3 DEF PushLayer
<1>4. CASE UpdateStatus \/ MarkDegraded \/ UpdateStatusFails
  BY <1>4 DEF UpdateStatus, MarkDegraded, UpdateStatusFails, Return
<1>5. CASE SwitchFails \/ SwitchResponseLost \/ FetchDetectFails \/ ApplyFails
  BY <1>5 DEF SwitchFails, SwitchResponseLost, FetchDetectFails, ApplyFails
<1> QED BY <1>1, <1>2, <1>3, <1>4, <1>5 DEF Step, CallFails

(* The world around it leaves all of this alone. *)
LEMMA WorldKeepsPushes ==
    ASSUME World
    PROVE  UNCHANGED <<pc, switched, current, failed>>
BY DEF World, Deliver, CooldownOver, CollectGarbage, HumanEdit, Human, EditProfile, EditFilters,
       EditDryRun, EditOverride, Delete, locals

(* What is sent is a layer that the server has. *)
LEMMA SendKeepsOthers ==
    ASSUME Proved!RtdsInv, NEW c, NEW l \in Runtime, NEW v, latest[l] # 0, Server!Send(c, l, v)
    PROVE  \A n \in Node, k \in Runtime : held'[n][k] = held[n][k] \/ latest[k] # 0
<1>1. held \in [Node -> [Runtime -> 0..MaxPushes]]
  BY DEF Proved!RtdsInv, Proved!TypeOK
<1> QED BY <1>1 DEF Server!Send

(* A handler sends the layers of its copy. *)
LEMMA HandleSends ==
    ASSUME Proved!RtdsInv, NEW c \in Server!Conn, Server!Handle(c)
    PROVE  /\ UNCHANGED <<latest, pushes>>
           /\ \A n \in Node, k \in Runtime : held'[n][k] = held[n][k] \/ latest[k] # 0
<1>1. CASE Server!Register(c) \/ Server!RegisterFails(c) \/ Server!ReplayFails(c)
              \/ Server!Deregister(c)
  BY <1>1 DEF Server!Register, Server!Registered, Server!RegisterFails, Server!ReplayFails,
              Server!Deregister, Server!envoys, Server!server
<1>2. ASSUME NEW l \in Runtime, Server!Replay(c, l)
      PROVE  /\ UNCHANGED <<latest, pushes>>
             /\ \A n \in Node, k \in Runtime : held'[n][k] = held[n][k] \/ latest[k] # 0
  <2>1. c \in Proved!Conn /\ l \in handler[c].todo /\ handler[c].phase = "replay"
    BY <1>2 DEF Server!Replay, Server!Conn, Proved!Conn
  <2>2. handler[c].snap[l] # 0 /\ handler[c].snap[l] <= latest[l]
    BY <2>1 DEF Proved!RtdsInv, Proved!TypeOK, Proved!NothingNewer
  <2>3. handler[c].snap[l] \in 0..MaxPushes /\ latest[l] \in 0..MaxPushes
    BY <2>1 DEF Proved!RtdsInv, Proved!TypeOK, Proved!Handler
  <2>4. latest[l] # 0
    BY <2>2, <2>3, DeliveryAssumption
  <2>5. Server!Send(c, l, handler[c].snap[l]) /\ UNCHANGED <<latest, pushes>>
    BY <1>2 DEF Server!Replay, Server!server
  <2> QED BY <2>4, <2>5, SendKeepsOthers
<1> QED BY <1>1, <1>2 DEF Server!Handle

(* A push sends the layer it has recorded. *)
LEMMA PushSends ==
    ASSUME Proved!RtdsInv, NEW c, NEW p \in pushes, Server!PushSend(p, c)
    PROVE  /\ latest' = latest
           /\ \A n \in Node, k \in Runtime : held'[n][k] = held[n][k] \/ latest[k] # 0
<1>1. p \in Proved!Push /\ latest[p.layer] = p.value
  BY DEF Proved!RtdsInv, Proved!TypeOK, Proved!PushesCurrent
<1>2. p.layer \in Runtime /\ latest[p.layer] # 0
  BY <1>1 DEF Proved!Push
<1>3. Server!Send(c, p.layer, p.value) /\ latest' = latest
  BY DEF Server!PushSend
<1> QED BY <1>2, <1>3, SendKeepsOthers

(* A push is recorded by the loop and by the server. *)
LEMMA PushingKeepsLink ==
    ASSUME TypeOK, Proved!RtdsInv, LinkInv, NEW l \in Runtime, Pushing(l)
    PROVE  LinkInv'
<1>1. /\ pc = "push" /\ UNCHANGED <<switched, failed>>
      /\ current' = [current EXCEPT ![l] = Content(pol)]
  BY DEF Pushing, PushLayer, Recorded
<1>2. /\ pushed < MaxPushes /\ held' = held
      /\ latest' = [latest EXCEPT ![l] = pushed + 1]
      /\ value' = [value EXCEPT ![pushed + 1] = Content(pol)]
  BY DEF Pushing, Server!Record, Server!envoys
<1>3. /\ pushed \in 0..MaxPushes /\ latest \in [Runtime -> 0..MaxPushes]
      /\ \A k \in Runtime : latest[k] <= pushed
  BY DEF Proved!RtdsInv, Proved!TypeOK, Proved!NothingNewer
<1>4. PushesSwitch'
  BY <1>1 DEF LinkInv, PushesSwitch
<1>5. pushed + 1 \in 1..MaxPushes /\ pushed + 1 # 0 /\ \A k \in Runtime : latest[k] # pushed + 1
  BY <1>2, <1>3, DeliveryAssumption
<1>6. value' \in [1..MaxPushes -> ContentSet]
  BY <1>2, <1>5, ContentTyped DEF TypeOK, LinkInv, ValuesAgree
<1>7. ASSUME NEW k \in Runtime
      PROVE  IF latest'[k] = 0 THEN current'[k] = Absent ELSE value'[latest'[k]] = current'[k]
  <2>1. CASE k = l
    <3>1. latest'[k] = pushed + 1
      BY <1>2, <1>3, <2>1
    <3>2. value'[pushed + 1] = Content(pol)
      BY <1>2, <1>5 DEF LinkInv, ValuesAgree
    <3>3. current'[k] = Content(pol)
      BY <1>1, <2>1 DEF TypeOK
    <3> QED BY <1>5, <3>1, <3>2, <3>3
  <2>2. CASE k # l
    <3>1. latest'[k] = latest[k] /\ current'[k] = current[k]
      BY <1>1, <1>2, <1>3, <2>2 DEF TypeOK
    <3>2. latest[k] # 0 => value'[latest[k]] = value[latest[k]]
      BY <1>2, <1>3, <1>5, DeliveryAssumption DEF LinkInv, ValuesAgree
    <3> QED BY <3>1, <3>2 DEF LinkInv, ValuesAgree
  <2> QED BY <2>1, <2>2
<1>8. NothingLeftOver'
  BY <1>1, <1>2, <1>3, <1>5 DEF LinkInv, NothingLeftOver
<1> QED BY <1>4, <1>6, <1>7, <1>8 DEF LinkInv, ValuesAgree

(* A step of the server that records nothing, and sends only layers that   *)
(* the server has, or lets an Envoy forget all.                            *)
LEMMA ServingKeepsLink ==
    ASSUME LinkInv, UNCHANGED <<pc, switched, current, failed, value, latest>>,
           pushes' # {} => pushes # {},
           \A n \in Node, k \in Runtime :
               held'[n][k] = held[n][k] \/ held'[n][k] = 0 \/ latest[k] # 0
    PROVE  LinkInv'
BY DEF LinkInv, PushesSwitch, ValuesAgree, NothingLeftOver

(* An Envoy connects, breaks off or restarts. *)
LEMMA NetworkingForgets ==
    ASSUME Proved!RtdsInv, NEW m \in Node, Networking(m)
    PROVE  /\ UNCHANGED <<latest, pushes>>
           /\ \A n \in Node, k \in Runtime : held'[n][k] = held[n][k] \/ held'[n][k] = 0
<1>1. held \in [Node -> [Runtime -> 0..MaxPushes]]
  BY DEF Proved!RtdsInv, Proved!TypeOK
<1>2. CASE Server!Connect(m) \/ \E seen \in {"silent", "closed"} : Server!Break(m, seen)
  BY <1>2 DEF Server!Connect, Server!Break, Server!server
<1>3. CASE Server!EnvoyRestarts(m)
  BY <1>1, <1>3 DEF Server!EnvoyRestarts, Server!server, Server!NoValues
<1> QED BY <1>2, <1>3 DEF Networking

(* The tie is kept by every step. *)
LEMMA NextLinkInv ==
    TypeOK /\ Proved!RtdsInv /\ LinkInv /\ [DeliveryNext]_allVars => LinkInv'
<1> SUFFICES ASSUME TypeOK, Proved!RtdsInv, LinkInv, [DeliveryNext]_allVars PROVE LinkInv'
  OBVIOUS
<1>1. CASE UNCHANGED allVars
  BY <1>1, ServingKeepsLink DEF allVars, vars, rtds
<1>2. CASE Reconciling \/ Failing
  <2>1. pushes = {} /\ (Step \/ CallFails) /\ UNCHANGED <<rtds, value>>
    BY <1>2 DEF Reconciling, Failing, WorkerFree
  <2>2. /\ pc' = "push" => switched'
        /\ pc # "push" => current' = current
        /\ failed \subseteq failed'
    BY <2>1, LoopKeepsPushes DEF LinkInv
  <2>3. current' = current
    <3>1. CASE Reconciling
      BY <2>2, <3>1 DEF Reconciling
    <3>2. CASE Failing
      BY <3>2 DEF Failing, CallFails, FetchDetectFails, SwitchFails, SwitchResponseLost,
                  ApplyFails, PruneFails, UpdateStatusFails
    <3> QED BY <1>2, <3>1, <3>2
  <2> QED BY <2>1, <2>2, <2>3 DEF rtds, LinkInv, PushesSwitch, ValuesAgree, NothingLeftOver
<1>3. CASE Changing
  <2>1. UNCHANGED <<pc, switched, current, failed>>
    BY <1>3, WorldKeepsPushes DEF Changing
  <2> QED BY <1>3, <2>1, ServingKeepsLink DEF Changing, rtds
<1>4. CASE OperatorRestarts
  <2>1. "crash" \in failed' /\ pc' = "idle" /\ current' = [l \in Runtime |-> Absent]
    BY <1>4 DEF OperatorRestarts, Crash, Fails, Return
  <2>2. pushes' = {} /\ latest' = [l \in Runtime |-> 0] /\ value' = value
    BY <1>4 DEF OperatorRestarts, Server!ServerRestarts, Server!NoValues
  <2> QED BY <2>1, <2>2 DEF LinkInv, PushesSwitch, ValuesAgree, NothingLeftOver
<1>5. CASE \E l \in Runtime : Pushing(l)
  BY <1>5, PushingKeepsLink
<1>6. ASSUME NEW c \in Server!Conn, Serving(c) PROVE LinkInv'
  BY <1>6, HandleSends, ServingKeepsLink DEF Serving, vars
<1>7. ASSUME NEW c \in Server!Conn, Sending(c) PROVE LinkInv'
  BY <1>7, PushSends, ServingKeepsLink DEF Sending, vars
<1>8. ASSUME NEW c \in Server!Conn, KeepaliveExpires(c) PROVE LinkInv'
  BY <1>8, ServingKeepsLink DEF KeepaliveExpires, Server!KeepaliveExpires, Server!server,
                                Server!envoys, vars
<1>9. ASSUME NEW n \in Node, Networking(n) PROVE LinkInv'
  <2>1. UNCHANGED <<vars, value>>
    BY <1>9 DEF Networking
  <2> QED BY <1>9, <2>1, NetworkingForgets, ServingKeepsLink DEF vars
<1> QED BY <1>1, <1>2, <1>3, <1>4, <1>5, <1>6, <1>7, <1>8, <1>9 DEF DeliveryNext

(* It is there at the start. *)
LEMMA InitLinkInv == DeliveryInit => LinkInv
<1> SUFFICES ASSUME DeliveryInit PROVE LinkInv
  OBVIOUS
<1>1. /\ pc = "idle" /\ pushes = {}
      /\ \A l \in Runtime : /\ latest[l] = 0 /\ current[l] = Absent
                            /\ \A n \in Node : held[n][l] = 0
  BY DEF DeliveryInit, Init, Server!Init, Server!NoValues
<1>2. value \in [1..MaxPushes -> ContentSet]
  BY AbsentTyped DEF DeliveryInit
<1> QED BY <1>1, <1>2 DEF LinkInv, PushesSwitch, ValuesAgree, NothingLeftOver

(* A switch reaches the Envoys. With RTDS on, however far the cache lags,  *)
(* every Envoy that is served enforces the active profile once the         *)
(* Reconcile that switched is over, if its re-read saw the switch: what it *)
(* holds is what the server has (HoldsCurrent), that is what the loop      *)
(* pushed last (ValuesAgree), that is the active profile (RuntimeInv), and *)
(* where nothing was pushed no switch was made, and the mesh resource has  *)
(* the one profile there was (ShownInv) (controller.go:203-274,            *)
(* client.go:202-300).                                                     *)
THEOREM SwitchesReachEnvoys ==
    RtdsOn /\ DeliverySpec => []EnvoysFollowProfile
<1> SUFFICES ASSUME RtdsOn PROVE DeliverySpec => []EnvoysFollowProfile
  OBVIOUS
<1>1. DeliverySpec => []LinkInv
  BY InitLinkInv, NextLinkInv, ServerInv, ImplementsLoop, TypeCorrect, PTL DEF DeliverySpec
<1>2. RuntimeInv /\ ShownInv /\ Proved!RtdsInv /\ LinkInv => EnvoysFollowProfile
  <2> SUFFICES ASSUME RuntimeInv, ShownInv, Proved!RtdsInv, LinkInv, ~switched, api.exists,
                      edited \cap {"profile", "filters"} = {},
                      failed \cap {"response", "crash"} = {}, ~missed,
                      NEW n \in Node, NEW l \in Runtime, Served(n), Enforced(n, l).present
               PROVE  Enforced(n, l).profile = api.profile
    BY DEF EnvoysFollowProfile
  <2>1. Untouched /\ Undisturbed
    BY DEF Untouched, Undisturbed
  <2>2. pushes = {}
    BY DEF LinkInv, PushesSwitch
  <2>3. latest[l] = 0 \/ held[n][l] = latest[l]
    <3>1. PICK c \in Server!Conn :
              /\ link[n] = c /\ streams[n] = c
              /\ handler[c].phase = "serve" /\ c \notin overlap
      BY DEF Served
    <3>2. c \in Proved!Conn /\ c # Proved!None
      BY <3>1, DeliveryAssumption DEF Server!Conn, Proved!Conn, Proved!None
    <3> QED BY <2>2, <3>1, <3>2 DEF Proved!RtdsInv, Proved!HoldsCurrent, Proved!Serving
  <2>4. CASE latest[l] = 0
    <3>1. held[n][l] = 0 /\ current[l] = Absent
      BY <2>4 DEF LinkInv, NothingLeftOver, ValuesAgree
    <3>2. applied[l].present /\ Enforced(n, l) = applied[l]
      BY <3>1 DEF Enforced
    <3>3. l \in api.filters /\ Pushed(l) /\ (made = <<>> => applied[l].profile = api.profile)
      BY <2>1, <3>2 DEF ShownInv
    <3> QED BY <3>1, <3>2, <3>3 DEF Pushed, Absent
  <2>5. CASE latest[l] # 0
    <3>1. Enforced(n, l) = current[l]
      BY <2>3, <2>5 DEF Enforced, LinkInv, ValuesAgree
    <3> QED BY <2>1, <3>1 DEF RuntimeInv, LayerInv
  <2> QED BY <2>4, <2>5
<1> QED BY <1>1, <1>2, RuntimeInvHolds, ShownInvHolds, ServerInv, ImplementsLoop, PTL
=============================================================================
