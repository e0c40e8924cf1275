------------------------------- MODULE Poller -------------------------------
(***************************************************************************)
(* The background poller of one policy (internal/signal/poller.go) and the *)
(* reconcile loop that starts, restarts and reads it                       *)
(* (ensurePoller and step 3 of Reconcile), over the life of policies that  *)
(* are edited, deleted and created again under their name.                 *)
(*                                                                         *)
(* The two are goroutines that meet in the channel out, of capacity one:   *)
(* neither waits for the other, and every select of sendNonBlocking is a   *)
(* step of its own. They also share the policy object of the Reconcile     *)
(* that started the poller, which that Reconcile decodes responses into.   *)
(* A cancelled poller may end its tick, into a channel nobody reads.       *)
(***************************************************************************)
EXTENDS TriggerEval, Sequences

CONSTANTS
    Config,       \* spec.detection as pollerConfig passes it on
    Samples,      \* the signals a scrape may return
    Unreachable,  \* a scrape that returns an error
    NoSignal,     \* the zero trigger.Signals
    MaxGen,       \* bound on the generation of the policy
    MaxLives,     \* bound on the policies created under the name
    MaxRestarts   \* bound on restarts of the operator

DefaultPollInterval == 500
DefaultConsecutiveBreaches == 3
DefaultConsecutiveRecoveries == 4
MinPollInterval == 100
MaxPollInterval == 10000

(* Zero and out-of-range values are replaced by the defaults. *)
WithDefaults(c) ==
    [pollInterval |->
        IF c.pollInterval \in MinPollInterval..MaxPollInterval
        THEN c.pollInterval ELSE DefaultPollInterval,
     breaches |->
        IF c.breaches \in 1..20 THEN c.breaches ELSE DefaultConsecutiveBreaches,
     recoveries |->
        IF c.recoveries \in 1..20 THEN c.recoveries ELSE DefaultConsecutiveRecoveries]

Breaches == WithDefaults(Config).breaches
Recoveries == WithDefaults(Config).recoveries

ASSUME PollerAssumption ==
    /\ Config \in [pollInterval: Int, breaches: Int, recoveries: Int]
    /\ Samples \subseteq [successRate: Int, serviceLatencyMs: Int, rps: Int, samples: Nat]
    /\ Unreachable \notin Samples
    /\ NoSignal \notin Samples
    /\ MaxGen \in Nat \ {0} /\ MaxLives \in Nat \ {0} /\ MaxRestarts \in Nat

(* The debounce gate looks at lower bounds of the success rate only. *)
BreachesOne(triggers, signals) ==
    \E t \in triggers : \E c \in When[t].clauses :
        /\ c.signal = "successRate" /\ c.side = "below"
        /\ c.limit > 0
        /\ signals.successRate < c.limit

IsBreaching(signals) == BreachesOne(Trigger, signals)

-----------------------------------------------------------------------------
VARIABLES
    service,   \* what a scrape returns now
    policy,    \* the policy on the server: its uid, its generation (0: deleted)
    poller,    \* the running Poller: uid and generation (0: none), breachState
    step,      \* where its goroutine is, in sendNonBlocking
    sig,       \* the last signal it decided to send
    out,       \* the channel
    loop,      \* where the reconcile loop is
    read,      \* the uid of the policy the running Reconcile read, 0 for none
    shared,    \* the running Reconcile writes to the object the poller reads
    signals,   \* the signals of the running Reconcile
    restarts,  \* number of restarts so far
    told,      \* history: the last signal received, and from which poller
    log,       \* history: what the last ticks took scrapes for, TRUE: breaching
    torn,      \* history: sig was sent for something else than it shows
    unseen     \* history: a deletion that no Reconcile has noticed yet

goroutine == <<poller, step, sig, out, log, torn>>
reconcile == <<loop, read, shared, signals, told>>
world == <<service, policy, restarts>>
vars == <<service, policy, poller, step, sig, out, loop, read, shared, signals, restarts,
          told, log, torn, unseen>>

(* Counters are only compared with the two thresholds: they saturate there. *)
Cap == IF Breaches > Recoveries THEN Breaches ELSE Recoveries

Up(n) == IF n < Cap THEN n + 1 ELSE n

Debouncer == INSTANCE Debounce WITH firing <- poller.firing, Memory <- Cap

NewPoller(p) == [uid |-> p.uid, gen |-> p.gen, breach |-> 0, clean |-> 0, firing |-> FALSE]

NoPoller == NewPoller([uid |-> 0, gen |-> 0])

Nothing == [uid |-> 0, gen |-> 0, sig |-> NoSignal]

Init ==
    /\ service \in Samples
    /\ policy = [uid |-> 1, gen |-> 1]
    /\ poller = NoPoller
    /\ step = "wait"
    /\ sig = NoSignal
    /\ out = <<>>
    /\ loop = "idle"
    /\ read = 0
    /\ shared = FALSE
    /\ signals = NoSignal
    /\ restarts = 0
    /\ told = Nothing
    /\ log = <<>>
    /\ torn = FALSE
    /\ unseen = FALSE

-----------------------------------------------------------------------------
(* The poller goroutine. *)

(* A failed scrape holds the debounce state. *)
TickFails ==
    /\ poller.gen # 0 /\ step = "wait"
    /\ service = Unreachable
    /\ UNCHANGED vars

(* Seeded fault: clean scrapes need not be consecutive. *)
CountedWrongKeepsClean(breaching) ==
    [poller EXCEPT !.breach = IF breaching THEN Up(@) ELSE 0,
                   !.clean  = IF breaching THEN @ ELSE Up(@)]

Counted(breaching) ==
    [poller EXCEPT !.breach = IF breaching THEN Up(@) ELSE 0,
                   !.clean  = IF breaching THEN 0 ELSE Up(@)]

ConfirmsBreach(p) == ~p.firing /\ p.breach >= Breaches

ConfirmsRecovery(p) == p.firing /\ p.clean >= Recoveries

(* A data race: a tick in the middle of the decoding sees the first        *)
(* triggers only. The decoding is far shorter than the time between ticks. *)
Racing == shared /\ loop = "decode"

Visible == IF Racing THEN {1..k : k \in 0..NumTriggers} ELSE {Trigger}

Tick ==
    /\ poller.gen # 0 /\ step = "wait"
    /\ service # Unreachable
    /\ \E triggers \in Visible :
          LET breaching == BreachesOne(triggers, service)
              counted   == Counted(breaching)
              emits     == ConfirmsBreach(counted) \/ ConfirmsRecovery(counted)
          IN  /\ poller' = [counted EXCEPT !.firing = IF emits THEN ~@ ELSE @]
              /\ IF emits THEN /\ step' = "offer" /\ sig' = service
                               /\ torn' = (breaching # IsBreaching(service))
                          ELSE UNCHANGED <<step, sig, torn>>
              /\ log' = Debouncer!Latest(Append(log, breaching))
    /\ shared' = (shared /\ ~Racing)
    /\ UNCHANGED <<world, out, loop, read, signals, told, unseen>>

(* Seeded fault: the channel takes more than its capacity. *)
OfferWrongUnbounded ==
    /\ step = "offer"
    /\ out' = Append(out, sig)
    /\ step' = "wait"
    /\ UNCHANGED <<world, poller, sig, log, torn, reconcile, unseen>>

(* sendNonBlocking: first select. *)
Offer ==
    /\ step = "offer"
    /\ IF out = <<>> THEN out' = <<sig>> /\ step' = "wait"
                     ELSE out' = out /\ step' = "drain"
    /\ UNCHANGED <<world, poller, sig, log, torn, reconcile, unseen>>

(* Seeded fault: the pending signal stays, the fresh one is dropped. *)
DrainWrongKeepsPending ==
    /\ step = "drain"
    /\ step' = "resend"
    /\ UNCHANGED <<world, poller, sig, out, log, torn, reconcile, unseen>>

(* Its default case: the pending signal is drained, if it is still there. *)
Drain ==
    /\ step = "drain"
    /\ out' = <<>>
    /\ step' = "resend"
    /\ UNCHANGED <<world, poller, sig, log, torn, reconcile, unseen>>

Resend ==
    /\ step = "resend"
    /\ out' = IF out = <<>> THEN <<sig>> ELSE out
    /\ step' = "wait"
    /\ UNCHANGED <<world, poller, sig, log, torn, reconcile, unseen>>

-----------------------------------------------------------------------------
(* The reconcile loop. *)

(* A poller p takes the place of the one there was, with a channel of its own. *)
Becomes(p) ==
    /\ poller' = p
    /\ step' = "wait"
    /\ sig' = NoSignal
    /\ out' = <<>>
    /\ log' = <<>>
    /\ torn' = FALSE
    /\ unseen' = FALSE

(* Seeded fault: the poller outlives the policy. *)
FetchDeletedWrongKeepsPoller ==
    /\ loop = "idle"
    /\ policy.gen = 0
    /\ unseen' = FALSE
    /\ UNCHANGED <<world, goroutine, reconcile>>

(* Not found: the poller is cancelled and forgotten. *)
FetchDeleted ==
    /\ loop = "idle"
    /\ policy.gen = 0
    /\ Becomes(NoPoller)
    /\ UNCHANGED <<world, reconcile>>

(* An invalid policy, or no mesh for it: the reconcile returns before it   *)
(* comes to the poller, and one that runs goes on as it was started.       *)
ReturnsEarly ==
    /\ loop = "idle"
    /\ policy.gen # 0
    /\ UNCHANGED vars

(* Seeded fault: every reconcile starts a poller. *)
EnsurePollerWrongAlways ==
    /\ loop = "idle"
    /\ policy.gen # 0
    /\ loop' = "receive"
    /\ read' = policy.uid
    /\ shared' = TRUE
    /\ Becomes(NewPoller(policy))
    /\ UNCHANGED <<world, signals, told>>

(* ensurePoller compares generations only: a new one cancels the poller    *)
(* and starts another on the object this Reconcile holds.                  *)
EnsurePoller ==
    /\ loop = "idle"
    /\ policy.gen # 0
    /\ loop' = "receive"
    /\ read' = policy.uid
    /\ shared' = (poller.gen # policy.gen)
    /\ IF poller.gen = policy.gen THEN UNCHANGED <<goroutine, unseen>>
                                   ELSE Becomes(NewPoller(policy))
    /\ UNCHANGED <<world, signals, told>>

(* A pending signal is consumed; without one the service is scraped, and a *)
(* failed scrape yields no samples.                                        *)
ReadSignals ==
    /\ loop = "receive"
    /\ loop' = "evaluate"
    /\ IF out # <<>>
       THEN /\ signals' = Head(out)
            /\ told' = [uid |-> poller.uid, gen |-> poller.gen, sig |-> Head(out)]
            /\ out' = <<>>
       ELSE /\ signals' = IF service = Unreachable THEN NoSignal ELSE service
            /\ UNCHANGED <<told, out>>
    /\ UNCHANGED <<world, poller, step, sig, log, torn, read, shared, unseen>>

(* No trigger fires, or the patch fails. *)
EvaluateQuiet ==
    /\ loop = "evaluate"
    /\ loop' = "decode"
    /\ signals' = NoSignal
    /\ UNCHANGED <<world, goroutine, read, shared, told, unseen>>

(* A trigger whose condition the signals satisfy fires: the patch of       *)
(* spec.activeProfile is a new generation.                                 *)
EvaluateSwitch ==
    /\ loop = "evaluate"
    /\ signals # NoSignal
    /\ signals.samples > 0
    /\ MetBy(When, signals) # {}
    /\ policy.gen \in 1..(MaxGen - 1)
    /\ policy' = [policy EXCEPT !.gen = @ + 1]
    /\ loop' = "decode"
    /\ signals' = NoSignal
    /\ UNCHANGED <<service, restarts, goroutine, read, shared, told, unseen>>

(* The responses of the patches and of the second Get have been decoded    *)
(* and Reconcile returns.                                                  *)
Decoded ==
    /\ loop = "decode"
    /\ loop' = "idle"
    /\ read' = 0
    /\ shared' = FALSE
    /\ UNCHANGED <<world, goroutine, signals, told, unseen>>

-----------------------------------------------------------------------------
EditSpec ==
    /\ policy.gen \in 1..(MaxGen - 1)
    /\ policy' = [policy EXCEPT !.gen = @ + 1]
    /\ UNCHANGED <<service, restarts, goroutine, reconcile, unseen>>

Delete ==
    /\ policy.gen # 0
    /\ policy' = [policy EXCEPT !.gen = 0]
    /\ unseen' = TRUE
    /\ UNCHANGED <<service, restarts, goroutine, reconcile>>

Recreate ==
    /\ policy.gen = 0
    /\ policy.uid < MaxLives
    /\ policy' = [uid |-> policy.uid + 1, gen |-> 1]
    /\ UNCHANGED <<service, restarts, goroutine, reconcile, unseen>>

ServiceChanges(s) ==
    /\ s # service
    /\ service' = s
    /\ UNCHANGED <<policy, restarts, goroutine, reconcile, unseen>>

(* The operator restarts, or a concurrent map access aborts it. *)
Restart ==
    /\ restarts < MaxRestarts
    /\ restarts' = restarts + 1
    /\ Becomes(NoPoller)
    /\ loop' = "idle"
    /\ read' = 0
    /\ shared' = FALSE
    /\ signals' = NoSignal
    /\ told' = Nothing
    /\ UNCHANGED <<service, policy>>

Run == Tick \/ TickFails \/ Offer \/ Drain \/ Resend

Reconcile ==
    \/ FetchDeleted \/ ReturnsEarly \/ EnsurePoller \/ ReadSignals
    \/ EvaluateQuiet \/ EvaluateSwitch \/ Decoded

Next ==
    \/ Run
    \/ Reconcile
    \/ EditSpec \/ Delete \/ Recreate \/ Restart
    \/ \E s \in Samples \cup {Unreachable} : ServiceChanges(s)

Spec == Init /\ [][Next]_vars

(* The ticker keeps ticking and every reconcile requeues itself, as the    *)
(* events of a deletion do, and not every one returns early for ever: the  *)
(* policy becomes valid and its mesh is found (ReturnsEarly is a step that *)
(* changes nothing, so fairness demands another). Nothing else is assumed  *)
(* of the service or of humans.                                            *)
FairSpec == Spec /\ WF_vars(Run) /\ WF_vars(Reconcile)
=============================================================================
