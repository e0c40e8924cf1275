----------------------------- MODULE PollerProps -----------------------------
(***************************************************************************)
(* What the poller and its reader promise.                                 *)
(***************************************************************************)
EXTENDS Poller

Signals == Samples \cup {NoSignal}

TypeOK ==
    /\ service \in Samples \cup {Unreachable}
    /\ policy \in [uid: 1..MaxLives, gen: 0..MaxGen]
    /\ poller \in [uid: 0..MaxLives, gen: 0..MaxGen, breach: 0..Cap, clean: 0..Cap,
                   firing: BOOLEAN]
    /\ step \in {"wait", "offer", "drain", "resend"}
    /\ sig \in Signals
    /\ out \in Seq(Samples) /\ Len(out) <= 1
    /\ loop \in {"idle", "receive", "evaluate", "decode"}
    /\ read \in 0..MaxLives
    /\ signals \in Signals
    /\ restarts \in 0..MaxRestarts
    /\ told \in [uid: 0..MaxLives, gen: 0..MaxGen, sig: Signals]
    /\ log \in Seq(BOOLEAN) /\ Len(log) <= Cap
    /\ shared \in BOOLEAN /\ torn \in BOOLEAN /\ unseen \in BOOLEAN

-----------------------------------------------------------------------------
(* The counters implement debouncing by the last ticks: a breach or a      *)
(* recovery is announced when, and only when, that many ticks in a row     *)
(* confirm it (poller.go:195-215), also across ticks that race with the    *)
(* decoding of the policy.                                                 *)
Debounced == Debouncer!Spec

ToldNewest == told = [uid |-> poller.uid, gen |-> poller.gen, sig |-> sig]

(* The newest signal is never lost: whatever the reconcile loop receives   *)
(* between the three selects of sendNonBlocking, at the end the signal is  *)
(* pending or received (poller.go:243-260, the second of the two comments  *)
(* that contradict each other).                                            *)
NewestIsNotLost == step = "wait" /\ sig # NoSignal => out = <<sig>> \/ ToldNewest

(* A pending signal is not outdated by what the poller itself has seen     *)
(* since: a pending breach has not been recovered from, a pending recovery *)
(* has not been followed by a breach (poller.go:203-215, 132-133), unless  *)
(* the tick that sent it saw a policy half decoded.                        *)
PendingIsCurrent ==
    step = "wait" /\ out # <<>> /\ ~torn => IsBreaching(Head(out)) = poller.firing

(* A reader of this poller ends up with the truth: if the service settles  *)
(* on breaching, the last signal this poller delivers is a breach, and if  *)
(* it settles on clean, the last signal is not a breach, across every      *)
(* restart, failed scrape and reconcile that returns before it comes to    *)
(* the poller (poller.go:158-181, controller.go:128-139). Unless, again,   *)
(* the recovery was sent by a tick that saw a policy half decoded: it      *)
(* carries a breach.                                                       *)
Settles(breaching) == <>[](/\ policy.gen # 0
                           /\ service # Unreachable /\ IsBreaching(service) = breaching)

Told(breaching) ==
    /\ told.gen = poller.gen /\ told.uid = poller.uid /\ told.sig # NoSignal
    /\ IsBreaching(told.sig) = breaching

DeliversTheTruth ==
    /\ Settles(TRUE) => <>[]Told(TRUE)
    /\ Settles(FALSE) => <>[](Told(TRUE) => torn)

(* A Reconcile is given the signals of the policy it has read, not of one  *)
(* that had the name before (controller.go:102-116, 604-619). The          *)
(* exception is a policy replaced by one of the same generation between    *)
(* two reconciles: nobody saw it gone, and its poller stays.               *)
PollerBelongs == read # 0 /\ ~unseen => poller.uid = read

(* The poller of a policy that is deleted for good ends: the deletion may  *)
(* land in the middle of the reconcile that starts it (controller.go:110). *)
StopsWithPolicy == <>[](policy.gen = 0) => <>[](poller.gen = 0)
=============================================================================
