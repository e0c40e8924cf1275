---------------------------- MODULE Poller_proofs ----------------------------
(***************************************************************************)
(* Theorems about the poller and its reader, for any thresholds, triggers  *)
(* and signals, and any number of edits, policies and restarts.            *)
(***************************************************************************)
EXTENDS PollerProps, SequenceTheorems, TLAPS

-----------------------------------------------------------------------------
(* The operators the goroutine is made of. *)

(* Whatever the policy says, at least one scrape confirms a breach or a    *)
(* recovery, and the counters reach both thresholds.                       *)
LEMMA Thresholds ==
    /\ Breaches \in Nat /\ Breaches > 0
    /\ Recoveries \in Nat /\ Recoveries > 0
    /\ Cap \in Nat /\ Breaches <= Cap /\ Recoveries <= Cap
<1>1. Breaches \in Nat /\ Breaches > 0
  BY PollerAssumption DEF Breaches, WithDefaults, DefaultConsecutiveBreaches
<1>2. Recoveries \in Nat /\ Recoveries > 0
  BY PollerAssumption DEF Recoveries, WithDefaults, DefaultConsecutiveRecoveries
<1> QED BY <1>1, <1>2 DEF Cap

(* A channel that holds one signal. *)
LEMMA OneSignal ==
    ASSUME NEW S, NEW s \in S
    PROVE  <<s>> \in Seq(S) /\ Len(<<s>>) = 1 /\ Head(<<s>>) = s /\ <<s>> # <<>>
OBVIOUS

(* A channel, or a log, that holds nothing. *)
LEMMA NothingHeld ==
    ASSUME NEW S
    PROVE  <<>> \in Seq(S) /\ Len(<<>>) = 0
BY EmptySeq

(* The log takes the newest scrape and forgets the oldest when it is full. *)
LEMMA LatestShifts ==
    ASSUME NEW s \in Seq(BOOLEAN), Len(s) <= Cap, NEW b \in BOOLEAN
    PROVE  LET full == Len(s) >= Cap
               t    == Debouncer!Latest(Append(s, b))
           IN  /\ t \in Seq(BOOLEAN)
               /\ Len(t) = IF full THEN Len(s) ELSE Len(s) + 1
               /\ Len(t) <= Cap
               /\ t[Len(t)] = b
               /\ \A i \in 1..(Len(t) - 1) : t[i] = IF full THEN s[i + 1] ELSE s[i]
<1> DEFINE all == Append(s, b)
           from == IF Len(all) > Cap THEN Len(all) - Cap + 1 ELSE 1
           t == SubSeq(all, from, Len(all))
<1>1. Len(s) \in Nat
  BY LenProperties
<1>2. /\ all \in Seq(BOOLEAN) /\ Len(all) = Len(s) + 1
      /\ all[Len(s) + 1] = b
      /\ \A i \in 1..Len(s) : all[i] = s[i]
  BY AppendProperties
<1> HIDE DEF all
<1>3. from \in Nat /\ from >= 1 /\ from <= Len(all) /\ Len(all) \in Nat
      /\ from = IF Len(s) >= Cap THEN Len(s) + 1 - Cap + 1 ELSE 1
  BY <1>1, <1>2, Thresholds
<1>4. \A i \in from..Len(all) : all[i] \in BOOLEAN
  BY <1>2, <1>3
<1> HIDE DEF from
<1>5. /\ t \in Seq(BOOLEAN)
      /\ Len(t) = Len(all) - from + 1
      /\ \A i \in 1..(Len(all) - from + 1) : t[i] = all[from + i - 1]
  BY <1>3, <1>4, SubSeqProperties
<1>6. Debouncer!Latest(all) = t
  BY DEF Debouncer!Latest, from
<1> HIDE DEF t
<1>7. Len(t) = IF Len(s) >= Cap THEN Len(s) ELSE Len(s) + 1
  BY <1>1, <1>2, <1>3, <1>5, Thresholds
<1>8. t[Len(t)] = b
  <2> DEFINE k == Len(all) - from + 1
  <2>1. k \in 1..(Len(all) - from + 1) /\ from + k - 1 = Len(s) + 1
    BY <1>1, <1>2, <1>3
  <2>2. t[k] = all[from + k - 1]
    BY <1>5, <2>1
  <2> QED BY <1>2, <1>5, <2>1, <2>2
<1>9. \A i \in 1..(Len(t) - 1) : t[i] = IF Len(s) >= Cap THEN s[i + 1] ELSE s[i]
  <2> TAKE i \in 1..(Len(t) - 1)
  <2>1. CASE Len(s) >= Cap
    <3>1. from = 2 /\ i \in 1..(Len(all) - from + 1) /\ i + 1 \in 1..Len(s)
      BY <1>1, <1>2, <1>3, <1>5, <1>7, <2>1, Thresholds
    <3>2. t[i] = all[from + i - 1] /\ from + i - 1 = i + 1
      BY <1>5, <3>1
    <3> QED BY <1>2, <2>1, <3>1, <3>2
  <2>2. CASE ~(Len(s) >= Cap)
    <3>1. from = 1 /\ i \in 1..(Len(all) - from + 1) /\ i \in 1..Len(s)
      BY <1>1, <1>2, <1>3, <1>5, <1>7, <2>2, Thresholds
    <3>2. t[i] = all[from + i - 1] /\ from + i - 1 = i
      BY <1>5, <3>1
    <3> QED BY <1>2, <2>2, <3>1, <3>2
  <2> QED BY <2>1, <2>2
<1>10. Len(t) <= Cap
  BY <1>1, <1>7, Thresholds
<1> QED BY <1>5, <1>6, <1>7, <1>8, <1>9, <1>10 DEF all

(* Whether a scrape breaches is a yes or no. *)
LEMMA BreachesOneBoolean ==
    ASSUME NEW triggers, NEW s
    PROVE  BreachesOne(triggers, s) \in BOOLEAN /\ IsBreaching(s) \in BOOLEAN
BY DEF BreachesOne, IsBreaching

(* The fields of the poller. *)
LEMMA PollerTyped ==
    ASSUME TypeOK
    PROVE  /\ poller = [uid |-> poller.uid, gen |-> poller.gen, breach |-> poller.breach,
                        clean |-> poller.clean, firing |-> poller.firing]
           /\ poller.uid \in 0..MaxLives /\ poller.gen \in 0..MaxGen
           /\ poller.breach \in 0..Cap /\ poller.clean \in 0..Cap
           /\ poller.firing \in BOOLEAN
BY DEF TypeOK

(* A tick in full: what it took the scrape for, the counters, and the      *)
(* signal it sends if the verdict changes.                                 *)
BreachAfter(b) == IF b THEN Up(poller.breach) ELSE 0

CleanAfter(b) == IF b THEN 0 ELSE Up(poller.clean)

Emits(b) ==
    \/ ~poller.firing /\ BreachAfter(b) >= Breaches
    \/ poller.firing /\ CleanAfter(b) >= Recoveries

Ticked(b) ==
    /\ poller' = [uid |-> poller.uid, gen |-> poller.gen, breach |-> BreachAfter(b),
                  clean |-> CleanAfter(b),
                  firing |-> IF Emits(b) THEN ~poller.firing ELSE poller.firing]
    /\ IF Emits(b) THEN /\ step' = "offer" /\ sig' = service
                        /\ torn' = (b # IsBreaching(service))
                   ELSE UNCHANGED <<step, sig, torn>>
    /\ log' = Debouncer!Latest(Append(log, b))

(* Every tick is of this form. *)
LEMMA TickEffect ==
    ASSUME TypeOK, Tick
    PROVE  \E b \in BOOLEAN : Ticked(b)
<1> PICK triggers \in Visible :
          LET breaching == BreachesOne(triggers, service)
              counted   == Counted(breaching)
              emits     == ConfirmsBreach(counted) \/ ConfirmsRecovery(counted)
          IN  /\ poller' = [counted EXCEPT !.firing = IF emits THEN ~@ ELSE @]
              /\ IF emits THEN /\ step' = "offer" /\ sig' = service
                               /\ torn' = (breaching # IsBreaching(service))
                          ELSE UNCHANGED <<step, sig, torn>>
              /\ log' = Debouncer!Latest(Append(log, breaching))
  BY DEF Tick
<1> DEFINE b == BreachesOne(triggers, service)
           c == Counted(b)
<1>1. b \in BOOLEAN
  BY BreachesOneBoolean
<1> HIDE DEF b
<1>2. c = [uid |-> poller.uid, gen |-> poller.gen, breach |-> BreachAfter(b),
           clean |-> CleanAfter(b), firing |-> poller.firing]
  <2>1. c = [poller EXCEPT !.breach = BreachAfter(b), !.clean = CleanAfter(b)]
    BY DEF Counted, BreachAfter, CleanAfter
  <2>2. poller = [uid |-> poller.uid, gen |-> poller.gen, breach |-> poller.breach,
                  clean |-> poller.clean, firing |-> poller.firing]
    BY PollerTyped
  <2> HIDE DEF c
  <2> QED BY <2>1, <2>2
<1>3. (ConfirmsBreach(c) \/ ConfirmsRecovery(c)) <=> Emits(b)
  BY <1>2 DEF ConfirmsBreach, ConfirmsRecovery, Emits
<1>4. /\ poller' = [c EXCEPT !.firing = IF Emits(b) THEN ~c.firing ELSE c.firing]
      /\ IF Emits(b) THEN /\ step' = "offer" /\ sig' = service
                          /\ torn' = (b # IsBreaching(service))
                     ELSE UNCHANGED <<step, sig, torn>>
      /\ log' = Debouncer!Latest(Append(log, b))
  BY <1>3 DEF b
<1> HIDE DEF c
<1>5. Ticked(b)
  BY <1>2, <1>4 DEF Ticked
<1> QED BY <1>1, <1>5

-----------------------------------------------------------------------------
(* Type correctness, and where the newest signal is. *)

(* Where sig is while sendNonBlocking runs, and after it. *)
SignalHandled ==
    /\ step # "wait" => sig \in Samples
    /\ step = "wait" /\ out # <<>> => out = <<sig>>
    /\ step = "resend" => out = <<>>

(* A poller that is started, or none, is typed. *)
LEMMA NewPollerTyped ==
    ASSUME NEW p \in [uid: 0..MaxLives, gen: 0..MaxGen]
    PROVE  NewPoller(p) \in [uid: 0..MaxLives, gen: 0..MaxGen, breach: 0..Cap, clean: 0..Cap,
                             firing: BOOLEAN]
<1>1. 0 \in 0..Cap
  BY Thresholds
<1> HIDE DEF Cap
<1> QED BY <1>1 DEF NewPoller

(* No poller is typed. *)
LEMMA NoPollerTyped ==
    NoPoller \in [uid: 0..MaxLives, gen: 0..MaxGen, breach: 0..Cap, clean: 0..Cap, firing: BOOLEAN]
<1>1. [uid |-> 0, gen |-> 0] \in [uid: 0..MaxLives, gen: 0..MaxGen]
  BY PollerAssumption
<1> QED BY <1>1, NewPollerTyped DEF NoPoller

(* A poller that takes the place of another starts with nothing to send. *)
LEMMA BecomesTyped ==
    ASSUME NEW p \in [uid: 0..MaxLives, gen: 0..MaxGen, breach: 0..Cap, clean: 0..Cap,
                      firing: BOOLEAN],
           Becomes(p)
    PROVE  /\ poller' \in [uid: 0..MaxLives, gen: 0..MaxGen, breach: 0..Cap, clean: 0..Cap,
                           firing: BOOLEAN]
           /\ step' = "wait" /\ sig' \in Signals
           /\ out' = <<>> /\ out' \in Seq(Samples) /\ Len(out') <= 1
           /\ log' \in Seq(BOOLEAN) /\ Len(log') <= Cap
           /\ torn' \in BOOLEAN /\ unseen' \in BOOLEAN
<1>1. out' \in Seq(Samples) /\ Len(out') = 0 /\ log' \in Seq(BOOLEAN) /\ Len(log') = 0
  BY EmptySeq DEF Becomes
<1>2. Len(out') <= 1 /\ Len(log') <= Cap
  BY <1>1, Thresholds
<1> QED BY <1>1, <1>2 DEF Becomes, Signals

(* A tick keeps the types and decides on a sample. *)
LEMMA TickTyped ==
    ASSUME TypeOK, SignalHandled, Tick
    PROVE  TypeOK' /\ SignalHandled'
<1>1. PICK b \in BOOLEAN : Ticked(b)
  BY TickEffect
<1>2. service \in Samples /\ step = "wait" /\ out' = out
  BY DEF Tick, TypeOK
<1>3. poller' \in [uid: 0..MaxLives, gen: 0..MaxGen, breach: 0..Cap, clean: 0..Cap,
                   firing: BOOLEAN]
  <2>1. \A n \in 0..Cap : Up(n) \in 0..Cap
    BY Thresholds DEF Up
  <2>2. 0 \in 0..Cap
    BY Thresholds
  <2>3. PICK breach \in 0..Cap, clean \in 0..Cap, firing \in BOOLEAN :
           poller' = [uid |-> poller.uid, gen |-> poller.gen, breach |-> breach,
                      clean |-> clean, firing |-> firing]
    BY <1>1, <2>1, <2>2, PollerTyped DEF Ticked, BreachAfter, CleanAfter
  <2> QED BY <2>3, PollerTyped
<1>4. /\ step' \in {"wait", "offer"} /\ sig' \in Signals /\ torn' \in BOOLEAN
      /\ step' = "offer" => sig' \in Samples
      /\ step' = "wait" => sig' = sig
  BY <1>1, <1>2, BreachesOneBoolean DEF Ticked, TypeOK, Signals
<1>5. log' \in Seq(BOOLEAN) /\ Len(log') <= Cap
  BY <1>1, LatestShifts DEF Ticked, TypeOK
<1>6. shared' \in BOOLEAN
  BY DEF Tick, TypeOK, Racing
<1>7. TypeOK'
  BY <1>2, <1>3, <1>4, <1>5, <1>6 DEF Tick, TypeOK, world
<1>8. SignalHandled'
  BY <1>2, <1>4 DEF SignalHandled
<1> QED BY <1>7, <1>8

(* The selects of sendNonBlocking leave sig in the channel. *)
LEMMA SendTyped ==
    ASSUME TypeOK, SignalHandled, Offer \/ Drain \/ Resend
    PROVE  TypeOK' /\ SignalHandled'
<1>1. sig \in Samples
  BY DEF SignalHandled, Offer, Drain, Resend
<1>2. <<sig>> \in Seq(Samples) /\ Len(<<sig>>) <= 1
  BY <1>1
<1>3. <<>> \in Seq(Samples) /\ Len(<<>>) <= 1
  BY EmptySeq
<1>4. out' \in Seq(Samples) /\ Len(out') <= 1
  BY <1>2, <1>3 DEF Offer, Drain, Resend, TypeOK
<1>5. /\ step' \in {"wait", "drain", "resend"}
      /\ UNCHANGED <<world, poller, sig, log, torn, reconcile, unseen>>
  BY DEF Offer, Drain, Resend
<1>6. TypeOK'
  BY <1>4, <1>5 DEF TypeOK, world, reconcile
<1>7. SignalHandled'
  BY <1>1, <1>5 DEF SignalHandled, Offer, Drain, Resend
<1> QED BY <1>6, <1>7

(* The reader takes what is in the channel. *)
LEMMA ReadSignalsTyped ==
    ASSUME TypeOK, SignalHandled, ReadSignals
    PROVE  TypeOK' /\ SignalHandled'
<1>1. out # <<>> => Head(out) \in Samples
  BY HeadTailProperties DEF TypeOK
<1>2. <<>> \in Seq(Samples) /\ Len(<<>>) <= 1
  BY EmptySeq
<1>3. out' \in Seq(Samples) /\ Len(out') <= 1 /\ (out' = out \/ out' = <<>>)
  BY <1>2 DEF ReadSignals, TypeOK
<1>4. signals' \in Signals
  BY <1>1 DEF ReadSignals, TypeOK, Signals
<1>5. told' \in [uid: 0..MaxLives, gen: 0..MaxGen, sig: Signals]
  <2>1. CASE out # <<>>
    BY <1>1, <2>1, PollerTyped DEF ReadSignals, Signals
  <2>2. CASE out = <<>>
    BY <2>2 DEF ReadSignals, TypeOK
  <2> QED BY <2>1, <2>2
<1>6. TypeOK'
  BY <1>3, <1>4, <1>5 DEF ReadSignals, TypeOK, world
<1>7. SignalHandled'
  BY <1>3 DEF ReadSignals, SignalHandled
<1> QED BY <1>6, <1>7

(* Every step keeps the types and the place of the newest signal. *)
LEMMA NextTyped == TypeOK /\ SignalHandled /\ [Next]_vars => TypeOK' /\ SignalHandled'
<1> SUFFICES ASSUME TypeOK, SignalHandled, [Next]_vars PROVE TypeOK' /\ SignalHandled'
  OBVIOUS
<1>1. CASE Tick
  BY <1>1, TickTyped
<1>2. CASE Offer \/ Drain \/ Resend
  BY <1>2, SendTyped
<1>3. CASE FetchDeleted
  <2>1. Becomes(NoPoller) /\ UNCHANGED <<world, reconcile>>
    BY <1>3 DEF FetchDeleted
  <2> QED BY <2>1, NoPollerTyped, BecomesTyped DEF TypeOK, SignalHandled, world, reconcile
<1>4. CASE EnsurePoller
  <2>1. /\ loop' = "receive" /\ read' = policy.uid /\ shared' = (poller.gen # policy.gen)
        /\ UNCHANGED <<world, signals, told>>
    BY <1>4 DEF EnsurePoller
  <2>2. read' \in 0..MaxLives /\ shared' \in BOOLEAN
    BY <2>1, PollerAssumption DEF TypeOK
  <2>3. CASE UNCHANGED <<goroutine, unseen>>
    BY <2>1, <2>2, <2>3 DEF TypeOK, SignalHandled, world, goroutine
  <2>4. CASE Becomes(NewPoller(policy))
    <3>1. policy \in [uid: 0..MaxLives, gen: 0..MaxGen]
      BY PollerAssumption DEF TypeOK
    <3> QED BY <2>1, <2>2, <2>4, <3>1, NewPollerTyped, BecomesTyped DEF TypeOK, SignalHandled, world
  <2> QED BY <1>4, <2>3, <2>4 DEF EnsurePoller
<1>5. CASE ReadSignals
  BY <1>5, ReadSignalsTyped
<1>6. CASE EvaluateQuiet
  BY <1>6 DEF EvaluateQuiet, TypeOK, SignalHandled, Signals, world, goroutine
<1>7. CASE EvaluateSwitch \/ EditSpec
  <2>1. policy' \in [uid: 1..MaxLives, gen: 0..MaxGen]
    <3>1. policy' = [policy EXCEPT !.gen = @ + 1] /\ policy.gen \in 1..(MaxGen - 1)
      BY <1>7 DEF EvaluateSwitch, EditSpec
    <3>2. policy \in [uid: 1..MaxLives, gen: 0..MaxGen] /\ MaxGen \in Nat
      BY PollerAssumption DEF TypeOK
    <3> QED BY <3>1, <3>2
  <2>2. loop' \in {"idle", "receive", "evaluate", "decode"} /\ signals' \in Signals
    BY <1>7 DEF EvaluateSwitch, EditSpec, TypeOK, Signals, reconcile
  <2>3. UNCHANGED <<service, restarts, goroutine, read, shared, told, unseen>>
    BY <1>7 DEF EvaluateSwitch, EditSpec, reconcile
  <2> QED BY <2>1, <2>2, <2>3 DEF TypeOK, SignalHandled, goroutine
<1>8. CASE Decoded
  <2>1. read' \in 0..MaxLives
    BY <1>8, PollerAssumption DEF Decoded
  <2> QED BY <1>8, <2>1 DEF Decoded, TypeOK, SignalHandled, world, goroutine
<1>9. CASE Delete \/ Recreate
  <2>1. policy' \in [uid: 1..MaxLives, gen: 0..MaxGen]
    <3>1. /\ policy \in [uid: 1..MaxLives, gen: 0..MaxGen]
          /\ MaxLives \in Nat /\ MaxGen \in Nat /\ MaxGen >= 1
      BY PollerAssumption DEF TypeOK
    <3>2. CASE Delete
      <4>1. policy' = [policy EXCEPT !.gen = 0]
        BY <3>2 DEF Delete
      <4> QED BY <3>1, <4>1
    <3>3. CASE Recreate
      <4>1. policy' = [uid |-> policy.uid + 1, gen |-> 1] /\ policy.uid < MaxLives
        BY <3>3 DEF Recreate
      <4> QED BY <3>1, <4>1
    <3> QED BY <1>9, <3>2, <3>3
  <2>2. unseen' \in BOOLEAN
    BY <1>9 DEF Delete, Recreate, TypeOK
  <2>3. UNCHANGED <<service, restarts, goroutine, reconcile>>
    BY <1>9 DEF Delete, Recreate
  <2> QED BY <2>1, <2>2, <2>3 DEF TypeOK, SignalHandled, goroutine, reconcile
<1>10. ASSUME NEW s \in Samples \cup {Unreachable}, ServiceChanges(s)
       PROVE  TypeOK' /\ SignalHandled'
  BY <1>10 DEF ServiceChanges, TypeOK, SignalHandled, goroutine, reconcile
<1>11. CASE Restart
  <2>1. /\ Becomes(NoPoller) /\ loop' = "idle" /\ read' = 0 /\ shared' = FALSE
        /\ signals' = NoSignal /\ told' = Nothing /\ UNCHANGED <<service, policy>>
    BY <1>11 DEF Restart
  <2>2. restarts' \in 0..MaxRestarts
    BY <1>11, PollerAssumption DEF Restart, TypeOK
  <2>3. read' \in 0..MaxLives /\ told' \in [uid: 0..MaxLives, gen: 0..MaxGen, sig: Signals]
    BY <2>1, PollerAssumption DEF Nothing, Signals
  <2> QED BY <2>1, <2>2, <2>3, NoPollerTyped, BecomesTyped DEF TypeOK, SignalHandled, Signals
<1>12. CASE UNCHANGED vars
  BY <1>12 DEF vars, TypeOK, SignalHandled
<1> QED
  BY <1>1, <1>2, <1>3, <1>4, <1>5, <1>6, <1>7, <1>8, <1>9, <1>10, <1>11, <1>12
  DEF Next, Run, Reconcile, ReturnsEarly, TickFails

(* The operator starts typed, with nothing to send. *)
LEMMA InitTyped == Init => TypeOK /\ SignalHandled
<1> SUFFICES ASSUME Init PROVE TypeOK /\ SignalHandled
  OBVIOUS
<1>1. out \in Seq(Samples) /\ Len(out) <= 1 /\ log \in Seq(BOOLEAN) /\ Len(log) <= Cap
  <2>1. out \in Seq(Samples) /\ Len(out) = 0 /\ log \in Seq(BOOLEAN) /\ Len(log) = 0
    BY EmptySeq DEF Init
  <2> QED BY <2>1, Thresholds
<1>2. /\ policy \in [uid: 1..MaxLives, gen: 0..MaxGen] /\ read \in 0..MaxLives
      /\ restarts \in 0..MaxRestarts
  BY PollerAssumption DEF Init
<1>3. told \in [uid: 0..MaxLives, gen: 0..MaxGen, sig: Signals]
  BY PollerAssumption DEF Init, Nothing, Signals
<1> QED BY <1>1, <1>2, <1>3, NoPollerTyped DEF Init, TypeOK, SignalHandled, Signals

(* The poller, its reader and the channel between them are typed: the      *)
(* channel holds at most one signal, which is a sample of the service.     *)
THEOREM TypeCorrect == Spec => []TypeOK
<1>1. Spec => [](TypeOK /\ SignalHandled)
  BY InitTyped, NextTyped, PTL DEF Spec
<1> QED BY <1>1, PTL

-----------------------------------------------------------------------------
(* The newest signal, and what it says. *)

(* The signal the poller has sent, or is sending, shows its verdict. *)
SignalIsVerdict == sig # NoSignal /\ ~torn => IsBreaching(sig) = poller.firing

(* A new poller has sent nothing. *)
LEMMA BecomesSilent ==
    ASSUME NEW p, Becomes(p)
    PROVE  NewestIsNotLost' /\ SignalIsVerdict'
BY DEF Becomes, NewestIsNotLost, SignalIsVerdict

(* A tick that sends, sends what it has just seen; one that does not       *)
(* leaves the verdict as it was.                                           *)
LEMMA TickVerdict ==
    ASSUME TypeOK, SignalIsVerdict, NewestIsNotLost, Tick
    PROVE  SignalIsVerdict' /\ NewestIsNotLost'
<1>1. PICK b \in BOOLEAN : Ticked(b)
  BY TickEffect
<1>2. /\ out' = out /\ told' = told
      /\ poller'.uid = poller.uid /\ poller'.gen = poller.gen
      /\ poller'.firing = IF Emits(b) THEN ~poller.firing ELSE poller.firing
  BY <1>1 DEF Tick, Ticked
<1>3. CASE ~Emits(b)
  <2>1. UNCHANGED <<step, sig, torn>>
    BY <1>1, <1>3 DEF Ticked
  <2> QED BY <1>2, <1>3, <2>1 DEF SignalIsVerdict, NewestIsNotLost, ToldNewest
<1>4. CASE Emits(b)
  <2>1. step' = "offer" /\ sig' = service /\ torn' = (b # IsBreaching(service))
    BY <1>1, <1>4 DEF Ticked
  <2>2. b = ~poller.firing
    <3>1. ~(0 >= Breaches) /\ ~(0 >= Recoveries)
      BY Thresholds
    <3>2. poller.firing \in BOOLEAN
      BY PollerTyped
    <3> QED BY <1>4, <3>1, <3>2 DEF Emits, BreachAfter, CleanAfter
  <2>3. torn' \/ IsBreaching(sig') = poller'.firing
    BY <1>2, <1>4, <2>1, <2>2, BreachesOneBoolean
  <2> QED BY <2>1, <2>3 DEF SignalIsVerdict, NewestIsNotLost
<1> QED BY <1>3, <1>4

(* Whatever the reader does between the selects, the newest signal is      *)
(* pending or received.                                                    *)
LEMMA NextNewest ==
    TypeOK /\ SignalHandled /\ SignalIsVerdict /\ NewestIsNotLost /\ [Next]_vars
    => SignalIsVerdict' /\ NewestIsNotLost'
<1> SUFFICES ASSUME TypeOK, SignalHandled, SignalIsVerdict, NewestIsNotLost, [Next]_vars
             PROVE  SignalIsVerdict' /\ NewestIsNotLost'
  OBVIOUS
<1>1. CASE Tick
  BY <1>1, TickVerdict
<1>2. CASE Offer \/ Drain \/ Resend
  <2>1. UNCHANGED <<poller, sig, torn>>
    BY <1>2 DEF Offer, Drain, Resend
  <2>2. step' = "wait" => out' = <<sig>>
    BY <1>2 DEF Offer, Drain, Resend, SignalHandled
  <2> QED BY <2>1, <2>2 DEF SignalIsVerdict, NewestIsNotLost
<1>3. CASE FetchDeleted \/ Restart
  BY <1>3, BecomesSilent DEF FetchDeleted, Restart
<1>4. CASE EnsurePoller
  <2>1. CASE UNCHANGED <<goroutine, unseen>> /\ UNCHANGED told
    BY <2>1 DEF goroutine, SignalIsVerdict, NewestIsNotLost, ToldNewest
  <2>2. CASE Becomes(NewPoller(policy))
    BY <2>2, BecomesSilent
  <2> QED BY <1>4, <2>1, <2>2 DEF EnsurePoller
<1>5. CASE ReadSignals
  <2>1. UNCHANGED <<poller, step, sig, torn>>
    BY <1>5 DEF ReadSignals
  <2>2. CASE out # <<>>
    <3>1. told' = [uid |-> poller.uid, gen |-> poller.gen, sig |-> Head(out)]
      BY <1>5, <2>2 DEF ReadSignals
    <3>2. step = "wait" => Head(out) = sig
      BY <2>2 DEF SignalHandled
    <3> QED BY <2>1, <3>1, <3>2 DEF SignalIsVerdict, NewestIsNotLost, ToldNewest
  <2>3. CASE out = <<>>
    <3>1. told' = told /\ out' = out
      BY <1>5, <2>3 DEF ReadSignals
    <3> QED BY <2>1, <3>1 DEF SignalIsVerdict, NewestIsNotLost, ToldNewest
  <2> QED BY <2>2, <2>3
<1>6. CASE UNCHANGED <<poller, step, sig, out, torn, told>>
  BY <1>6 DEF SignalIsVerdict, NewestIsNotLost, ToldNewest
<1> QED
  BY <1>1, <1>2, <1>3, <1>4, <1>5, <1>6
  DEF Next, Run, Reconcile, ReturnsEarly, TickFails, EvaluateQuiet, EvaluateSwitch, Decoded,
      EditSpec, Delete, Recreate, ServiceChanges, goroutine, reconcile, vars

-----------------------------------------------------------------------------
(* Whose poller it is. *)

(* Unless a deletion has gone unnoticed, the poller is that of the policy  *)
(* on the server, and there is none without a policy.                      *)
PollerKnown ==
    /\ loop = "idle" => read = 0
    /\ ~unseen /\ policy.gen = 0 => poller.gen = 0
    /\ ~unseen /\ poller.gen # 0 => poller.uid = policy.uid

(* The generation tells the pollers of a policy apart, and FetchDeleted    *)
(* those of two policies.                                                  *)
LEMMA NextBelongs ==
    TypeOK /\ PollerKnown /\ PollerBelongs /\ [Next]_vars => PollerKnown' /\ PollerBelongs'
<1> SUFFICES ASSUME TypeOK, PollerKnown, PollerBelongs, [Next]_vars
             PROVE  PollerKnown' /\ PollerBelongs'
  OBVIOUS
<1>1. CASE Run
  <2>1. poller'.uid = poller.uid /\ poller'.gen = poller.gen
    <3>1. CASE Tick
      BY <3>1, TickEffect DEF Ticked
    <3>2. CASE TickFails \/ Offer \/ Drain \/ Resend
      BY <3>2 DEF TickFails, Offer, Drain, Resend, vars
    <3> QED BY <1>1, <3>1, <3>2 DEF Run
  <2>2. UNCHANGED <<policy, loop, read, unseen>>
    BY <1>1 DEF Run, Tick, TickFails, Offer, Drain, Resend, world, reconcile, vars
  <2> QED BY <2>1, <2>2 DEF PollerKnown, PollerBelongs
<1>2. CASE FetchDeleted
  <2>1. /\ loop = "idle" /\ policy.gen = 0 /\ poller' = NoPoller
        /\ UNCHANGED <<policy, loop, read>>
    BY <1>2 DEF FetchDeleted, Becomes, world, reconcile
  <2>2. poller'.gen = 0
    BY <2>1 DEF NoPoller, NewPoller
  <2> QED BY <2>1, <2>2 DEF PollerKnown, PollerBelongs
<1>3. CASE EnsurePoller
  <2>1. policy.gen # 0 /\ loop' = "receive" /\ read' = policy.uid /\ policy' = policy
    BY <1>3 DEF EnsurePoller, world
  <2>2. CASE poller.gen = policy.gen
    <3>1. UNCHANGED <<poller, unseen>>
      BY <1>3, <2>2 DEF EnsurePoller, goroutine
    <3> QED BY <2>1, <2>2, <3>1 DEF PollerKnown, PollerBelongs
  <2>3. CASE poller.gen # policy.gen
    <3>1. poller' = NewPoller(policy)
      BY <1>3, <2>3 DEF EnsurePoller, Becomes
    <3>2. poller'.uid = policy.uid
      BY <3>1 DEF NewPoller
    <3> QED BY <2>1, <3>2 DEF PollerKnown, PollerBelongs
  <2> QED BY <2>2, <2>3
<1>4. CASE ReadSignals \/ EvaluateQuiet
  <2>1. UNCHANGED <<policy, poller, read, unseen>> /\ loop' # "idle"
    BY <1>4 DEF ReadSignals, EvaluateQuiet, world, goroutine
  <2> QED BY <2>1 DEF PollerKnown, PollerBelongs
<1>5. CASE EvaluateSwitch \/ EditSpec
  <2>1. UNCHANGED <<poller, read, unseen>> /\ (loop' = loop \/ loop' = "decode")
    BY <1>5 DEF EvaluateSwitch, EditSpec, goroutine, reconcile
  <2>2. policy'.uid = policy.uid /\ policy.gen # 0 /\ policy'.gen # 0
    BY <1>5 DEF EvaluateSwitch, EditSpec, TypeOK
  <2> QED BY <2>1, <2>2 DEF PollerKnown, PollerBelongs
<1>6. CASE Decoded \/ Restart
  <2>1. read' = 0 /\ policy' = policy
    BY <1>6 DEF Decoded, Restart, world
  <2>2. UNCHANGED <<poller, unseen>> \/ poller'.gen = 0
    BY <1>6 DEF Decoded, Restart, Becomes, NoPoller, NewPoller, goroutine
  <2> QED BY <2>1, <2>2 DEF PollerKnown, PollerBelongs
<1>7. CASE Delete
  BY <1>7 DEF Delete, goroutine, reconcile, PollerKnown, PollerBelongs
<1>8. CASE Recreate
  <2>1. policy.gen = 0 /\ UNCHANGED <<poller, loop, read, unseen>>
    BY <1>8 DEF Recreate, goroutine, reconcile
  <2> QED BY <2>1 DEF PollerKnown, PollerBelongs
<1>9. CASE UNCHANGED <<policy, poller, loop, read, unseen>>
  BY <1>9 DEF PollerKnown, PollerBelongs
<1> QED
  BY <1>1, <1>2, <1>3, <1>4, <1>5, <1>6, <1>7, <1>8, <1>9
  DEF Next, Reconcile, ReturnsEarly, ServiceChanges, goroutine, reconcile, vars

-----------------------------------------------------------------------------
(* The counters and the ticks behind them. *)

(* s ends with exactly n ticks of one kind, as far as it goes back. *)
EndsInRun(n, breaching, s) ==
    /\ n <= Len(s)
    /\ \A i \in 1..Len(s) : i > Len(s) - n => s[i] = breaching
    /\ n < Len(s) => s[Len(s) - n] # breaching

CountersAreRuns ==
    EndsInRun(poller.breach, TRUE, log) /\ EndsInRun(poller.clean, FALSE, log)

(* A run that goes on. *)
LEMMA RunGoesOn ==
    ASSUME NEW s \in Seq(BOOLEAN), Len(s) <= Cap, NEW b \in BOOLEAN,
           NEW n \in Nat, EndsInRun(n, b, s)
    PROVE  EndsInRun(Up(n), b, Debouncer!Latest(Append(s, b)))
<1> DEFINE t == Debouncer!Latest(Append(s, b))
<1>1. /\ Len(s) \in Nat /\ Cap \in Nat /\ Cap > 0
      /\ n <= Len(s)
      /\ Up(n) = IF n < Cap THEN n + 1 ELSE n
  BY Thresholds, LenProperties DEF Up, EndsInRun
<1>2. LET full == Len(s) >= Cap IN
      /\ t \in Seq(BOOLEAN)
      /\ Len(t) = IF full THEN Len(s) ELSE Len(s) + 1
      /\ Len(t) <= Cap
      /\ t[Len(t)] = b
      /\ \A i \in 1..(Len(t) - 1) : t[i] = IF full THEN s[i + 1] ELSE s[i]
  BY LatestShifts
<1>3. Len(t) \in Nat
  BY <1>2, LenProperties
<1> HIDE DEF t
<1>4. Up(n) \in Nat /\ Up(n) <= Len(t)
  BY <1>1, <1>2
<1>5. ASSUME NEW i \in 1..Len(t), i > Len(t) - Up(n) PROVE t[i] = b
  <2>1. CASE i = Len(t)
    BY <1>2, <2>1
  <2>2. CASE i # Len(t) /\ Len(s) >= Cap
    <3>1. /\ i \in 1..(Len(t) - 1) /\ Len(t) = Len(s)
          /\ i + 1 \in 1..Len(s) /\ i + 1 > Len(s) - n
      BY <1>1, <1>2, <1>3, <1>5, <2>2
    <3> QED BY <1>2, <2>2, <3>1 DEF EndsInRun
  <2>3. CASE i # Len(t) /\ ~(Len(s) >= Cap)
    <3>1. /\ i \in 1..(Len(t) - 1) /\ Len(t) = Len(s) + 1
          /\ i \in 1..Len(s) /\ i > Len(s) - n
      BY <1>1, <1>2, <1>3, <1>5, <2>3
    <3> QED BY <1>2, <2>3, <3>1 DEF EndsInRun
  <2> QED BY <2>1, <2>2, <2>3
<1>6. ASSUME Up(n) < Len(t) PROVE t[Len(t) - Up(n)] # b
  <2>1. Up(n) = n + 1 /\ n < Len(s)
    BY <1>1, <1>2, <1>3, <1>6
  <2>2. s[Len(s) - n] # b
    BY <2>1 DEF EndsInRun
  <2>3. CASE Len(s) >= Cap
    <3>1. Len(t) - Up(n) \in 1..(Len(t) - 1) /\ Len(t) - Up(n) + 1 = Len(s) - n
      BY <1>1, <1>2, <1>3, <1>6, <2>1, <2>3
    <3> QED BY <1>2, <2>2, <2>3, <3>1
  <2>4. CASE ~(Len(s) >= Cap)
    <3>1. Len(t) - Up(n) \in 1..(Len(t) - 1) /\ Len(t) - Up(n) = Len(s) - n
      BY <1>1, <1>2, <1>3, <1>6, <2>1, <2>4
    <3> QED BY <1>2, <2>2, <2>4, <3>1
  <2> QED BY <2>3, <2>4
<1> QED BY <1>4, <1>5, <1>6 DEF EndsInRun, t

(* A run that ends. *)
LEMMA RunEnds ==
    ASSUME NEW s \in Seq(BOOLEAN), Len(s) <= Cap, NEW b \in BOOLEAN, NEW c \in BOOLEAN, b # c
    PROVE  EndsInRun(0, c, Debouncer!Latest(Append(s, b)))
<1> DEFINE t == Debouncer!Latest(Append(s, b))
<1>1. t \in Seq(BOOLEAN) /\ t[Len(t)] = b
  BY LatestShifts
<1>2. Len(t) \in Nat
  BY <1>1, LenProperties
<1> HIDE DEF t
<1> QED BY <1>1, <1>2 DEF EndsInRun, t

(* The log confirms a verdict exactly when the counter is at its threshold. *)
LEMMA RunConfirms ==
    ASSUME NEW s \in Seq(BOOLEAN), NEW n \in Nat, NEW b \in BOOLEAN, EndsInRun(n, b, s),
           NEW k \in Nat, k > 0
    PROVE  Debouncer!AllOfLast(k, b, s) <=> n >= k
<1>1. Len(s) \in Nat /\ n <= Len(s)
  BY LenProperties DEF EndsInRun
<1>2. ASSUME n >= k PROVE Debouncer!AllOfLast(k, b, s)
  BY <1>1, <1>2 DEF EndsInRun, Debouncer!AllOfLast
<1>3. ASSUME n < k, Debouncer!AllOfLast(k, b, s) PROVE FALSE
  <2>1. Len(s) >= k /\ \A i \in (Len(s) - k + 1)..Len(s) : s[i] = b
    BY <1>3 DEF Debouncer!AllOfLast
  <2>2. n < Len(s) /\ Len(s) - n \in (Len(s) - k + 1)..Len(s)
    BY <1>1, <1>3, <2>1
  <2>3. s[Len(s) - n] # b
    BY <2>2 DEF EndsInRun
  <2> QED BY <2>1, <2>2, <2>3
<1> QED BY <1>1, <1>2, <1>3

(* A tick counts what it logs, and changes the verdict as the log says. *)
LEMMA TickObserves ==
    ASSUME TypeOK, CountersAreRuns, Tick
    PROVE  CountersAreRuns' /\ Debouncer!Next
<1>1. PICK b \in BOOLEAN : Ticked(b)
  BY TickEffect
<1>2. /\ log' = Debouncer!Latest(Append(log, b))
      /\ poller'.breach = BreachAfter(b) /\ poller'.clean = CleanAfter(b)
      /\ poller'.firing = IF Emits(b) THEN ~poller.firing ELSE poller.firing
  BY <1>1 DEF Ticked
<1>3. /\ log \in Seq(BOOLEAN) /\ Len(log) <= Cap
      /\ poller.breach \in Nat /\ poller.clean \in Nat /\ poller.firing \in BOOLEAN
  BY PollerTyped, Thresholds DEF TypeOK
<1>4. log' \in Seq(BOOLEAN)
  BY <1>2, <1>3, LatestShifts
<1>5. BreachAfter(b) \in Nat /\ CleanAfter(b) \in Nat
  BY <1>3, Thresholds DEF BreachAfter, CleanAfter, Up
<1>6. EndsInRun(BreachAfter(b), TRUE, log') /\ EndsInRun(CleanAfter(b), FALSE, log')
  <2>1. CASE b
    BY <1>2, <1>3, <2>1, RunGoesOn, RunEnds DEF CountersAreRuns, BreachAfter, CleanAfter
  <2>2. CASE ~b
    BY <1>2, <1>3, <2>2, RunGoesOn, RunEnds DEF CountersAreRuns, BreachAfter, CleanAfter
  <2> QED BY <2>1, <2>2
<1>7. /\ Debouncer!AllOfLast(Breaches, TRUE, log') <=> BreachAfter(b) >= Breaches
      /\ Debouncer!AllOfLast(Recoveries, FALSE, log') <=> CleanAfter(b) >= Recoveries
  BY <1>4, <1>5, <1>6, RunConfirms, Thresholds
<1>8. ~(BreachAfter(b) >= Breaches /\ CleanAfter(b) >= Recoveries)
  BY Thresholds DEF BreachAfter, CleanAfter
<1>9. poller'.firing <=> \/ Debouncer!AllOfLast(Breaches, TRUE, log')
                         \/ poller.firing /\ ~Debouncer!AllOfLast(Recoveries, FALSE, log')
  BY <1>2, <1>3, <1>7, <1>8 DEF Emits
<1>10. poller'.firing \in BOOLEAN
  BY <1>2, <1>3
<1>11. Debouncer!Observe(b)
  BY <1>2, <1>9, <1>10 DEF Debouncer!Observe
<1>12. CountersAreRuns'
  BY <1>2, <1>6 DEF CountersAreRuns
<1> QED BY <1>11, <1>12 DEF Debouncer!Next

(* A new poller starts the debouncing afresh. *)
LEMMA BecomesRestarts ==
    ASSUME NEW p, Becomes(NewPoller(p))
    PROVE  CountersAreRuns' /\ Debouncer!Next
<1>1. /\ poller'.breach = 0 /\ poller'.clean = 0 /\ poller'.firing = FALSE
      /\ log' = <<>>
  BY DEF Becomes, NewPoller
<1>2. \A b \in BOOLEAN : EndsInRun(0, b, <<>>)
  BY EmptySeq DEF EndsInRun
<1> QED BY <1>1, <1>2 DEF CountersAreRuns, Debouncer!Next, Debouncer!Restart, Debouncer!Init

(* Every step is one of the debouncer or leaves it alone. *)
LEMMA NextDebounces ==
    TypeOK /\ CountersAreRuns /\ [Next]_vars
    => CountersAreRuns' /\ [Debouncer!Next]_<<poller.firing, log>>
<1> SUFFICES ASSUME TypeOK, CountersAreRuns, [Next]_vars
             PROVE  CountersAreRuns' /\ [Debouncer!Next]_<<poller.firing, log>>
  OBVIOUS
<1>1. CASE Tick
  BY <1>1, TickObserves
<1>2. CASE FetchDeleted \/ Restart
  BY <1>2, BecomesRestarts DEF FetchDeleted, Restart, NoPoller
<1>3. CASE UNCHANGED <<poller, log>>
  BY <1>3 DEF CountersAreRuns
<1>4. CASE EnsurePoller
  <2>1. CASE Becomes(NewPoller(policy))
    BY <2>1, BecomesRestarts
  <2> QED BY <1>3, <1>4, <2>1 DEF EnsurePoller, goroutine
<1> QED
  BY <1>1, <1>2, <1>3, <1>4
  DEF Next, Run, Reconcile, ReturnsEarly, TickFails, Offer, Drain, Resend, ReadSignals,
      EvaluateQuiet, EvaluateSwitch, Decoded, EditSpec, Delete, Recreate, ServiceChanges, goroutine, vars

-----------------------------------------------------------------------------
PollerInv ==
    /\ TypeOK
    /\ SignalHandled
    /\ SignalIsVerdict
    /\ NewestIsNotLost
    /\ PollerKnown
    /\ PollerBelongs
    /\ CountersAreRuns

(* The operator starts without a poller. *)
LEMMA InitPollerInv == Init => PollerInv /\ Debouncer!Init
<1> SUFFICES ASSUME Init PROVE PollerInv /\ Debouncer!Init
  OBVIOUS
<1>1. TypeOK /\ SignalHandled
  BY InitTyped
<1>2. /\ poller.uid = 0 /\ poller.gen = 0 /\ poller.breach = 0 /\ poller.clean = 0
      /\ poller.firing = FALSE
  BY DEF Init, NoPoller, NewPoller
<1>3. SignalIsVerdict /\ NewestIsNotLost
  BY DEF Init, SignalIsVerdict, NewestIsNotLost
<1>4. PollerKnown /\ PollerBelongs
  BY <1>2 DEF Init, PollerKnown, PollerBelongs
<1>5. CountersAreRuns
  <2>1. \A b \in BOOLEAN : EndsInRun(0, b, <<>>)
    BY EmptySeq DEF EndsInRun
  <2> QED BY <1>2, <2>1 DEF Init, CountersAreRuns
<1> QED BY <1>1, <1>2, <1>3, <1>4, <1>5 DEF PollerInv, Init, Debouncer!Init

(* The invariant is inductive. *)
LEMMA NextPollerInv == PollerInv /\ [Next]_vars => PollerInv'
BY NextTyped, NextNewest, NextBelongs, NextDebounces DEF PollerInv

(* The invariant holds in every state. *)
LEMMA PollerInvHolds == Spec => []PollerInv
BY InitPollerInv, NextPollerInv, PTL DEF Spec

(* The newest signal is pending or received when sendNonBlocking returns,  *)
(* whatever the reader took between its three selects.                     *)
THEOREM NewestArrives == Spec => []NewestIsNotLost
<1>1. PollerInv => NewestIsNotLost
  BY DEF PollerInv
<1> QED BY <1>1, PollerInvHolds, PTL

(* A pending signal shows what the poller holds to be the case, for every  *)
(* pair of thresholds, unless its tick saw a policy half decoded.          *)
THEOREM PendingShowsVerdict == Spec => []PendingIsCurrent
<1>1. PollerInv => PendingIsCurrent
  <2> SUFFICES ASSUME PollerInv, step = "wait", out # <<>>, ~torn
               PROVE  IsBreaching(Head(out)) = poller.firing
    BY DEF PendingIsCurrent
  <2>1. out = <<sig>> /\ Head(out) = sig
    BY DEF PollerInv, SignalHandled
  <2>2. sig \in Samples
    <3>1. Head(out) \in Samples
      BY HeadTailProperties DEF PollerInv, TypeOK
    <3> QED BY <2>1, <3>1
  <2> QED BY <2>1, <2>2, PollerAssumption DEF PollerInv, SignalIsVerdict
<1> QED BY <1>1, PollerInvHolds, PTL

(* A Reconcile reads the poller of the policy it has fetched, for any      *)
(* number of policies under the name, unless a deletion went unnoticed.    *)
THEOREM PollerIsOfPolicy == Spec => []PollerBelongs
<1>1. PollerInv => PollerBelongs
  BY DEF PollerInv
<1> QED BY <1>1, PollerInvHolds, PTL

(* The poller implements the debouncer: its two counters decide as the     *)
(* last ticks would, for every pair of thresholds.                         *)
THEOREM PollerDebounces == Spec => Debounced
<1>1. Init => Debouncer!Init
  BY InitPollerInv
<1>2. PollerInv /\ [Next]_vars => [Debouncer!Next]_<<poller.firing, log>>
  BY NextDebounces DEF PollerInv
<1> QED BY <1>1, <1>2, PollerInvHolds, PTL DEF Spec, Debounced, Debouncer!Spec
=============================================================================
