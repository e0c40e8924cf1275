------------------------------ MODULE Debounce ------------------------------
(***************************************************************************)
(* What the poller promises of its debouncing, without its counters: a     *)
(* breach is confirmed when the last Breaches successful scrapes all       *)
(* showed it, a recovery when the last Recoveries all were clean.          *)
(***************************************************************************)
EXTENDS Integers, Sequences

CONSTANTS
    Breaches,    \* scrapes that confirm a breach
    Recoveries,  \* scrapes that confirm a recovery
    Memory       \* how many scrapes the log remembers

VARIABLES
    firing,  \* a breach is confirmed and not yet recovered from
    log      \* the last scrapes, TRUE for a breaching one

Latest(s) == SubSeq(s, IF Len(s) > Memory THEN Len(s) - Memory + 1 ELSE 1, Len(s))

AllOfLast(n, breaching, s) ==
    /\ Len(s) >= n
    /\ \A i \in (Len(s) - n + 1)..Len(s) : s[i] = breaching

Init == firing = FALSE /\ log = <<>>

Observe(breaching) ==
    /\ log' = Latest(Append(log, breaching))
    /\ firing' = \/ AllOfLast(Breaches, TRUE, log')
                 \/ firing /\ ~AllOfLast(Recoveries, FALSE, log')

Restart == Init'

Next == (\E breaching \in BOOLEAN : Observe(breaching)) \/ Restart

Spec == Init /\ [][Next]_<<firing, log>>
=============================================================================
