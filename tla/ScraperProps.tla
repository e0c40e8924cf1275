---------------------------- MODULE ScraperProps ----------------------------
(***************************************************************************)
(* What the signals of a read say of the requests the pods really served.  *)
(***************************************************************************)
EXTENDS Scraper

Served(pods, classes) ==
    SumFunction([p \in pods |-> SumFunctionOnSet(result.served[p], classes)])

Successes == {c \in Class : result.policy # Absent /\ Succeeds(result.policy, c)}

(* No request and no rejection is counted twice or out of nothing, no      *)
(* failure as a success, and nothing of a pod that did not answer, whatever *)
(* restarts, losses, unreachable pods and other policies come between two  *)
(* reads (scraper.go:121-162, 185-188).                                    *)
NothingInvented ==
    /\ result.samples <= Served(result.answered, Class)
    /\ result.success <= Served(result.answered, Successes)
    /\ result.success <= result.samples
    /\ result.shed <= Served(result.answered, {Shed})

Counted(pods) ==
    /\ Served(pods, Class) <= result.samples
    /\ Served(pods, Successes) <= result.success
    /\ Served(pods, Class) > 0 => Served(pods, {Shed}) <= result.shed

(* Every request of the pods that stayed is counted, whatever other pods   *)
(* do, as long as no other policy reads in between (scraper.go:121-142).   *)
(* And every failure of theirs is one that the read shows, unless another  *)
(* pod restarted and has outgrown its old total: of such a pod the classes *)
(* that went up are counted and those that went down are not (140-157), so *)
(* its successes may stand in for the failures of the others, although     *)
(* architecture.md:110 says that its interval is skipped.                  *)
SteadyPodsAreCounted ==
    /\ Counted(result.steady)
    /\ result.restarted = {} =>
          Served(result.steady, Class \ Successes) <= result.samples - result.success

(* When all requests succeed no read shows a failure, and when all fail no *)
(* read shows a success, also across a restart the counters do not reveal  *)
(* (scraper.go:144-157, 185-188).                                          *)
ExtremesAreHonest ==
    /\ Served(result.answered, Class \ Successes) = 0 => result.success = result.samples
    /\ Served(result.answered, Successes) = 0 => result.success = 0

-----------------------------------------------------------------------------
(* controller.go:50-51: the scraper is "Shared across all reconcile calls  *)
(* -- maintains counter history." A policy that reads pods it has read     *)
(* before, and that stayed, sees what they served since, whichever         *)
(* policies read in between. But every read drops the history of the pods  *)
(* of all other policies.                                                  *)
HistoryIsKept == Counted(result.kept)
=============================================================================
