---------------------------- MODULE WorkerProps ----------------------------
(***************************************************************************)
(* What the worker promises about its jobs, over the state of module       *)
(* Worker.                                                                 *)
(***************************************************************************)
EXTENDS Worker

InStages(S) == {j \in Jobs : stage[j] \in S}
Calling(k, S) == {j \in Jobs : key[j] = k /\ stage[j] \in S}
(* No capacity slot is lost or given twice, whatever throws and whoever    *)
(* aborts; at most MaxConcurrentJobs run, and none waits without need.     *)
SlotsExact == Balanced(slots, MaxConcurrentJobs, InStages(WithSlot),
                       InStages({"queued"}))

(* The same for the permits of every resource key.                         *)
PermitsExact == \A k \in Keys : Balanced(permits[k], MaxConcurrencyPerKey,
                                         Calling(k, WithPermit),
                                         Calling(k, {"permitQueued"}))

(* The terminal tells what the lifecycle sink was told: completed means    *)
(* that the job started and completed; failed that it failed, or that it   *)
(* was cancelled, before its start (no fact at all) or after.  No job has  *)
(* two terminals or two endings, and a rejected one has no terminal.       *)
TerminalTellsFacts ==
    \A j \in Jobs :
        /\ terminals[j] = {"completed"} => facts[j] = {"started", "completed"}
        /\ terminals[j] = {"failed"} =>
              facts[j] \in {{}, {"started", "failed"}, {"started", "cancelled"}}
        /\ terminals[j] # {"completed", "failed"}
        /\ stage[j] = "rejected" => terminals[j] = {}
        /\ Cardinality(facts[j] \ {"started"}) <= 1

(* A waiting job never moves back in line, for a slot or for a permit:     *)
(* with the first in line served first, no later job passes it.            *)
PlacesKept ==
    [][/\ \A j \in Listed(slots) \cap Listed(slots)' :
              Position(slots, j)' <= Position(slots, j)
       /\ \A k \in Keys : \A j \in Listed(permits[k]) \cap Listed(permits[k])' :
              Position(permits[k], j)' <= Position(permits[k], j)]_vars

(* A job whose timeout fired before its caller gave up is never reported   *)
(* as cancelled, whatever the caller does before the call has ended        *)
(* (combine-for-protocol-run.ts:12-15).                                    *)
FirstSignalWins ==
    \A j \in Jobs : [](cause[j] = "timeout" => [](outcome[j] # "cancelled"))

(* Every submitted job ends, with a terminal or with a rejection, even     *)
(* when the resource it calls never answers.                               *)
EveryJobEnds ==
    \A j \in Jobs : stage[j] # "idle" ~> stage[j] \in {"done", "rejected"}

-----------------------------------------------------------------------------
(* A claim the code does not keep.  job-runner.test.ts:159: "a protocol    *)
(* call exceeding protocolTimeoutMs produces a distinct TIMEOUT failure";  *)
(* http-json.executor.ts:147-151 says why an abort must not be folded into *)
(* a resolved failure.                                                     *)
TimeoutIsDistinct ==
    [][\A j \in Jobs : /\ stage[j] \in {"fetching", "reading"}
                       /\ cause[j] = "timeout"
                       /\ stage'[j] = "recording"
                      => outcome'[j] = "timeout"]_vars

=============================================================================
