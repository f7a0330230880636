------------------------------- MODULE Worker -------------------------------
(***************************************************************************)
(* The worker (packages/components/worker/src): each submitted job is one  *)
(* asynchronous function that waits for a capacity slot, resolves its      *)
(* inputs, waits for a permit of the resource it calls, makes the HTTP     *)
(* call under a timeout, stores the outputs, records what happened and     *)
(* publishes one terminal Message.  A step of the model is what one job    *)
(* does between two awaits; jobs interleave at every await.                *)
(*                                                                         *)
(* A caller may abort a job at any time and the timeout may fire at any    *)
(* time while it is armed.  A port the worker awaits may reject.           *)
(***************************************************************************)
EXTENDS Semaphore

CONSTANTS
    Keys,                  \* resource keys: the origins the jobs call
    MaxConcurrentJobs,     \* slots of the worker
    MaxConcurrencyPerKey,  \* permits of each key
    Abortable              \* jobs whose caller may give up

ASSUME JobsAssumption == IsFiniteSet(Jobs) /\ Abortable \subseteq Jobs
ASSUME LimitsAssumption == /\ MaxConcurrentJobs \in Nat \ {0}
                           /\ MaxConcurrencyPerKey \in Nat \ {0}

VARIABLES
    slots,     \* the capacity semaphore
    permits,   \* a semaphore per resource key
    stage,     \* where each job stands, by the await it is in
    key,       \* the resource key each job resolved
    aborted,   \* jobs whose caller signal is aborted
    cause,     \* which signal fired first while the call's timeout is armed
    outcome,   \* what running the job produced
    facts,     \* lifecycle facts recorded, per job
    terminals  \* terminal Messages published, per job

vars == <<slots, permits, stage, key, aborted, cause, outcome, facts, terminals>>
talk == <<facts, terminals>>

(* The stages in the order a job passes them.  `granted` and `permitted`   *)
(* are promises resolved by somebody else's release, not yet resumed.      *)
Waiting == {"queued", "permitQueued"}
WithPermit == {"permitted", "fetching", "reading"}
WithSlot == {"granted", "starting", "preparing", "permitQueued", "storing",
             "recording"} \cup WithPermit
Stages == {"idle", "queued", "publishing", "done", "rejected"} \cup WithSlot
(* The timeout is armed from before the permit is asked for until the call *)
(* has ended (combineForProtocolRun .. dispose).                           *)
Armed == {"permitQueued"} \cup WithPermit

Causes == {"none", "caller", "timeout"}
(* `invalid` before the call, `protocol` an HTTP failure, `store` after it *)
FailedRuns == {"invalid", "protocol", "store", "timeout"}
Outcomes == {"none", "completed", "cancelled"} \cup FailedRuns
Facts == {"started", "completed", "failed", "cancelled"}
Terminals == {"completed", "failed"}

TypeOK == /\ slots \in SemaphoreState
          /\ permits \in [Keys -> SemaphoreState]
          /\ stage \in [Jobs -> Stages]
          /\ key \in [Jobs -> Keys]
          /\ aborted \subseteq Jobs
          /\ cause \in [Jobs -> Causes]
          /\ outcome \in [Jobs -> Outcomes]
          /\ facts \in [Jobs -> SUBSET Facts]
          /\ terminals \in [Jobs -> SUBSET Terminals]

Init == /\ slots = NewSemaphore(MaxConcurrentJobs)
        /\ permits = [k \in Keys |-> NewSemaphore(MaxConcurrencyPerKey)]
        /\ stage = [j \in Jobs |-> "idle"]
        /\ key \in [Jobs -> Keys]
        /\ aborted = {}
        /\ cause = [j \in Jobs |-> "none"]
        /\ outcome = [j \in Jobs |-> "none"]
        /\ facts = [j \in Jobs |-> {}]
        /\ terminals = [j \in Jobs |-> {}]

-----------------------------------------------------------------------------
(* Helpers: what a release does to the jobs, and how a job ends.           *)

Promote(st, served, to) == [i \in Jobs |-> IF i \in served THEN to ELSE st[i]]

(* The job leaves its slot for stage `to`; the next in line is granted.    *)
FreeSlot(j, to) ==
    /\ slots' = Release(slots)
    /\ stage' = Promote([stage EXCEPT ![j] = to], Served(slots), "granted")

(* Mutant: an exception skips the `finally`.                               *)
MutKeepsPermit(j, to, result) ==
    /\ permits' = IF result = "timeout" THEN permits
                  ELSE [permits EXCEPT ![key[j]] = Release(@)]
    /\ stage' = Promote([stage EXCEPT ![j] = to],
                        IF result = "timeout" THEN {}
                        ELSE Served(permits[key[j]]), "permitted")
    /\ outcome' = [outcome EXCEPT ![j] = result]
FreePermit(j, to, result) ==
    /\ permits' = [permits EXCEPT ![key[j]] = Release(@)]
    /\ stage' = Promote([stage EXCEPT ![j] = to], Served(permits[key[j]]),
                        "permitted")
    /\ outcome' = [outcome EXCEPT ![j] = result]

(* A call that threw is classified by the signal that fired first.         *)
Classified(j) == IF cause[j] = "caller" THEN "cancelled" ELSE "timeout"

SignalAborted(j) == cause[j] # "none"

-----------------------------------------------------------------------------
(* The caller.                                                             *)

Submit(j) ==
    /\ stage[j] = "idle"
    /\ IF j \in aborted
       THEN /\ stage' = [stage EXCEPT ![j] = "publishing"]
            /\ outcome' = [outcome EXCEPT ![j] = "cancelled"]
            /\ UNCHANGED slots
       ELSE /\ slots' = Acquire(slots, j)
            /\ stage' = [stage EXCEPT ![j] = IF Free(slots) THEN "granted"
                                                            ELSE "queued"]
            /\ UNCHANGED outcome
    /\ UNCHANGED <<permits, key, aborted, cause, talk>>

(* The signal's listeners run at once: a job in a queue leaves it.         *)
AbortQueued(j) ==
    /\ stage[j] = "queued"
    /\ slots' = Leave(slots, j)
    /\ stage' = [stage EXCEPT ![j] = "publishing"]
    /\ outcome' = [outcome EXCEPT ![j] = "cancelled"]
    /\ UNCHANGED <<permits, cause>>

AbortPermitQueued(j) ==
    /\ stage[j] = "permitQueued"
    /\ cause' = [cause EXCEPT ![j] = IF @ = "none" THEN "caller" ELSE @]
    /\ permits' = [permits EXCEPT ![key[j]] = Leave(@, j)]
    /\ stage' = [stage EXCEPT ![j] = "recording"]
    /\ outcome' = [outcome EXCEPT ![j] = IF cause'[j] = "caller" THEN "cancelled"
                                                                 ELSE "timeout"]
    /\ UNCHANGED slots

(* Mutant: the later signal overwrites the earlier.                        *)
MutLastSignalWins(j) ==
    /\ stage[j] \notin Waiting
    /\ cause' = [cause EXCEPT ![j] = IF stage[j] \in Armed THEN "caller" ELSE @]
    /\ UNCHANGED <<slots, permits, stage, outcome>>
AbortElsewhere(j) ==
    /\ stage[j] \notin Waiting
    /\ cause' = [cause EXCEPT ![j] = IF stage[j] \in Armed /\ @ = "none"
                                     THEN "caller" ELSE @]
    /\ UNCHANGED <<slots, permits, stage, outcome>>

Abort(j) ==
    /\ j \in Abortable \ aborted
    /\ aborted' = aborted \cup {j}
    /\ AbortQueued(j) \/ AbortPermitQueued(j) \/ AbortElsewhere(j)
    /\ UNCHANGED <<key, talk>>

-----------------------------------------------------------------------------
(* The job.                                                                *)

(* After admission the abort is asked for again; then `started` is         *)
(* recorded.  A submission that is not valid throws.                       *)
Admit(j) ==
    /\ stage[j] = "granted"
    /\ IF j \in aborted
       THEN /\ FreeSlot(j, "publishing")
            /\ outcome' = [outcome EXCEPT ![j] = "cancelled"]
       ELSE /\ stage' = [stage EXCEPT ![j] = "starting"]
            /\ UNCHANGED <<slots, outcome>>
    /\ UNCHANGED <<permits, key, aborted, cause, talk>>

Started(j) ==
    /\ stage[j] = "starting"
    /\ facts' = [facts EXCEPT ![j] = @ \cup {"started"}]
    /\ stage' = [stage EXCEPT ![j] = "preparing"]
    /\ UNCHANGED <<slots, permits, key, aborted, cause, outcome, terminals>>

PrepareFails(j) ==
    /\ stage[j] = "preparing"
    /\ stage' = [stage EXCEPT ![j] = "recording"]
    /\ outcome' = [outcome EXCEPT ![j] = "invalid"]
    /\ UNCHANGED <<slots, permits, key, aborted, cause, talk>>

(* The timeout is armed and the permit asked for in one go.                *)
Prepared(j) ==
    /\ stage[j] = "preparing"
    /\ IF j \in aborted
       THEN /\ cause' = [cause EXCEPT ![j] = "caller"]
            /\ stage' = [stage EXCEPT ![j] = "recording"]
            /\ outcome' = [outcome EXCEPT ![j] = "cancelled"]
            /\ UNCHANGED permits
       ELSE /\ permits' = [permits EXCEPT ![key[j]] = Acquire(@, j)]
            /\ stage' = [stage EXCEPT ![j] = IF Free(permits[key[j]])
                                             THEN "permitted"
                                             ELSE "permitQueued"]
            /\ UNCHANGED <<cause, outcome>>
    /\ UNCHANGED <<slots, key, aborted, talk>>

(* The timeout does not end the wait for a permit.  A granted promise is   *)
(* resumed before the event loop gets to its timers.                       *)
TimerFires(j) ==
    /\ stage[j] \in {"permitQueued", "fetching", "reading"}
    /\ cause[j] = "none"
    /\ cause' = [cause EXCEPT ![j] = "timeout"]
    /\ UNCHANGED <<slots, permits, stage, key, aborted, outcome, talk>>

(* execute: a request that cannot be sent is refused before the call.      *)
CallRefused(j) ==
    /\ stage[j] = "permitted"
    /\ FreePermit(j, "recording", "protocol")
    /\ UNCHANGED <<slots, key, aborted, cause, talk>>

CallStarts(j) ==
    /\ stage[j] = "permitted"
    /\ stage' = [stage EXCEPT ![j] = "fetching"]
    /\ UNCHANGED <<slots, permits, key, aborted, cause, outcome, talk>>

(* fetch rejects: on a signal it throws, otherwise it is a network error.  *)
FetchRejects(j) ==
    /\ stage[j] = "fetching"
    /\ FreePermit(j, "recording", IF SignalAborted(j) THEN Classified(j)
                                                      ELSE "protocol")
    /\ UNCHANGED <<slots, key, aborted, cause, talk>>

Responds(j) ==
    /\ stage[j] = "fetching" /\ ~SignalAborted(j)
    /\ stage' = [stage EXCEPT ![j] = "reading"]
    /\ UNCHANGED <<slots, permits, key, aborted, cause, outcome, talk>>

(* Reading the body rejects, for a bad body or because a signal cut it     *)
(* short: either way execute returns an HTTP failure.                      *)
BodyRejects(j) ==
    /\ stage[j] = "reading"
    /\ FreePermit(j, "recording", "protocol")
    /\ UNCHANGED <<slots, key, aborted, cause, talk>>

(* A body of a failure response is stored too; it stays a failure.         *)
BodyRead(j, result) ==
    /\ stage[j] = "reading" /\ ~SignalAborted(j)
    /\ FreePermit(j, "storing", result)
    /\ UNCHANGED <<slots, key, aborted, cause, talk>>

Stored(j, saved) ==
    /\ stage[j] = "storing"
    /\ stage' = [stage EXCEPT ![j] = "recording"]
    /\ outcome' = [outcome EXCEPT ![j] = IF @ = "completed" /\ ~saved THEN "store"
                                                                      ELSE @]
    /\ UNCHANGED <<slots, permits, key, aborted, cause, talk>>

Fact(result) == CASE result = "completed" -> "completed"
                  [] result = "cancelled" -> "cancelled"
                  [] OTHER -> "failed"

Recorded(j) ==
    /\ stage[j] = "recording"
    /\ facts' = [facts EXCEPT ![j] = @ \cup {Fact(outcome[j])}]
    /\ FreeSlot(j, "publishing")
    /\ UNCHANGED <<permits, key, aborted, cause, outcome, terminals>>

(* Mutant: whatever was stored counts as completed.                        *)
MutStoreCompletes(result) ==
    IF result \in {"completed", "store"} THEN "completed" ELSE "failed"
Terminal(result) == IF result = "completed" THEN "completed" ELSE "failed"

Published(j) ==
    /\ stage[j] = "publishing"
    /\ terminals' = [terminals EXCEPT ![j] = @ \cup {Terminal(outcome[j])}]
    /\ stage' = [stage EXCEPT ![j] = "done"]
    /\ UNCHANGED <<slots, permits, key, aborted, cause, outcome, facts>>

(* The router refuses the terminal: the handler rejects.                   *)
PublishRefused(j) ==
    /\ stage[j] = "publishing"
    /\ stage' = [stage EXCEPT ![j] = "rejected"]
    /\ UNCHANGED <<slots, permits, key, aborted, cause, outcome, talk>>

(* A port rejects (the lifecycle sink, the artifact store) or a submission *)
(* is not valid: the slot is released and nothing is published.            *)
Throws(j) ==
    /\ stage[j] \in {"granted", "starting", "preparing", "storing", "recording"}
    /\ FreeSlot(j, "rejected")
    /\ UNCHANGED <<permits, key, aborted, cause, outcome, talk>>

-----------------------------------------------------------------------------
Own(j) == \/ Admit(j) \/ Started(j) \/ PrepareFails(j) \/ Prepared(j)
          \/ CallRefused(j) \/ CallStarts(j)
          \/ \E saved \in BOOLEAN : Stored(j, saved)
          \/ Recorded(j) \/ Published(j) \/ PublishRefused(j) \/ Throws(j)
CallEnds(j) == FetchRejects(j) \/ BodyRejects(j)
Network(j) == \/ CallEnds(j) \/ Responds(j)
              \/ \E result \in {"completed", "protocol"} : BodyRead(j, result)

Next == \E j \in Jobs : \/ Submit(j) \/ Abort(j) \/ TimerFires(j)
                        \/ Own(j) \/ Network(j)

Spec == Init /\ [][Next]_vars

(* Ports answer, the timeout fires while it is armed, and a call whose     *)
(* signal is aborted ends.  The network owes nothing, and neither does a   *)
(* caller.                                                                 *)
Fairness == \A j \in Jobs : /\ WF_vars(Own(j)) /\ WF_vars(TimerFires(j))
                            /\ WF_vars(SignalAborted(j) /\ CallEnds(j))
FairSpec == Spec /\ Fairness

=============================================================================
