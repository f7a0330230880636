------------------------------ MODULE Limiter -------------------------------
(***************************************************************************)
(* The limiter and the workers that ask it for slots over the event bus,   *)
(* which hands its events on in the order they were published.             *)
(***************************************************************************)
EXTENDS Naturals, Sequences, SequencesExt, FiniteSets

CONSTANTS
    Tools, Limits,   \* Limits: the configurations a behaviour may have
    Jobs, ToolOf,    \* ToolOf: the tool a job asks for; it may be an unknown one
    MaxAsks,         \* a job may ask again, denied or not
    MaxStrays        \* per configuration: finished events of those who hold no slot

ASSUME LimiterAssumption ==
    /\ IsFiniteSet(Jobs) /\ MaxAsks \in Nat
    /\ Limits \subseteq [Tools -> Nat] /\ MaxStrays \in [Limits -> Nat]

VARIABLES
    limit, count, queue,   \* per tool; the queue holds the jobs that were denied
    subscribed,
    slotBus,               \* events published and not yet handled
    asked, held,           \* per job: its requests, and the slots it has
    strays,
    inOrder, grants        \* per tool: the jobs that asked, and those granted
limiterVars == <<limit, count, queue, subscribed, slotBus, asked, held, strays, inOrder, grants>>

SlotEvent(type, j) == [type |-> type, job |-> j]

LimiterTypeOK ==
    /\ limit \in Limits /\ count \in [Tools -> Nat] /\ \A t \in Tools : queue[t] \in Seq(Jobs)
    /\ subscribed \in BOOLEAN
    /\ slotBus \in Seq([type : {"requested", "finished", "granted", "denied"}, job : Jobs])
    /\ asked \in [Jobs -> 0 .. MaxAsks] /\ held \in [Jobs -> 0 .. MaxAsks]
    /\ strays \in 0 .. MaxStrays[limit]

LimiterInit ==
    /\ limit \in Limits /\ count = [t \in Tools |-> 0] /\ queue = [t \in Tools |-> <<>>]
    /\ subscribed = TRUE /\ slotBus = <<>> /\ strays = 0
    /\ asked = [j \in Jobs |-> 0] /\ held = [j \in Jobs |-> 0]
    /\ inOrder = [t \in Tools |-> <<>>] /\ grants = [t \in Tools |-> <<>>]

-----------------------------------------------------------------------------
(* addQueuedSlots: as many of the queue as there are slots, in its order.  *)
FromQueue(q, free) == SubSeq(q, 1, IF Len(q) < free THEN Len(q) ELSE free)

(* The decisions of one event: `granted` get slots, `denied` does not and  *)
(* joins the queue, of which the first ones have left.                     *)
Decided(t, before, queued, granted, denied) ==
    /\ count' = [count EXCEPT ![t] = before + Len(granted)]
    /\ queue' = [queue EXCEPT ![t] = SubSeq(@, Len(queued) + 1, Len(@)) \o denied]
    /\ grants' = [grants EXCEPT ![t] = @ \o granted]
    /\ slotBus' = Tail(slotBus) \o [k \in DOMAIN granted |-> SlotEvent("granted", granted[k])]
                                \o [k \in DOMAIN denied |-> SlotEvent("denied", denied[k])]

(* slotRequestDecisions, then the answers.  A tool that nobody configured  *)
(* gets none.                                                              *)
SlotRequested(j) ==
    LET t == ToolOf[j]
        queued == FromQueue(queue[t], limit[t] - count[t])
        hasSlot == count[t] + Len(queued) < limit[t] IN
    IF t \notin Tools
    THEN slotBus' = Tail(slotBus) /\ UNCHANGED <<count, queue, grants, inOrder>>
    ELSE /\ Decided(t, count[t], queued, queued \o IF hasSlot THEN <<j>> ELSE <<>>,
                    IF hasSlot THEN <<>> ELSE <<j>>)
         /\ inOrder' = [inOrder EXCEPT ![t] = Append(@, j)]

(* slotFinishedDecisions: a slot is back, whoever says so.  Mutant: the    *)
(* queue is looked at before.                                              *)
MutBack(t) == count[t]
Back(t) == IF count[t] > 0 THEN count[t] - 1 ELSE 0

SlotFinished(j) ==
    LET queued == FromQueue(queue[ToolOf[j]], limit[ToolOf[j]] - Back(ToolOf[j])) IN
    Decided(ToolOf[j], Back(ToolOf[j]), queued, queued, <<>>) /\ UNCHANGED inOrder

(* The bus hands on its first event.  The limiter decides at once; its     *)
(* answers are awaited one by one, and DecidesOnce says there is but one.  *)
SlotHandled ==
    /\ slotBus # <<>>
    /\ LET e == Head(slotBus) IN
       /\ held' = IF e.type = "granted" THEN [held EXCEPT ![e.job] = @ + 1] ELSE held
       /\ \/ e.type = "requested" /\ subscribed /\ SlotRequested(e.job)
          \/ e.type = "finished" /\ subscribed /\ SlotFinished(e.job)
          \/ /\ e.type \in {"granted", "denied"} \/ ~subscribed
             /\ slotBus' = Tail(slotBus) /\ UNCHANGED <<count, queue, grants, inOrder>>
    /\ UNCHANGED <<limit, subscribed, asked, strays>>

LimiterStops ==
    /\ subscribed /\ subscribed' = FALSE
    /\ UNCHANGED <<limit, count, queue, slotBus, asked, held, strays, inOrder, grants>>

-----------------------------------------------------------------------------
(* The workers, which nothing in the code is yet.                          *)
Says(e) == /\ slotBus' = Append(slotBus, e)
           /\ UNCHANGED <<limit, count, queue, subscribed, inOrder, grants>>

Asks(j) ==
    /\ asked[j] < MaxAsks /\ asked' = [asked EXCEPT ![j] = @ + 1]
    /\ Says(SlotEvent("requested", j)) /\ UNCHANGED <<held, strays>>

Finishes(j) ==
    /\ held[j] > 0 /\ held' = [held EXCEPT ![j] = @ - 1]
    /\ Says(SlotEvent("finished", j)) /\ UNCHANGED <<asked, strays>>

(* A finished event comes twice, or from a job without a slot.             *)
Strays(j) ==
    /\ strays < MaxStrays[limit] /\ held[j] = 0 /\ ToolOf[j] \in Tools /\ strays' = strays + 1
    /\ Says(SlotEvent("finished", j)) /\ UNCHANGED <<asked, held>>

-----------------------------------------------------------------------------
LimiterNext ==
    \/ SlotHandled \/ LimiterStops
    \/ \E j \in Jobs : Asks(j) \/ Finishes(j) \/ Strays(j)
LimiterSpec == LimiterInit /\ [][LimiterNext]_limiterVars

-----------------------------------------------------------------------------
OfTool(t) == {j \in Jobs : ToolOf[j] = t}
OnBus(t, type) == Cardinality({k \in DOMAIN slotBus : /\ slotBus[k].type = type
                                                      /\ ToolOf[slotBus[k].job] = t})
Held(t) == FoldFunctionOnSet(LAMBDA n, m : n + m, 0, held, OfTool(t))

(* The count is the slots that are held, on their way to a job or on their *)
(* way back, and within the limit, although no event carries a slot's      *)
(* identity; a finished event too many gives one slot away, and no more.   *)
CountIsHeld(t) ==
    LET out == Held(t) + OnBus(t, "granted") + OnBus(t, "finished") IN
    count[t] <= limit[t] /\ (subscribed => count[t] <= out /\ out <= count[t] + strays)

(* Nobody waits while a slot is free, so that an event makes one decision  *)
(* and its answers cannot be overtaken (limiter.ts:84-86, 94-96).          *)
DecidesOnce(t) == queue[t] # <<>> => count[t] = limit[t]

(* Slots are given in the order of the requests, and nobody is left out.   *)
FirstComeFirst(t) == inOrder[t] = grants[t] \o queue[t]

GrantsExact == /\ LimiterTypeOK
               /\ \A t \in Tools : CountIsHeld(t) /\ DecidesOnce(t) /\ FirstComeFirst(t)
=============================================================================
