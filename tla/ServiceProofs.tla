---------------------------- MODULE ServiceProofs ----------------------------
(***************************************************************************)
(* The services around the engine: the order in which a process ends, the  *)
(* files of an artifact, the slots of the limiter, and the analysis of a   *)
(* flow.  They share no state, and each has an inductive invariant of its  *)
(* own:                                                                    *)
(*   HostInv        what is up is a prefix of the order of starting, and   *)
(*                  whoever works finds all of it up                       *)
(*   StoredIsThere  a save that will write the row has seen the content    *)
(*   StoreInv       four layers: types and what each saver has open; while *)
(*                  nothing fails, what is not whole is being written and  *)
(*                  what is temporary will be unlinked; while saves do not *)
(*                  overlap, the one under way is alone with its files;    *)
(*                  and when neither happens, each save does all its work  *)
(*   SlotsInv       the slots a job has, is granted or waits for are ones  *)
(*                  it asked for, and the count, the queue and the grants  *)
(*                  of each tool are what the events handled come to       *)
(*   SearchInv      what leads to a sorted step was sorted before it, and  *)
(*                  a step is ready or sorted when no edge is left into    *)
(*                  it; the calls of the search are a path, and every edge *)
(*                  they went through came to nothing                      *)
(***************************************************************************)
EXTENDS HostLifecycle, ArtifactStore, Limiter, FlowGraph, InductionFacts

-----------------------------------------------------------------------------
(* A process ends in order                                                 *)

(* The first n resources are up and no other is.                           *)
UpTo(n) == \A k \in 1 .. Final : resource[Order[k]] = "up" <=> k <= n

(* How far the resources are up: what has been started, or is yet to stop. *)
(* The worker's main that goes on after a failed start has none to stop.   *)
Reached ==
    /\ process = "starting" => position \in 1 .. Final /\ UpTo(position - 1)
    /\ process \in {"building", "serving", "closing"} => position = Final /\ UpTo(Final)
    /\ process \in {"rollingBack", "giving up"} => UpTo(position)
    /\ process = "stopping" => UpTo(position) \/ UpTo(0)
    /\ process \in {"failed", "stopped", "exited"} => UpTo(0)
    /\ \E n \in 0 .. Final : UpTo(n)

(* Who works, works on all of it.                                          *)
Worked ==
    /\ requests > 0 => Serves /\ process \in {"serving", "closing"}
    /\ process = "failed" => ~Serves
    /\ Redis /\ (claimed > 0 \/ (Alive /\ intake # "off")) => UpTo(Final)

HostInv == HostTypeOK /\ Reached /\ Worked

-----------------------------------------------------------------------------
(* In every profile each resource is started once, the router last.        *)
Ordered == /\ Final \in Nat /\ Final >= 1
           /\ \A k \in 1 .. Final : Order[k] \in Resources
           /\ \A j, k \in 1 .. Final : Order[j] = Order[k] => j = k
           /\ Order[Final] = "router"

LEMMA OrderFacts == HostTypeOK => Ordered
<1> SUFFICES ASSUME HostTypeOK PROVE Ordered
  OBVIOUS
<1> USE DEF Ordered
<1>1. host.profile \in Profiles
  BY DEF HostTypeOK, Hosts
<1>2. CASE host.profile = "embedded"
  <2>1. Order = <<"sql", "bus", "sinks", "tap", "engine", "limiter", "router">>
    BY <1>2 DEF Order
  <2>2. Final = 7
    BY <2>1 DEF Final
  <2> QED  BY <2>1, <2>2 DEF Resources
<1>3. CASE host.profile = "api"
  <2>1. Order = <<"sql", "artifacts", "bus", "sinks", "tap", "engine", "router">>
    BY <1>3 DEF Order
  <2>2. Final = 7
    BY <2>1 DEF Final
  <2> QED  BY <2>1, <2>2 DEF Resources
<1>4. CASE host.profile = "worker"
  <2>1. Order = <<"sql", "artifacts", "router">>
    BY <1>4 DEF Order
  <2>2. Final = 3
    BY <2>1 DEF Final
  <2> QED  BY <2>1, <2>2 DEF Resources
<1> QED  BY <1>1, <1>2, <1>3, <1>4 DEF Profiles

(* What the process is does not change.                                    *)
LEMMA SameHost ==
  ASSUME host' = host
  PROVE  /\ Order' = Order /\ Final' = Final /\ (Redis' <=> Redis) /\ (Serves' <=> Serves)
BY DEF Order, Final, Redis, Serves

(* The counters count.                                                     *)
LEMMA Counts ==
  ASSUME HostTypeOK
  PROVE  /\ requests \in Nat /\ requests <= MaxWork /\ claimed \in Nat /\ claimed <= MaxWork
         /\ mishaps \in Nat /\ mishaps <= MaxMishaps /\ 0 \in 0 .. MaxWork
         /\ mishaps < MaxMishaps => mishaps + 1 \in 0 .. MaxMishaps
<1>1. requests \in 0 .. MaxWork /\ claimed \in 0 .. MaxWork /\ mishaps \in 0 .. MaxMishaps
  BY DEF HostTypeOK
<1>2. MaxWork \in Nat /\ MaxMishaps \in Nat
  BY BoundsAssumption
<1> QED  BY <1>1, <1>2

(* One more resource is up.                                                *)
LEMMA OneMoreUp ==
  ASSUME HostTypeOK, NEW n \in 1 .. Final, UpTo(n - 1), host' = host,
         Becomes(Order[n], "up")
  PROVE  UpTo(n)' /\ resource' \in [Resources -> {"down", "up", "half"}]
<1>1. /\ Final \in Nat /\ n \in Nat /\ n >= 1 /\ n <= Final
      /\ \A k \in 1 .. Final : Order[k] \in Resources
      /\ \A j, k \in 1 .. Final : Order[j] = Order[k] => j = k
  BY OrderFacts DEF Ordered
<1>2. Order' = Order /\ Final' = Final
  BY SameHost
<1>3. /\ resource \in [Resources -> {"down", "up", "half"}]
      /\ resource' = [resource EXCEPT ![Order[n]] = "up"]
  BY DEF HostTypeOK, Becomes
<1>4. ASSUME NEW k \in 1 .. Final PROVE resource'[Order[k]] = "up" <=> k <= n
  <2>1. resource[Order[k]] = "up" <=> k <= n - 1
    BY DEF UpTo
  <2>2. CASE k = n
    BY <1>1, <1>3, <2>2
  <2>3. CASE k # n
    <3>1. resource'[Order[k]] = resource[Order[k]]
      BY <1>1, <1>3, <2>3
    <3> QED  BY <1>1, <2>1, <2>3, <3>1
  <2> QED  BY <2>2, <2>3
<1>5. resource' \in [Resources -> {"down", "up", "half"}]
  BY <1>1, <1>3
<1> QED  BY <1>2, <1>4, <1>5 DEF UpTo

(* One that is up no longer is, or one that is not stays so.               *)
LEMMA OneLessUp ==
  ASSUME HostTypeOK, NEW n \in 1 .. Final, NEW m \in 0 .. n, UpTo(m), host' = host,
         NEW state \in {"down", "half"}, Becomes(Order[n], state)
  PROVE  /\ m = n => UpTo(n - 1)'
         /\ m < n => UpTo(m)'
         /\ resource' \in [Resources -> {"down", "up", "half"}]
<1>1. /\ Final \in Nat /\ n \in Nat /\ n >= 1 /\ n <= Final /\ m \in Nat
      /\ \A k \in 1 .. Final : Order[k] \in Resources
      /\ \A j, k \in 1 .. Final : Order[j] = Order[k] => j = k
  BY OrderFacts DEF Ordered
<1>2. Order' = Order /\ Final' = Final
  BY SameHost
<1>3. /\ resource \in [Resources -> {"down", "up", "half"}]
      /\ resource' = [resource EXCEPT ![Order[n]] = state]
  BY DEF HostTypeOK, Becomes
<1>4. ASSUME NEW k \in 1 .. Final
      PROVE  resource'[Order[k]] = "up" <=> k <= m /\ k # n
  <2>1. resource[Order[k]] = "up" <=> k <= m
    BY DEF UpTo
  <2>2. CASE k = n
    BY <1>1, <1>3, <2>2
  <2>3. CASE k # n
    <3>1. resource'[Order[k]] = resource[Order[k]]
      BY <1>1, <1>3, <2>3
    <3> QED  BY <2>1, <2>3, <3>1
  <2> QED  BY <2>2, <2>3
<1>5. resource' \in [Resources -> {"down", "up", "half"}]
  BY <1>1, <1>3
<1>6. ASSUME m = n PROVE UpTo(n - 1)'
  <2>1. \A k \in 1 .. Final : k <= m /\ k # n <=> k <= n - 1
    BY <1>1, <1>6
  <2> QED  BY <1>2, <1>4, <2>1 DEF UpTo
<1>7. ASSUME m < n PROVE UpTo(m)'
  <2>1. \A k \in 1 .. Final : k <= m /\ k # n <=> k <= m
    BY <1>1, <1>7
  <2> QED  BY <1>2, <1>4, <2>1 DEF UpTo
<1> QED  BY <1>5, <1>6, <1>7

(* What is up stays up, and who works may, when no resource is touched.    *)
LEMMA SameUp ==
  ASSUME host' = host, resource' = resource
  PROVE  /\ Final' = Final /\ Order' = Order /\ (Redis' <=> Redis) /\ (Serves' <=> Serves)
         /\ \A n \in 0 .. Final : UpTo(n)' <=> UpTo(n)
         /\ (\E n \in 0 .. Final : UpTo(n)) => (\E n \in 0 .. Final : UpTo(n))'
<1>1. Final' = Final /\ Order' = Order /\ (Redis' <=> Redis) /\ (Serves' <=> Serves)
  BY SameHost
<1>2. ASSUME NEW n \in 0 .. Final PROVE UpTo(n)' <=> UpTo(n)
  BY <1>1 DEF UpTo
<1> QED  BY <1>1, <1>2

(* The resources are up to some point, and only one point.                 *)
LEMMA OnePoint ==
  ASSUME Ordered, NEW m \in 0 .. Final, NEW n \in 0 .. Final, UpTo(m), UpTo(n)
  PROVE  m = n
<1>1. m \in Nat /\ n \in Nat /\ Final \in Nat /\ m <= Final /\ n <= Final
  BY DEF Ordered
<1>2. ASSUME m < n PROVE FALSE
  <2>1. n \in 1 .. Final
    BY <1>1, <1>2
  <2> QED  BY <1>1, <1>2, <2>1 DEF UpTo
<1>3. ASSUME n < m PROVE FALSE
  <2>1. m \in 1 .. Final
    BY <1>1, <1>3
  <2> QED  BY <1>1, <1>3, <2>1 DEF UpTo
<1> QED  BY <1>1, <1>2, <1>3

-----------------------------------------------------------------------------
(* Before the start nothing is up.                                         *)
LEMMA HostStarts == HostInit => HostInv
<1> SUFFICES ASSUME HostInit PROVE HostInv
  OBVIOUS
<1>1. HostTypeOK /\ resource = [r \in Resources |-> "down"]
  <2>1. Final \in Nat /\ Final >= 1
    <3>1. host.profile \in Profiles
      BY DEF HostInit, Hosts
    <3>2. CASE host.profile = "embedded"
      BY <3>2 DEF Final, Order
    <3>3. CASE host.profile = "api"
      BY <3>3 DEF Final, Order
    <3>4. CASE host.profile = "worker"
      BY <3>4 DEF Final, Order
    <3> QED  BY <3>1, <3>2, <3>3, <3>4 DEF Profiles
  <2>2. projecting \in BOOLEAN
    BY DEF HostInit
  <2> QED  BY <2>1, <2>2, BoundsAssumption DEF HostInit, HostTypeOK
<1>2. Ordered
  BY <1>1, OrderFacts
<1>3. UpTo(0)
  BY <1>1, <1>2 DEF UpTo, Ordered
<1>4. Reached
  BY <1>2, <1>3 DEF HostInit, Reached, Ordered
<1>5. Worked
  BY BoundsAssumption DEF HostInit, Worked
<1> QED  BY <1>1, <1>4, <1>5 DEF HostInv

(* Starting, a resource at a time.                                         *)
LEMMA StartsInOrder == HostInv /\ Starts => HostInv'
<1> SUFFICES ASSUME HostInv, Starts PROVE HostInv'
  OBVIOUS
<1>1. Ordered /\ HostTypeOK /\ Reached /\ Worked
  BY OrderFacts DEF HostInv
<1>2. /\ process = "starting" /\ position \in 1 .. Final /\ UpTo(position - 1)
      /\ host' = host /\ Becomes(Order[position], "up")
  BY <1>1 DEF Starts, Reached
<1>3. PICK n \in 1 .. Final : n = position
  BY <1>2
<1>4. UpTo(n)' /\ resource' \in [Resources -> {"down", "up", "half"}]
  BY <1>1, <1>2, <1>3, OneMoreUp
<1>5. Final' = Final /\ (Redis' <=> Redis) /\ (Serves' <=> Serves) /\ n \in Nat /\ Final \in Nat
  BY <1>1, <1>2, SameHost DEF Ordered
<1>6. requests = 0 /\ ~(Redis /\ (claimed > 0 \/ intake # "off"))
  <2>1. ~UpTo(Final)
    BY <1>1, <1>2, <1>3, <1>5, OnePoint DEF Ordered
  <2> QED  BY <1>1, <1>2, <2>1, BoundsAssumption DEF Worked, Alive, HostTypeOK
<1>7. CASE position < Final
  <2>1. position' = n + 1 /\ process' = "starting" /\ intake' = intake
          /\ requests' = requests /\ claimed' = claimed /\ projecting' = projecting
          /\ mishaps' = mishaps
    BY <1>2, <1>3, <1>7 DEF Starts, Work
  <2>2. HostTypeOK'
    BY <1>1, <1>2, <1>3, <1>4, <1>5, <1>7, <2>1 DEF HostTypeOK
  <2>3. Reached'
    BY <1>3, <1>4, <1>5, <1>7, <2>1 DEF Reached
  <2> QED  BY <1>5, <1>6, <2>1, <2>2, <2>3 DEF HostInv, Worked
<1>8. CASE ~(position < Final)
  <2>1. /\ position' = Final /\ process' \in {"building", "serving"}
        /\ intake' \in {"on", intake}
        /\ requests' = requests /\ claimed' = claimed /\ projecting' = projecting
        /\ mishaps' = mishaps
    BY <1>2, <1>3, <1>5, <1>8 DEF Starts, Work
  <2>2. HostTypeOK'
    <3>1. position' \in 0 .. Final'
      BY <1>5, <2>1
    <3>3. intake' \in {"off", "on", "last"}
      BY <1>1, <2>1 DEF HostTypeOK
    <3>2. projecting' \in BOOLEAN
      BY <1>1, <2>1 DEF HostTypeOK
    <3> QED  BY <1>1, <1>2, <1>4, <2>1, <3>1, <3>2, <3>3 DEF HostTypeOK
  <2>3. UpTo(Final)' /\ n = Final
    BY <1>2, <1>3, <1>4, <1>5, <1>8
  <2>4. Reached'
    BY <1>5, <2>1, <2>3, <1>4 DEF Reached
  <2> QED  BY <1>5, <1>6, <2>1, <2>2, <2>3, <2>4 DEF HostInv, Worked
<1> QED  BY <1>7, <1>8

(* A hook that throws while starting leaves what was started before it.    *)
LEMMA StartThrowsInOrder == HostInv /\ StartThrows => HostInv'
<1> SUFFICES ASSUME HostInv, StartThrows PROVE HostInv'
  OBVIOUS
<1>1. Ordered /\ HostTypeOK /\ Reached /\ Worked
  BY OrderFacts DEF HostInv
<1>2. process = "starting" /\ position \in 1 .. Final /\ UpTo(position - 1)
  BY <1>1 DEF StartThrows, Reached
<1>3. /\ host' = host /\ process' = "rollingBack" /\ position' = position - 1
      /\ intake' = intake /\ requests' = requests /\ claimed' = claimed
      /\ mishaps < MaxMishaps /\ mishaps' = mishaps + 1
  BY DEF StartThrows, Work, HookThrows
<1>4. projecting' = projecting
  BY DEF StartThrows, Work
<1>5. PICK n \in 1 .. Final : n = position
  BY <1>2
<1>6. Final' = Final /\ (Redis' <=> Redis) /\ n \in Nat /\ Final \in Nat
  BY <1>1, <1>3, SameHost DEF Ordered
<1>7. UpTo(n - 1)' /\ resource' \in [Resources -> {"down", "up", "half"}]
  <2>1. n - 1 \in 0 .. n /\ n - 1 < n /\ n - 1 \in 0 .. Final
    BY <1>6
  <2>2. CASE resource' = resource
    <3>1. UpTo(n - 1)'
      BY <1>2, <1>3, <1>5, <2>1, <2>2, SameUp
    <3> QED  BY <1>1, <2>2, <3>1 DEF HostTypeOK
  <2>3. CASE Becomes(Order[n], "half")
    BY <1>1, <1>2, <1>3, <1>5, <2>1, <2>3, OneLessUp
  <2> QED  BY <1>5, <2>2, <2>3 DEF StartThrows
<1>8. requests = 0 /\ ~(Redis /\ (claimed > 0 \/ intake # "off"))
  <2>1. ~UpTo(Final)
    BY <1>1, <1>2, <1>5, <1>6, OnePoint DEF Ordered
  <2> QED  BY <1>1, <1>2, <2>1, BoundsAssumption DEF Worked, Alive, HostTypeOK
<1>9. HostTypeOK'
  <2>1. position' \in 0 .. Final'
    BY <1>3, <1>5, <1>6
  <2>2. projecting' \in BOOLEAN
    BY <1>1, <1>4 DEF HostTypeOK
  <2>3. mishaps' \in 0 .. MaxMishaps
    BY <1>1, <1>3, Counts
  <2> QED  BY <1>1, <1>3, <1>7, <2>1, <2>2, <2>3 DEF HostTypeOK
<1>10. Reached'
  BY <1>3, <1>5, <1>6, <1>7 DEF Reached
<1> QED  BY <1>3, <1>6, <1>8, <1>9, <1>10 DEF HostInv, Worked

(* Stopping, the last first; the router only when its work is done.        *)
LEMMA StopsInOrder == HostInv /\ Stops => HostInv'
<1> SUFFICES ASSUME HostInv, Stops PROVE HostInv'
  OBVIOUS
<1>1. Ordered /\ HostTypeOK /\ Reached /\ Worked
  BY OrderFacts DEF HostInv
<1>2. /\ process \in {"rollingBack", "giving up", "stopping"} /\ position \in 1 .. Final
  <2>1. process \in {"rollingBack", "giving up", "stopping"}
    BY DEF Stops, Stopping
  <2>2. position > 0
    BY DEF Stops
  <2>3. position \in 0 .. Final /\ Final \in Nat
    BY <1>1 DEF HostTypeOK, Ordered
  <2>4. position \in 1 .. Final
    BY <2>2, <2>3
  <2> QED  BY <2>1, <2>4
<1>3. /\ host' = host /\ process' = process /\ position' = position - 1
      /\ intake' = intake /\ requests' = requests /\ claimed' = claimed
  BY DEF Stops, Work
<1>4. projecting' = projecting
  BY DEF Stops, Work
<1>5. PICK n \in 1 .. Final : n = position
  BY <1>2
<1>6. Final' = Final /\ (Redis' <=> Redis) /\ n \in Nat /\ Final \in Nat
  BY <1>1, <1>3, SameHost DEF Ordered
<1>7. PICK m \in {0, n} : UpTo(m) /\ (m = n \/ process = "stopping")
  BY <1>1, <1>2, <1>5 DEF Reached
<1>8. \E state \in {"down", "half"} : Becomes(Order[n], state)
  <2>1. CASE Becomes(Order[n], IF Order[n] = "router" /\ RouterLeft THEN resource[Order[n]] ELSE "down")
    <3>1. CASE Order[n] = "router" /\ RouterLeft
      <4>1. Becomes(Order[n], resource["router"]) /\ resource["router"] # "up"
        BY <2>1, <3>1 DEF RouterLeft
      <4>2. resource["router"] \in {"down", "up", "half"}
        BY <1>1 DEF HostTypeOK, Resources
      <4> QED  BY <4>1, <4>2
    <3>2. CASE ~(Order[n] = "router" /\ RouterLeft)
      BY <2>1, <3>2
    <3> QED  BY <3>1, <3>2
  <2>2. CASE Becomes(Order[n], "half")
    BY <2>2
  <2> QED  BY <1>5, <2>1, <2>2 DEF Stops
<1>9. /\ UpTo(IF m = n THEN n - 1 ELSE 0)'
      /\ resource' \in [Resources -> {"down", "up", "half"}]
  BY <1>1, <1>3, <1>5, <1>6, <1>7, <1>8, OneLessUp
<1>10. mishaps' \in 0 .. MaxMishaps
  <2>1. mishaps' = mishaps \/ (mishaps < MaxMishaps /\ mishaps' = mishaps + 1)
    BY DEF Stops, HookThrows
  <2>2. mishaps \in 0 .. MaxMishaps
    BY <1>1 DEF HostTypeOK
  <2> QED  BY <2>1, <2>2, BoundsAssumption
<1>11. HostTypeOK'
  <2>1. position' \in 0 .. Final'
    BY <1>3, <1>5, <1>6
  <2>2. projecting' \in BOOLEAN
    BY <1>1, <1>4 DEF HostTypeOK
  <2> QED  BY <1>1, <1>3, <1>9, <1>10, <2>1, <2>2 DEF HostTypeOK
<1>12. Reached'
  <2>1. CASE m = n
    <3>1. UpTo(position)' /\ position' \in 0 .. Final'
      BY <1>3, <1>5, <1>6, <1>9, <2>1
    <3> QED  BY <1>2, <1>3, <3>1 DEF Reached
  <2>2. CASE m # n
    <3>1. UpTo(0)' /\ 0 \in 0 .. Final' /\ process' = "stopping"
      BY <1>3, <1>6, <1>7, <1>9, <2>2
    <3> QED  BY <3>1 DEF Reached
  <2> QED  BY <2>1, <2>2
<1>13. requests = 0 /\ ~(Redis /\ (claimed > 0 \/ intake # "off"))
  <2>0. process \notin {"serving", "closing"} /\ Alive /\ requests \in Nat /\ claimed \in Nat
    <3>1. requests \in Nat /\ claimed \in Nat
      BY <1>1, Counts
    <3> QED  BY <1>2, <3>1 DEF Alive
  <2>1. requests = 0
    BY <1>1, <2>0 DEF Worked
  <2>2. ASSUME Redis PROVE claimed = 0 /\ intake = "off"
    <3>1. CASE UpTo(Final)
      <4>1. m = Final /\ m = n
        BY <1>1, <1>6, <1>7, <3>1, OnePoint DEF Ordered
      <4>2. Order[position] = "router" /\ resource["router"] = "up"
        BY <1>1, <1>5, <1>6, <4>1, <3>1 DEF Ordered, UpTo
      <4> QED  BY <2>2, <4>2 DEF Stops, LoopsEnded, RouterLeft
    <3>2. CASE ~UpTo(Final)
      BY <1>1, <2>0, <2>2, <3>2 DEF Worked
    <3> QED  BY <3>1, <3>2
  <2> QED  BY <2>1, <2>2
<1>14. process' # "failed"
  BY <1>2, <1>3
<1> QED  BY <1>3, <1>6, <1>11, <1>12, <1>13, <1>14 DEF HostInv, Worked

-----------------------------------------------------------------------------
(* A step that touches no resource.                                        *)
Untouched == host' = host /\ resource' = resource

(* Such a step leaves the reach of what is up as it is.                    *)
LEMMA UntouchedFacts ==
  ASSUME HostInv, Untouched
  PROVE  /\ Ordered /\ HostTypeOK /\ Reached /\ Worked
         /\ Final' = Final /\ (Redis' <=> Redis) /\ (Serves' <=> Serves)
         /\ UpTo(Final)' <=> UpTo(Final)
         /\ UpTo(0)' <=> UpTo(0)
         /\ position' = position => /\ UpTo(position)' <=> UpTo(position)
                                    /\ UpTo(position - 1)' <=> UpTo(position - 1)
         /\ (\E n \in 0 .. Final : UpTo(n))'
<1>1. Ordered /\ HostTypeOK /\ Reached /\ Worked
  BY OrderFacts DEF HostInv
<1>2. host' = host /\ resource' = resource
  BY DEF Untouched
<1>3. Final' = Final /\ Order' = Order /\ (Redis' <=> Redis) /\ (Serves' <=> Serves)
  BY <1>2, SameHost
<1>4. (\E n \in 0 .. Final : UpTo(n))'
  BY <1>1, <1>2, SameUp DEF Reached
<1>5. /\ UpTo(Final)' <=> UpTo(Final)
      /\ UpTo(0)' <=> UpTo(0)
      /\ position' = position => /\ UpTo(position)' <=> UpTo(position)
                                 /\ UpTo(position - 1)' <=> UpTo(position - 1)
  BY <1>2, <1>3 DEF UpTo
<1> QED  BY <1>1, <1>3, <1>4, <1>5

(* A process that is dead does nothing more, and has nothing in hand.      *)
LEMMA KillsAll == HostInv /\ Killed => HostInv'
<1> SUFFICES ASSUME HostInv, Killed PROVE HostInv'
  OBVIOUS
<1>1. /\ Untouched /\ process' = "killed" /\ requests' = 0 /\ claimed' = 0
      /\ position' = position /\ intake' = intake /\ mishaps' = mishaps
  BY DEF Killed, Untouched
<1>2. projecting' \in BOOLEAN
  BY DEF Killed
<1>3. HostTypeOK'
  BY <1>1, <1>2, UntouchedFacts, Counts DEF HostTypeOK, Untouched
<1>4. Reached'
  BY <1>1, UntouchedFacts DEF Reached
<1>5. Worked'
  BY <1>1 DEF Worked, Alive
<1> QED  BY <1>3, <1>4, <1>5 DEF HostInv

(* Work that comes and goes: only with all that it stands on.              *)
LEMMA WorksInOrder ==
  ASSUME HostInv, Alive, Untouched, process' = process, position' = position,
         mishaps' = mishaps, intake' \in {"off", "on", "last"}, intake' # "off" => intake # "off",
         requests' \in 0 .. MaxWork, claimed' \in 0 .. MaxWork, projecting' \in BOOLEAN,
         requests' > 0 => requests > 0 \/ (Serves /\ process = "serving"),
         Redis /\ claimed' > 0 => claimed > 0 \/ intake # "off"
  PROVE  HostInv'
<1>1. HostTypeOK'
  BY UntouchedFacts DEF HostTypeOK, Untouched
<1>2. Reached'
  BY UntouchedFacts DEF Reached
<1>3. Worked'
  BY UntouchedFacts DEF Worked, Alive
<1> QED  BY <1>1, <1>2, <1>3 DEF HostInv

(* Requests, deliveries and projections are such work.                     *)
LEMMA WorkInOrder == HostInv /\ (Request \/ Responds \/ Claims \/ Handles \/ Projected) => HostInv'
<1> SUFFICES ASSUME HostInv, Request \/ Responds \/ Claims \/ Handles \/ Projected
             PROVE  HostInv'
  OBVIOUS
<1>1. /\ Untouched /\ process' = process /\ position' = position /\ mishaps' = mishaps
      /\ HostTypeOK /\ MaxWork \in Nat
  BY BoundsAssumption DEF HostInv, Untouched, Request, Responds, Claims, Handles, Projected, Stays
<1>2. requests \in 0 .. MaxWork /\ claimed \in 0 .. MaxWork
  BY <1>1 DEF HostTypeOK
<1>3. projecting \in BOOLEAN /\ intake \in {"off", "on", "last"}
  BY <1>1 DEF HostTypeOK
<1>4. CASE Request
  <2>1. Serves /\ process = "serving" /\ requests < MaxWork /\ requests' = requests + 1
    BY <1>4 DEF Request
  <2>2. intake' = intake /\ claimed' = claimed /\ projecting' = projecting
    BY <1>4 DEF Request
  <2>3. requests' \in 0 .. MaxWork
    BY <1>1, <1>2, <2>1
  <2> QED  BY <1>1, <1>2, <1>3, <2>1, <2>2, <2>3, WorksInOrder DEF Alive
<1>5. CASE Responds
  <2>1. requests > 0 /\ requests' = requests - 1
    BY <1>5 DEF Responds
  <2>2. Alive /\ intake' = intake /\ claimed' = claimed /\ projecting' \in BOOLEAN
    BY <1>3, <1>5 DEF Responds
  <2>3. requests' \in 0 .. MaxWork
    BY <1>1, <1>2, <2>1
  <2> QED  BY <1>1, <1>2, <1>3, <2>1, <2>2, <2>3, WorksInOrder
<1>6. CASE Claims
  <2>1. Alive /\ requests' = requests /\ projecting' = projecting
    BY <1>6 DEF Claims
  <2>2. /\ intake' \in {"off", "on", "last"}
        /\ intake' # "off" => intake # "off"
        /\ Redis /\ claimed' > 0 => claimed > 0 \/ intake # "off"
    BY <1>3, <1>6 DEF Claims
  <2>3. claimed' \in 0 .. MaxWork
    <3>1. \/ claimed' \in 1 .. MaxWork
          \/ claimed' \in 0 .. MaxWork
          \/ requests > 0 /\ claimed' = 1
      BY <1>6 DEF Claims
    <3> QED  BY <1>1, <1>2, <3>1
  <2>4. requests' \in 0 .. MaxWork /\ (requests' > 0 => requests > 0)
    BY <1>2, <2>1
  <2> QED  BY <1>1, <1>3, <2>1, <2>2, <2>3, <2>4, WorksInOrder
<1>7. CASE Handles
  <2>1. Alive /\ requests' = requests /\ intake' = intake
    BY <1>7 DEF Handles
  <2>2. claimed > 0 /\ claimed' \in {claimed - 1, claimed}
    BY <1>7 DEF Handles
  <2>3. projecting' \in BOOLEAN
    <3>1. projecting' = projecting \/ projecting' = Serves
      BY <1>7 DEF Handles
    <3> QED  BY <1>3, <3>1 DEF Serves
  <2>4. claimed' \in 0 .. MaxWork
    BY <1>1, <1>2, <2>2
  <2> QED  BY <1>1, <1>2, <1>3, <2>1, <2>2, <2>3, <2>4, WorksInOrder
<1>8. CASE Projected
  <2>1. Alive /\ requests' = requests /\ intake' = intake /\ claimed' = claimed
          /\ projecting' \in BOOLEAN
    BY <1>8 DEF Projected
  <2> QED  BY <1>1, <1>2, <1>3, <2>1, WorksInOrder
<1> QED  BY <1>4, <1>5, <1>6, <1>7, <1>8

-----------------------------------------------------------------------------
(* What the process itself goes through touches no resource.               *)
LEMMA GoesInOrder ==
  HostInv /\ (StopsIntake \/ StopsAreDone \/ BuildThrows \/ Listens \/ Signal \/ Closes
              \/ LoopIsEmpty) => HostInv'
<1> SUFFICES ASSUME HostInv,
                    StopsIntake \/ StopsAreDone \/ BuildThrows \/ Listens \/ Signal \/ Closes
                      \/ LoopIsEmpty
             PROVE  HostInv'
  OBVIOUS
<1>1. Ordered /\ HostTypeOK /\ Reached /\ Worked
  BY OrderFacts DEF HostInv
<1>2. CASE Killed
  BY <1>2, KillsAll
<1>3. ASSUME Untouched, position' \in {position, Final}, process' # "starting",
             intake' \in {intake, "last"}, intake' # "off" => intake # "off",
             requests' = requests, claimed' = claimed, projecting' = projecting,
             mishaps' = mishaps \/ HookThrows,
             process' \in {"rollingBack", "failed", "building", "serving", "closing", "stopping",
                           "giving up", "stopped", "exited", "killed"},
             Alive,
             requests > 0 => process' \in {"serving", "closing"},
             process' \in {"building", "serving", "closing"} =>
                 UpTo(Final) /\ position' = Final,
             process' \in {"rollingBack", "giving up"} => UpTo(position) /\ position' = position,
             process' = "stopping" => (UpTo(Final) /\ position' = Final) \/ UpTo(0)
                                      \/ (UpTo(position) /\ position' = position),
             process' \in {"failed", "stopped", "exited"} => UpTo(0),
             process' = "failed" => ~Serves
      PROVE  HostInv'
  <2>1. /\ Final' = Final /\ (Redis' <=> Redis) /\ (Serves' <=> Serves)
        /\ UpTo(Final)' <=> UpTo(Final)
        /\ UpTo(0)' <=> UpTo(0)
        /\ position' = position => (UpTo(position)' <=> UpTo(position))
        /\ (\E n \in 0 .. Final : UpTo(n))'
    BY <1>3, UntouchedFacts
  <2>2. HostTypeOK'
    <3>1. position' \in 0 .. Final'
      <4>1. position \in 0 .. Final
        BY <1>1 DEF HostTypeOK
      <4>2. Final \in 0 .. Final
        BY <1>1 DEF Ordered
      <4> QED  BY <1>3, <2>1, <4>1, <4>2
    <3>2. mishaps' \in 0 .. MaxMishaps
      <4>1. mishaps \in 0 .. MaxMishaps
        BY <1>1 DEF HostTypeOK
      <4> QED  BY <1>1, <1>3, <4>1, Counts DEF HookThrows
    <3>3. projecting' \in BOOLEAN
      BY <1>1, <1>3 DEF HostTypeOK
    <3>4. intake' \in {"off", "on", "last"}
      BY <1>1, <1>3 DEF HostTypeOK
    <3> QED  BY <1>1, <1>3, <3>1, <3>2, <3>3, <3>4 DEF HostTypeOK, Untouched
  <2>3. Reached'
    <3>1. position' = Final => (UpTo(position)' <=> UpTo(Final)')
      BY <2>1 DEF UpTo
    <3> QED  BY <1>3, <2>1, <3>1 DEF Reached
  <2>4. Worked'
    BY <1>1, <1>3, <2>1 DEF Worked, Alive
  <2> QED  BY <2>2, <2>3, <2>4 DEF HostInv
<1>4. ASSUME UNCHANGED <<host, position, resource, Work>> PROVE /\ Untouched /\ position' = position
          /\ requests' = requests /\ claimed' = claimed /\ projecting' = projecting
  BY <1>4 DEF Untouched, Work
<1>5. requests > 0 => Serves /\ process \in {"serving", "closing"}
  BY <1>1 DEF Worked
<1>6. CASE StopsIntake
  BY <1>1, <1>3, <1>4, <1>5, <1>6 DEF StopsIntake, Stopping, Alive, Reached
<1>7. CASE StopsAreDone
  BY <1>1, <1>3, <1>4, <1>5, <1>7 DEF StopsAreDone, Stopping, AfterStops, Alive, Reached
<1>8. CASE BuildThrows
  BY <1>2, <1>8 DEF BuildThrows
<1>9. CASE Listens
  BY <1>1, <1>3, <1>4, <1>5, <1>9 DEF Listens, Alive, Reached
<1>10. CASE Signal
  <2>1. CASE /\ process \in {"serving", "failed"}
             /\ process' = IF Serves THEN "closing" ELSE "stopping"
             /\ position' = Final
             /\ UNCHANGED <<host, resource, intake, Work, mishaps>>
    <3>1. process' \in {"closing", "stopping"} /\ Alive
      BY <2>1 DEF Alive
    <3>2. requests > 0 => process' = "closing"
      BY <1>5, <2>1
    <3>3. Untouched /\ requests' = requests /\ claimed' = claimed /\ projecting' = projecting
            /\ intake' = intake /\ mishaps' = mishaps
      BY <2>1 DEF Untouched, Work
    <3>4. process' = "closing" => UpTo(Final)
      <4>1. Serves => process = "serving"
        BY <1>1, <2>1 DEF Worked
      <4> QED  BY <1>1, <2>1, <4>1 DEF Reached
    <3>5. UpTo(Final) \/ UpTo(0)
      BY <1>1, <2>1 DEF Reached
    <3> QED  BY <1>3, <2>1, <3>1, <3>2, <3>3, <3>4, <3>5
  <2> QED  BY <1>2, <1>10, <2>1 DEF Signal
<1>11. CASE Closes
  <2>1. CASE /\ requests = 0 /\ process = "closing" /\ process' = "stopping"
             /\ UNCHANGED <<host, position, resource, intake, Work, mishaps>>
    <3>1. Alive /\ ~(requests > 0) /\ UpTo(Final) /\ position = Final
      BY <1>1, <2>1 DEF Alive, Reached
    <3> QED  BY <1>3, <1>4, <2>1, <3>1
  <2> QED  BY <1>2, <1>11, <2>1 DEF Closes, CloseIsDone
<1>12. CASE LoopIsEmpty
  BY <1>1, <1>3, <1>4, <1>5, <1>12 DEF LoopIsEmpty, Alive, Reached
<1> QED  BY <1>6, <1>7, <1>8, <1>9, <1>10, <1>11, <1>12

-----------------------------------------------------------------------------
(* Whatever fails and whatever work there is, nothing runs without what it *)
(* stands on, requests and claimed messages find all of it, and nothing is *)
(* left running by a start that failed, or by a stop.                      *)
THEOREM HostIsOrderly == HostSpec => []Orderly
<1>1. HostInv /\ [HostNext]_hostVars => HostInv'
  <2> SUFFICES ASSUME HostInv, [HostNext]_hostVars PROVE HostInv'
    OBVIOUS
  <2>1. CASE HostNext
    BY <2>1, StartsInOrder, StartThrowsInOrder, StopsInOrder, WorkInOrder, GoesInOrder DEF HostNext
  <2>2. CASE UNCHANGED hostVars
    BY <2>2, UntouchedFacts DEF hostVars, Untouched, HostInv, HostTypeOK, Reached, Worked, Alive
  <2> QED  BY <2>1, <2>2
<1>2. HostInv => Orderly
  <2> SUFFICES ASSUME HostInv PROVE Orderly
    OBVIOUS
  <2>1. Ordered /\ HostTypeOK /\ Reached /\ Worked
    BY OrderFacts DEF HostInv
  <2>2. PICK n \in 0 .. Final : UpTo(n)
    BY <2>1 DEF Reached
  <2>3. UpFromTheBase
    <3>1. \A k \in 2 .. Final : k \in 1 .. Final /\ k - 1 \in 1 .. Final /\ (k <= n => k - 1 <= n)
      BY <2>1 DEF Ordered
    <3> QED  BY <2>2, <3>1 DEF UpFromTheBase, UpTo
  <2>4. ServedWhole
    <3>1. requests > 0 \/ (Redis /\ claimed > 0) => UpTo(Final)
      BY <2>1 DEF Reached, Worked
    <3>2. UpTo(Final) => \A k \in 1 .. Final : resource[Order[k]] = "up"
      BY <2>1 DEF UpTo, Ordered
    <3> QED  BY <3>1, <3>2 DEF ServedWhole
  <2>5. NothingLeft
    <3>1. UpTo(0) => \A k \in 1 .. Final : resource[Order[k]] # "up"
      BY <2>1 DEF UpTo, Ordered
    <3> QED  BY <2>1, <3>1 DEF NothingLeft, Reached
  <2> QED  BY <2>1, <2>3, <2>4, <2>5 DEF Orderly
<1> QED  BY <1>1, <1>2, HostStarts, PTL DEF HostSpec

-----------------------------------------------------------------------------
(* What the index lists is in the store                                    *)

(* A saver has seen the content, or moved it into place: from there on it  *)
(* goes on to write the row unless something threw.                        *)
Stored(s) == \/ save[s].at = "upsert"
             \/ /\ save[s].at \in {"renameMeta", "unlinkContent", "unlinkMeta"}
                /\ ~save[s].threw

SaveCall == [at : Putting \cup Ended \cup {"upsert"}, type : Types, threw : BOOLEAN]

StoredIsThere ==
    /\ files \in [Paths -> {Absent, Partial, Bytes} \cup Types]
    /\ save \in [Savers -> SaveCall]
    /\ \A s \in Savers : Stored(s) => files["content"] # Absent
    /\ ListedIsThere

(* Before the first save nothing is stored and nothing is listed.          *)
LEMMA StartsEmpty == StoreInit => StoredIsThere
<1> SUFFICES ASSUME StoreInit PROVE StoredIsThere
  OBVIOUS
<1>1. PICK t \in Types : save = [s \in Savers |-> [at |-> "none", type |-> t, threw |-> FALSE]]
  BY DEF StoreInit
<1>2. save \in [Savers -> SaveCall]
  <2>1. [at |-> "none", type |-> t, threw |-> FALSE] \in SaveCall
    BY DEF SaveCall, Ended
  <2> QED  BY <1>1, <2>1
<1>3. \A s \in Savers : ~Stored(s)
  BY <1>1 DEF Stored
<1>4. files \in [Paths -> {Absent, Partial, Bytes} \cup Types] /\ ListedIsThere
  BY DEF StoreInit, ListedIsThere
<1> QED  BY <1>2, <1>3, <1>4 DEF StoredIsThere

(* A step of one saver keeps what the others rely on when it takes no      *)
(* content away, and shows the content itself before it relies on it.      *)
LEMMA KeepsStored ==
  ASSUME StoredIsThere, NEW s \in Savers,
         files' \in [Paths -> {Absent, Partial, Bytes} \cup Types],
         save' \in [Savers -> SaveCall],
         \A q \in Savers \ {s} : save'[q] = save[q],
         files["content"] # Absent => files'["content"] # Absent,
         Stored(s)' => files'["content"] # Absent,
         indexed' # NoRow => indexed # NoRow \/ Stored(s)
  PROVE  StoredIsThere'
<1>1. ASSUME NEW q \in Savers, Stored(q)' PROVE files'["content"] # Absent
  <2>1. CASE q = s
    BY <1>1, <2>1
  <2>2. CASE q # s
    BY <1>1, <2>2 DEF Stored, StoredIsThere
  <2> QED  BY <2>1, <2>2
<1>2. ListedIsThere'
  BY DEF ListedIsThere, StoredIsThere
<1> QED  BY <1>1, <1>2 DEF StoredIsThere

(* The moves of one save.                                                  *)
LEMMA SaveGoesOn ==
  ASSUME StoredIsThere, NEW s \in Savers,
         NEW at \in Putting \cup Ended \cup {"upsert"}, SaveGoes(s, at)
  PROVE  /\ save' \in [Savers -> SaveCall]
         /\ \A q \in Savers \ {s} : save'[q] = save[q]
         /\ save'[s].at = at /\ save'[s].threw = save[s].threw
         /\ Stored(s)' <=> \/ at = "upsert"
                           \/ /\ at \in {"renameMeta", "unlinkContent", "unlinkMeta"}
                              /\ ~save[s].threw
<1>1. save \in [Savers -> SaveCall] /\ save' = [save EXCEPT ![s].at = at]
  BY DEF StoredIsThere, SaveGoes
<1>2. save'[s] = [save[s] EXCEPT !.at = at] /\ save[s] \in SaveCall
  BY <1>1
<1>3. save'[s] \in SaveCall /\ save'[s].at = at /\ save'[s].threw = save[s].threw
  BY <1>2 DEF SaveCall
<1> QED  BY <1>1, <1>3 DEF Stored

(* What throws goes to clean up, and says so.                              *)
LEMMA SaveThrows ==
  ASSUME StoredIsThere, NEW s \in Savers, Throws(s)
  PROVE  /\ save' \in [Savers -> SaveCall]
         /\ \A q \in Savers \ {s} : save'[q] = save[q]
         /\ ~Stored(s)' /\ files' = files
<1>1. save \in [Savers -> SaveCall]
         /\ save' = [save EXCEPT ![s].at = "unlinkContent", ![s].threw = TRUE]
  BY DEF StoredIsThere, Throws
<1>2. save'[s] = [save[s] EXCEPT !.at = "unlinkContent", !.threw = TRUE] /\ save[s] \in SaveCall
  BY <1>1
<1>3. save'[s] \in SaveCall /\ save'[s].at = "unlinkContent" /\ save'[s].threw = TRUE
  BY <1>2 DEF SaveCall, Putting
<1> QED  BY <1>1, <1>3 DEF Stored, Throws

(* No step of a save takes the content away.                               *)
LEMMA SaveKeeps ==
  ASSUME StoredIsThere, NEW s \in Savers,
         \/ \E t \in Types : SavesNow(s, t)
         \/ PutsObject(s) \/ PutBytes(s) \/ Upserts(s) \/ Crashes(s)
  PROVE  StoredIsThere'
<1> DEFINE FilesType == [Paths -> {Absent, Partial, Bytes} \cup Types]
<1>0. /\ files \in FilesType /\ save \in [Savers -> SaveCall] /\ save[s] \in SaveCall
      /\ "content" \in Paths /\ "meta" \in Paths /\ "content.tmp" \in Paths /\ "meta.tmp" \in Paths
  BY DEF StoredIsThere, Paths
<1>1. ASSUME NEW t \in Types, SavesNow(s, t) PROVE StoredIsThere'
  <2> DEFINE call == [at |-> IF setting.store = "fs" THEN "exists" ELSE "object",
                      type |-> t, threw |-> FALSE]
  <2>1. call \in SaveCall
    BY DEF SaveCall, Putting
  <2>2. save' = [save EXCEPT ![s] = call] /\ files' = files /\ indexed' = indexed
    BY <1>1 DEF SavesNow
  <2>3. save' \in [Savers -> SaveCall] /\ (\A q \in Savers \ {s} : save'[q] = save[q])
          /\ save'[s] = call
    BY <1>0, <2>1, <2>2
  <2>4. ~Stored(s)'
    BY <2>3 DEF Stored
  <2> QED  BY <1>0, <2>2, <2>3, <2>4, KeepsStored
<1>2. ASSUME PutsObject(s) PROVE StoredIsThere'
  <2>1. CASE files' = [files EXCEPT !["content"] = Bytes, !["meta"] = save[s].type]
               /\ SaveGoes(s, "upsert")
    <3>1. files' \in FilesType /\ files'["content"] # Absent
      BY <1>0, <2>1, StoreAssumption DEF SaveCall
    <3> QED  BY <1>2, <2>1, <3>1, SaveGoesOn, KeepsStored DEF PutsObject
  <2>2. CASE SaveGoes(s, "failed") /\ UNCHANGED files
    <3>1. ~Stored(s)' /\ save' \in [Savers -> SaveCall]
            /\ \A q \in Savers \ {s} : save'[q] = save[q]
      BY <2>2, SaveGoesOn DEF Ended
    <3> QED  BY <1>0, <1>2, <2>2, <3>1, KeepsStored DEF PutsObject
  <2> QED  BY <1>2, <2>1, <2>2 DEF PutsObject
<1>3. ASSUME PutBytes(s) PROVE StoredIsThere'
  <2>1. CASE Exists(s)
    <3>1. files' = files /\ indexed' = indexed
      BY <2>1 DEF Exists, Store
    <3>2. \E at \in {"upsert", "openContent", "failed"} :
              SaveGoes(s, at) /\ (at = "upsert" => IsThere)
      BY <2>1 DEF Exists
    <3>3. PICK at \in {"upsert", "openContent", "failed"} :
              SaveGoes(s, at) /\ (at = "upsert" => IsThere)
      BY <3>2
    <3>4. at \in Putting \cup Ended \cup {"upsert"}
      BY DEF Putting, Ended
    <3> QED  BY <1>0, <3>1, <3>3, <3>4, SaveGoesOn, KeepsStored DEF IsThere
  <2>2. ASSUME NEW at, NEW path \in {"content.tmp", "meta.tmp"},
               NEW next \in {"writeContent", "writeMeta"}, Opens(s, at, path, next)
        PROVE  StoredIsThere'
    <3>1. indexed' = indexed
      BY <2>2 DEF Opens
    <3>2. CASE files' = [files EXCEPT ![path] = Partial] /\ SaveGoes(s, next)
      <4>1. files' \in FilesType /\ files'["content"] = files["content"]
        BY <1>0, <3>2
      <4>2. next \in Putting \cup Ended \cup {"upsert"}
        BY DEF Putting
      <4> QED  BY <3>1, <3>2, <4>1, <4>2, SaveGoesOn, KeepsStored
    <3>3. CASE Throws(s)
      BY <1>0, <3>1, <3>3, SaveThrows, KeepsStored
    <3> QED  BY <2>2, <3>2, <3>3 DEF Opens
  <2>3. ASSUME NEW at, NEW data \in {Bytes} \cup Types,
               NEW next \in {"openMeta", "renameContent"}, Writes(s, at, data, next)
        PROVE  StoredIsThere'
    <3>1. indexed' = indexed
      BY <2>3 DEF Writes
    <3>2. CASE /\ files' = [p \in Paths |-> IF p = open[s] THEN data ELSE files[p]]
               /\ SaveGoes(s, next)
      <4>1. files' \in FilesType
        BY <1>0, <3>2
      <4>2. files["content"] # Absent => files'["content"] # Absent
        BY <1>0, <3>2, StoreAssumption
      <4>3. next \in Putting \cup Ended \cup {"upsert"}
        BY DEF Putting
      <4> QED  BY <3>1, <3>2, <4>1, <4>2, <4>3, SaveGoesOn, KeepsStored
    <3>3. CASE Throws(s)
      BY <1>0, <3>1, <3>3, SaveThrows, KeepsStored
    <3> QED  BY <2>3, <3>2, <3>3 DEF Writes
  <2>4. CASE Renames(s, "renameContent", TmpContent, "content", "renameMeta")
    <3>1. indexed' = indexed
      BY <2>4 DEF Renames
    <3>2. CASE /\ files["content.tmp"] # Absent /\ SaveGoes(s, "renameMeta")
               /\ files' = [files EXCEPT !["content"] = files["content.tmp"],
                                         !["content.tmp"] = Absent]
      <4>1. files' \in FilesType /\ files'["content"] # Absent
        BY <1>0, <3>2
      <4>2. "renameMeta" \in Putting \cup Ended \cup {"upsert"}
        BY DEF Putting
      <4> QED  BY <3>1, <3>2, <4>1, <4>2, SaveGoesOn, KeepsStored
    <3>3. CASE Throws(s)
      BY <1>0, <3>1, <3>3, SaveThrows, KeepsStored
    <3> QED  BY <2>4, <3>2, <3>3 DEF Renames, TmpContent
  <2>5. CASE Renames(s, "renameMeta", "meta.tmp", "meta", "unlinkContent")
    <3>1. indexed' = indexed /\ save[s].at = "renameMeta"
      BY <2>5 DEF Renames, In
    <3>2. CASE /\ SaveGoes(s, "unlinkContent")
               /\ files' = [files EXCEPT !["meta"] = files["meta.tmp"], !["meta.tmp"] = Absent]
      <4>1. files' \in FilesType /\ files'["content"] = files["content"]
        BY <1>0, <3>2
      <4>2. "unlinkContent" \in Putting \cup Ended \cup {"upsert"}
        BY DEF Putting
      <4>3. Stored(s)' => files["content"] # Absent
        BY <3>1, <3>2, <4>2, SaveGoesOn DEF StoredIsThere, Stored
      <4> QED  BY <3>1, <3>2, <4>1, <4>2, <4>3, SaveGoesOn, KeepsStored
    <3>3. CASE Throws(s)
      BY <1>0, <3>1, <3>3, SaveThrows, KeepsStored
    <3> QED  BY <2>5, <3>2, <3>3 DEF Renames
  <2>6. ASSUME NEW at \in {"unlinkContent", "unlinkMeta"},
               NEW path \in {"content.tmp", "meta.tmp"},
               NEW next \in {"unlinkMeta", "failed", "upsert"},
               next = "upsert" => ~save[s].threw, Unlinks(s, at, path, next)
        PROVE  StoredIsThere'
    <3>1. indexed' = indexed /\ save[s].at = at /\ SaveGoes(s, next)
      BY <2>6 DEF Unlinks, In
    <3>2. files' \in FilesType /\ files'["content"] = files["content"]
      BY <1>0, <2>6 DEF Unlinks, Store
    <3>3. next \in Putting \cup Ended \cup {"upsert"}
      BY DEF Putting, Ended
    <3>4. Stored(s)' => files["content"] # Absent
      BY <2>6, <3>1, <3>3, SaveGoesOn DEF StoredIsThere, Stored
    <3> QED  BY <3>1, <3>2, <3>3, <3>4, SaveGoesOn, KeepsStored
  <2>7. save[s].type \in Types
    BY <1>0 DEF SaveCall
  <2>8. CASE Unlinks(s, "unlinkMeta", "meta.tmp", IF save[s].threw THEN "failed" ELSE "upsert")
    BY <2>6, <2>8
  <2>9. CASE Unlinks(s, "unlinkContent", TmpContent, "unlinkMeta")
    BY <2>6, <2>9 DEF TmpContent
  <2> QED  BY <1>3, <2>1, <2>2, <2>3, <2>4, <2>5, <2>7, <2>8, <2>9 DEF PutBytes, TmpContent
<1>4. ASSUME Upserts(s) PROVE StoredIsThere'
  <2>1. save[s].at = "upsert" /\ files' = files
    BY <1>4 DEF Upserts, In, Store
  <2>2. SaveGoes(s, "saved") \/ SaveGoes(s, "content-only")
    BY <1>4 DEF Upserts
  <2>3. "saved" \in Ended /\ "content-only" \in Ended
    BY DEF Ended
  <2>4. save' \in [Savers -> SaveCall] /\ (\A q \in Savers \ {s} : save'[q] = save[q]) /\ ~Stored(s)'
    BY <2>2, <2>3, SaveGoesOn
  <2> QED  BY <1>0, <2>1, <2>4, KeepsStored DEF Stored
<1>5. ASSUME Crashes(s) PROVE StoredIsThere'
  <2>1. SaveGoes(s, "crashed") /\ files' = files /\ indexed' = indexed
    BY <1>5 DEF Crashes
  <2>2. "crashed" \in Ended
    BY DEF Ended
  <2> QED  BY <1>0, <2>1, <2>2, SaveGoesOn, KeepsStored
<1> QED  BY <1>1, <1>2, <1>3, <1>4, <1>5

(* The index lists nothing that is not in the store, whatever overlaps,    *)
(* fails or dies.                                                          *)
THEOREM ListedIsInStore == StoreSpec => []ListedIsThere
<1>1. StoredIsThere /\ [StoreNext]_storeVars => StoredIsThere'
  <2> SUFFICES ASSUME StoredIsThere, [StoreNext]_storeVars PROVE StoredIsThere'
    OBVIOUS
  <2>1. ASSUME NEW s \in Savers,
               \/ \E t \in Types : SavesNow(s, t)
               \/ PutsObject(s) \/ PutBytes(s) \/ Upserts(s) \/ Crashes(s)
        PROVE  StoredIsThere'
    BY <2>1, SaveKeeps
  <2>2. ASSUME NEW l \in Loaders, GetsObject(l) \/ ReadsContent(l) \/ ReadsMeta(l)
        PROVE  UNCHANGED <<files, save, indexed>>
    BY <2>2 DEF GetsObject, ReadsContent, ReadsMeta, Loads
  <2>3. CASE UNCHANGED <<files, save, indexed>>
    BY <2>3 DEF StoredIsThere, ListedIsThere, Stored
  <2>4. CASE UNCHANGED storeVars
    BY <2>3, <2>4 DEF storeVars
  <2> QED  BY <2>1, <2>2, <2>3, <2>4 DEF StoreNext
<1>2. StoredIsThere => ListedIsThere
  BY DEF StoredIsThere
<1> QED  BY <1>1, <1>2, StartsEmpty, PTL DEF StoreSpec

-----------------------------------------------------------------------------
(* What the store holds is whole                                           *)

(* What each saver has open, and what may be at each path.                 *)
Holds(s) ==
    /\ save[s].at = "writeContent" => open[s] \in {"content.tmp", "content", "unlinked"}
    /\ save[s].at = "writeMeta" => open[s] \in {"meta.tmp", "meta", "unlinked"}
    /\ save[s].at \notin {"writeContent", "writeMeta"} => open[s] = "none"
    /\ save[s].at = "object" => setting.store = "s3"

StoreTyped ==
    /\ StoreTypeOK
    /\ files["content"] \in {Absent, Partial, Bytes}
    /\ files["content.tmp"] \in {Absent, Partial, Bytes}
    /\ files["meta"] \in {Absent, Partial} \cup Types
    /\ files["meta.tmp"] \in {Absent, Partial} \cup Types
    /\ \A s \in Savers : Holds(s)

Whole(p) == IF p \in {"content", "content.tmp"} THEN {Absent, Bytes} ELSE {Absent} \cup Types
WrittenOrWhole == \A p \in Paths : files[p] \in Whole(p) \/ \E s \in Savers : open[s] = p
UnlinksContent == {"writeContent", "openMeta", "writeMeta", "renameContent", "renameMeta",
                   "unlinkContent"}
UnlinksMeta == {"writeMeta", "renameContent", "renameMeta", "unlinkContent", "unlinkMeta"}
Tidies ==
    /\ files["content.tmp"] # Absent => \E s \in Savers : save[s].at \in UnlinksContent
    /\ files["meta.tmp"] # Absent => \E s \in Savers : save[s].at \in UnlinksMeta
Unharmed == ~setting.harmed => WrittenOrWhole /\ Tidies

Alone(s) == \A q \in Savers : save[s].at \in Putting /\ save[q].at \in Putting => q = s
InSequence(s) ==
    /\ save[s].at = "writeContent" => open[s] = "content.tmp"
    /\ save[s].at = "writeMeta" => open[s] = "meta.tmp"
    /\ save[s].at \in {"openMeta", "writeMeta", "renameContent"} => files["content.tmp"] = Bytes
    /\ save[s].at \in {"renameContent", "renameMeta"} => files["meta.tmp"] = save[s].type
Sequential ==
    OneAtATime =>
        /\ \A s \in Savers : Alone(s) /\ InSequence(s)
        /\ files["content"] \in {Absent, Bytes} /\ files["meta"] \in {Absent} \cup Types
        /\ \A l \in Loaders : load[l].at \in {"meta", "loaded"} => load[l].bytes = Bytes

IsStored == /\ files["content"] = Bytes /\ files["meta"] \in Types
            /\ setting.store = "fs" => files["meta"] = first
Phase(s) ==
    /\ save[s].at = "exists" => ~save[s].threw
    /\ save[s].at = "exists" => IF files["content"] = Absent THEN save[s].type = first ELSE IsStored
    /\ save[s].at \in {"openContent", "writeContent", "openMeta", "writeMeta", "renameContent",
                       "renameMeta"} => save[s].type = first /\ ~save[s].threw
    /\ save[s].at = "renameMeta" => files["content"] = Bytes
    /\ save[s].at \in {"unlinkContent", "unlinkMeta"} => IsStored /\ ~save[s].threw
    /\ save[s].at \in {"upsert", "saved"} => IsStored
InOrder ==
    OneAtATime /\ ~setting.harmed =>
        /\ \A s \in Savers : Phase(s)
        /\ AtRest => IsStored \/ (files["content"] = Absent /\ first = Absent)

StoreInv == StoreTyped /\ Unharmed /\ Sequential /\ InOrder

-----------------------------------------------------------------------------
(* The kinds of step that a save takes.                                    *)
Ats == Putting \cup Ended \cup {"upsert"}
Moves(s, at, threw) ==
    /\ save' \in [Savers -> SaveCall] /\ \A q \in Savers \ {s} : save'[q] = save[q]
    /\ save'[s].at = at /\ save'[s].type = save[s].type /\ save'[s].threw = threw
    /\ load' = load /\ first' = first /\ indexed' \in Types \cup {NoRow}
Goes(s, at) == Moves(s, at, save[s].threw)
LetsGo(s) == open' = [open EXCEPT ![s] = "none"]
Harms == /\ setting' \in Setting /\ setting'.harmed
         /\ setting'.store = setting.store /\ setting'.together = setting.together
SameFiles == files' = files /\ open' = open

Puts(s) ==
    /\ save[s].at = "object" /\ Goes(s, "upsert")
    /\ files' = [files EXCEPT !["content"] = Bytes, !["meta"] = save[s].type]
    /\ UNCHANGED <<open, setting>>
Looks(s) ==
    /\ save[s].at = "exists" /\ Goes(s, IF IsThere THEN "upsert" ELSE "openContent")
    /\ SameFiles /\ setting' = setting
Errs(s) ==
    /\ \E at \in {"openContent", "unlinkMeta"} \cup Ended \cup {"upsert"} :
          Goes(s, at) /\ (save[s].at \in Putting \/ at \notin Putting)
    /\ files' = files /\ LetsGo(s) /\ Harms
Opened(s, path, next) ==
    /\ save[s].at = IF path = "content.tmp" THEN "openContent" ELSE "openMeta"
    /\ next = IF path = "content.tmp" THEN "writeContent" ELSE "writeMeta"
    /\ Goes(s, next)
    /\ files' = [files EXCEPT ![path] = Partial] /\ open' = [open EXCEPT ![s] = path]
    /\ setting' = setting
Wrote(s, data, next) ==
    /\ \/ save[s].at = "writeContent" /\ next = "openMeta" /\ data = Bytes
       \/ save[s].at = "writeMeta" /\ next = "renameContent" /\ data = save[s].type
    /\ Goes(s, next)
    /\ files' = [p \in Paths |-> IF p = open[s] THEN data ELSE files[p]]
    /\ LetsGo(s) /\ setting' = setting
Throwing(s) ==
    /\ save[s].at \in Putting /\ Moves(s, "unlinkContent", TRUE) /\ files' = files /\ LetsGo(s)
    /\ \/ Harms
       \/ /\ setting' = setting
          /\ \/ save[s].at = "renameContent" /\ files["content.tmp"] = Absent
             \/ save[s].at = "renameMeta" /\ files["meta.tmp"] = Absent
Renaming(s, from, to, next) ==
    /\ \/ /\ save[s].at = "renameContent" /\ next = "renameMeta"
          /\ from = "content.tmp" /\ to = "content"
       \/ /\ save[s].at = "renameMeta" /\ next = "unlinkContent"
          /\ from = "meta.tmp" /\ to = "meta"
    /\ Goes(s, next) /\ files[from] # Absent
    /\ files' = [files EXCEPT ![to] = files[from], ![from] = Absent]
    /\ open' = Renamed(from, to) /\ setting' = setting
Unlinking(s, path, next) ==
    /\ \/ save[s].at = "unlinkContent" /\ path = "content.tmp" /\ next = "unlinkMeta"
       \/ /\ save[s].at = "unlinkMeta" /\ path = "meta.tmp"
          /\ next = IF save[s].threw THEN "failed" ELSE "upsert"
    /\ Goes(s, next)
    /\ files' = [files EXCEPT ![path] = Absent] /\ open' = Renamed(path, "unlinked")
    /\ setting' = setting
Returns(s) ==
    /\ save[s].at = "upsert" /\ Goes(s, "saved") /\ SameFiles /\ setting' = setting

(* A step of the model is of one of these kinds.                           *)
LEMMA GoesOn ==
    ASSUME StoreTypeOK, NEW s \in Savers, NEW at \in Ats, SaveGoes(s, at),
           UNCHANGED <<load, first>>, indexed' \in Types \cup {NoRow}
    PROVE  Goes(s, at)
<1>1. save \in [Savers -> SaveCall] /\ save' = [save EXCEPT ![s].at = at]
  BY DEF StoreTypeOK, SaveGoes, SaveCall
<1>2. save'[s] = [save[s] EXCEPT !.at = at] /\ save[s] \in SaveCall
  BY <1>1
<1>3. save'[s] \in SaveCall /\ save'[s].at = at /\ save'[s].type = save[s].type
         /\ save'[s].threw = save[s].threw
  BY <1>2 DEF SaveCall, Ats
<1>. QED
  BY <1>1, <1>3 DEF Goes, Moves

LEMMA ThrowsOn ==
    ASSUME StoreTypeOK, NEW s \in Savers, Throws(s),
           UNCHANGED <<load, first>>, indexed' \in Types \cup {NoRow}
    PROVE  Moves(s, "unlinkContent", TRUE) /\ files' = files /\ LetsGo(s)
<1>1. /\ save \in [Savers -> SaveCall]
      /\ save' = [save EXCEPT ![s].at = "unlinkContent", ![s].threw = TRUE]
  BY DEF StoreTypeOK, Throws, SaveCall
<1>2. save'[s] = [save[s] EXCEPT !.at = "unlinkContent", !.threw = TRUE] /\ save[s] \in SaveCall
  BY <1>1
<1>3. /\ save'[s] \in SaveCall /\ save'[s].at = "unlinkContent" /\ save'[s].threw = TRUE
      /\ save'[s].type = save[s].type
  BY <1>2 DEF SaveCall, Putting
<1>. QED
  BY <1>1, <1>3 DEF Moves, Throws, LetsGo

LEMMA MishapHarms == ASSUME StoreTypeOK, Mishap PROVE Harms
<1>1. /\ setting \in Setting /\ setting.mishaps > 0
      /\ setting' = [setting EXCEPT !.mishaps = @ - 1, !.harmed = TRUE]
  BY DEF StoreTypeOK, Mishap
<1>2. setting' \in Setting
  <2>1. setting.mishaps - 1 \in Nat
    BY <1>1 DEF Setting
  <2>2. setting' = [store |-> setting.store, together |-> setting.together,
                    saves |-> setting.saves, mishaps |-> setting.mishaps - 1, harmed |-> TRUE]
    BY <1>1 DEF Setting
  <2>. QED
    BY <1>1, <2>1, <2>2 DEF Setting
<1>3. setting'.harmed /\ setting'.store = setting.store /\ setting'.together = setting.together
  BY <1>1 DEF Setting
<1>. QED
  BY <1>2, <1>3 DEF Harms

(* What is not writing has nothing open.                                   *)
LEMMA NothingToClose ==
    ASSUME StoreTyped, NEW s \in Savers, save[s].at \notin {"writeContent", "writeMeta"},
           open' = open
    PROVE  LetsGo(s)
<1>1. open \in [Savers -> Paths \cup {"none", "unlinked"}] /\ open[s] = "none"
  BY DEF StoreTyped, StoreTypeOK, Holds
<1>. QED
  BY <1>1 DEF LetsGo

StepKind(s) ==
    \/ Puts(s) \/ Looks(s) \/ Errs(s) \/ Throwing(s) \/ Returns(s)
    \/ \E path \in {"content.tmp", "meta.tmp"} : \E next : Opened(s, path, next)
    \/ \E data, next : Wrote(s, data, next)
    \/ \E from, to, next : Renaming(s, from, to, next)
    \/ \E path, next : Unlinking(s, path, next)

LEMMA PutBytesKinds ==
    ASSUME StoreTyped, NEW s \in Savers, PutBytes(s)
    PROVE  StepKind(s)
<1>0. StoreTypeOK /\ save[s] \in SaveCall /\ indexed \in Types \cup {NoRow}
  BY DEF StoreTyped, StoreTypeOK, SaveCall
<1>1. CASE Exists(s)
  <2>1. /\ save[s].at = "exists" /\ SameFiles /\ UNCHANGED <<load, first>>
        /\ indexed' \in Types \cup {NoRow}
    BY <1>0, <1>1 DEF Exists, In, Store, SameFiles
  <2>2. CASE SaveGoes(s, IF IsThere THEN "upsert" ELSE "openContent") /\ UNCHANGED setting
    <3>1. (IF IsThere THEN "upsert" ELSE "openContent") \in Ats
      BY DEF Ats, Putting
    <3>. QED
      BY <1>0, <2>1, <2>2, <3>1, GoesOn DEF Looks, StepKind
  <2>3. CASE Mishap /\ (SaveGoes(s, "openContent") \/ (~IsThere /\ SaveGoes(s, "failed")))
    <3>1. "openContent" \in Ats /\ "failed" \in Ats
      BY DEF Ats, Putting, Ended
    <3>2. Goes(s, "openContent") \/ Goes(s, "failed")
      BY <1>0, <2>1, <2>3, <3>1, GoesOn
    <3>3. LetsGo(s) /\ Harms
      BY <1>0, <2>1, <2>3, NothingToClose, MishapHarms DEF SameFiles
    <3>. QED
      BY <2>1, <3>1, <3>2, <3>3 DEF Errs, StepKind, SameFiles, Putting, Ended
  <2>. QED
    BY <1>1, <2>2, <2>3 DEF Exists
<1>2. ASSUME NEW path \in {"content.tmp", "meta.tmp"}, NEW at, NEW next,
             at = IF path = "content.tmp" THEN "openContent" ELSE "openMeta",
             next = IF path = "content.tmp" THEN "writeContent" ELSE "writeMeta",
             Opens(s, at, path, next)
      PROVE  StepKind(s)
  <2>1. save[s].at = at /\ UNCHANGED <<load, first>> /\ indexed' \in Types \cup {NoRow}
    BY <1>0, <1>2 DEF Opens, In
  <2>2. CASE /\ files' = [files EXCEPT ![path] = Partial] /\ open' = [open EXCEPT ![s] = path]
             /\ SaveGoes(s, next) /\ UNCHANGED setting
    <3>1. next \in Ats
      BY <1>2 DEF Ats, Putting
    <3>2. Opened(s, path, next)
      BY <1>0, <1>2, <2>1, <2>2, <3>1, GoesOn DEF Opened
    <3>. QED
      BY <3>2 DEF StepKind
  <2>3. CASE Mishap /\ Throws(s)
    <3>1. save[s].at \in Putting
      BY <2>1, <1>2 DEF Putting
    <3>. QED
      BY <1>0, <2>1, <2>3, <3>1, ThrowsOn, MishapHarms DEF Throwing, StepKind
  <2>. QED
    BY <1>2, <2>2, <2>3 DEF Opens
<1>3. ASSUME NEW at, NEW data, NEW next, Writes(s, at, data, next),
             \/ at = "writeContent" /\ next = "openMeta" /\ data = Bytes
             \/ at = "writeMeta" /\ next = "renameContent" /\ data = save[s].type
      PROVE  StepKind(s)
  <2>1. save[s].at = at /\ UNCHANGED <<load, first>> /\ indexed' \in Types \cup {NoRow}
    BY <1>0, <1>3 DEF Writes, In
  <2>2. CASE /\ files' = [p \in Paths |-> IF p = open[s] THEN data ELSE files[p]]
             /\ open' = [open EXCEPT ![s] = "none"] /\ SaveGoes(s, next) /\ UNCHANGED setting
    <3>1. next \in Ats
      BY <1>3 DEF Ats, Putting
    <3>2. Wrote(s, data, next)
      BY <1>0, <1>3, <2>1, <2>2, <3>1, GoesOn DEF Wrote, LetsGo
    <3>. QED
      BY <3>2 DEF StepKind
  <2>3. CASE Mishap /\ Throws(s)
    <3>1. save[s].at \in Putting
      BY <2>1, <1>3 DEF Putting
    <3>. QED
      BY <1>0, <2>1, <2>3, <3>1, ThrowsOn, MishapHarms DEF Throwing, StepKind
  <2>. QED
    BY <1>3, <2>2, <2>3 DEF Writes
<1>4. ASSUME NEW at, NEW from, NEW to, NEW next, Renames(s, at, from, to, next),
             \/ /\ at = "renameContent" /\ next = "renameMeta"
                /\ from = "content.tmp" /\ to = "content"
             \/ /\ at = "renameMeta" /\ next = "unlinkContent"
                /\ from = "meta.tmp" /\ to = "meta"
      PROVE  StepKind(s)
  <2>1. save[s].at = at /\ UNCHANGED <<load, first>> /\ indexed' \in Types \cup {NoRow}
    BY <1>0, <1>4 DEF Renames, In
  <2>2. CASE /\ files[from] # Absent
             /\ files' = [files EXCEPT ![to] = files[from], ![from] = Absent]
             /\ open' = Renamed(from, to) /\ SaveGoes(s, next) /\ UNCHANGED setting
    <3>1. next \in Ats
      BY <1>4 DEF Ats, Putting
    <3>2. Renaming(s, from, to, next)
      BY <1>0, <1>4, <2>1, <2>2, <3>1, GoesOn DEF Renaming
    <3>. QED
      BY <3>2 DEF StepKind
  <2>3. CASE files[from] = Absent /\ Throws(s) /\ UNCHANGED setting
    BY <1>0, <1>4, <2>1, <2>3, ThrowsOn DEF Throwing, StepKind, Putting
  <2>4. CASE Mishap /\ Throws(s)
    <3>1. save[s].at \in Putting
      BY <2>1, <1>4 DEF Putting
    <3>. QED
      BY <1>0, <2>1, <2>4, <3>1, ThrowsOn, MishapHarms DEF Throwing, StepKind
  <2>. QED
    BY <1>4, <2>2, <2>3, <2>4 DEF Renames
<1>5. ASSUME NEW at, NEW path, NEW next, Unlinks(s, at, path, next),
             \/ at = "unlinkContent" /\ path = "content.tmp" /\ next = "unlinkMeta"
             \/ /\ at = "unlinkMeta" /\ path = "meta.tmp"
                /\ next = IF save[s].threw THEN "failed" ELSE "upsert"
      PROVE  StepKind(s)
  <2>1. /\ save[s].at = at /\ UNCHANGED <<load, first>> /\ indexed' \in Types \cup {NoRow}
        /\ SaveGoes(s, next)
    BY <1>0, <1>5 DEF Unlinks, In
  <2>2. next \in Ats /\ next \in {"unlinkMeta", "failed", "upsert"}
    BY <1>5 DEF Ats, Putting, Ended
  <2>3. Goes(s, next)
    BY <1>0, <2>1, <2>2, GoesOn
  <2>4. CASE files' = [files EXCEPT ![path] = Absent] /\ open' = Renamed(path, "unlinked")
              /\ UNCHANGED setting
    <3>1. Unlinking(s, path, next)
      BY <1>5, <2>1, <2>3, <2>4 DEF Unlinking
    <3>. QED
      BY <3>1 DEF StepKind
  <2>5. CASE Mishap /\ Store
    <3>1. LetsGo(s) /\ Harms /\ files' = files
      BY <1>0, <1>5, <2>1, <2>5, NothingToClose, MishapHarms DEF Store
    <3>. QED
      BY <1>5, <2>1, <2>2, <2>3, <3>1 DEF Errs, StepKind, Putting, Ended
  <2>. QED
    BY <1>5, <2>4, <2>5 DEF Unlinks
<1>6. "content.tmp" \in {"content.tmp", "meta.tmp"} /\ "meta.tmp" \in {"content.tmp", "meta.tmp"}
  OBVIOUS
<1>7. CASE Opens(s, "openContent", TmpContent, "writeContent")
  BY <1>2, <1>7 DEF TmpContent
<1>8. CASE Opens(s, "openMeta", "meta.tmp", "writeMeta")
  BY <1>2, <1>8
<1>. QED
  BY <1>1, <1>3, <1>4, <1>5, <1>7, <1>8 DEF PutBytes, TmpContent

(* Whatever a save does is of one of these kinds.                          *)
LEMMA StepKinds ==
    ASSUME StoreTyped, NEW s \in Savers, PutsObject(s) \/ PutBytes(s) \/ Upserts(s) \/ Crashes(s)
    PROVE  StepKind(s)
<1>0. StoreTypeOK /\ save[s] \in SaveCall /\ indexed \in Types \cup {NoRow}
  BY DEF StoreTyped, StoreTypeOK, SaveCall
<1>0a. "upsert" \in Ats /\ "failed" \in Ats /\ "saved" \in Ats /\ "content-only" \in Ats
         /\ "crashed" \in Ats
  BY DEF Ats, Ended
<1>1. CASE PutsObject(s)
  <2>1. /\ save[s].at = "object" /\ open' = open /\ UNCHANGED <<load, first>>
        /\ indexed' \in Types \cup {NoRow}
    BY <1>0, <1>1 DEF PutsObject, In
  <2>2. CASE /\ files' = [files EXCEPT !["content"] = Bytes, !["meta"] = save[s].type]
             /\ SaveGoes(s, "upsert") /\ UNCHANGED setting
    BY <1>0, <1>0a, <2>1, <2>2, GoesOn DEF Puts, StepKind
  <2>3. CASE Mishap /\ SaveGoes(s, "failed") /\ UNCHANGED files
    <3>1. LetsGo(s) /\ Harms /\ Goes(s, "failed")
      BY <1>0, <1>0a, <2>1, <2>3, NothingToClose, MishapHarms, GoesOn
    <3>. QED
      BY <1>0a, <2>3, <3>1 DEF Errs, StepKind, Putting, Ended
  <2>. QED
    BY <1>1, <2>2, <2>3 DEF PutsObject
<1>2. CASE Upserts(s)
  <2>1. /\ save[s].at = "upsert" /\ SameFiles /\ UNCHANGED <<load, first>>
    BY <1>2 DEF Upserts, In, Store, SameFiles
  <2>2. CASE indexed' = save[s].type /\ SaveGoes(s, "saved") /\ UNCHANGED setting
    <3>1. indexed' \in Types \cup {NoRow}
      BY <1>0, <2>2 DEF SaveCall
    <3>. QED
      BY <1>0, <1>0a, <2>1, <2>2, <3>1, GoesOn DEF Returns, StepKind
  <2>3. CASE Mishap /\ SaveGoes(s, "content-only") /\ UNCHANGED indexed
    <3>1. LetsGo(s) /\ Harms /\ Goes(s, "content-only") /\ files' = files
      BY <1>0, <1>0a, <2>1, <2>3, NothingToClose, MishapHarms, GoesOn DEF SameFiles
    <3>. QED
      BY <1>0a, <3>1 DEF Errs, StepKind, Putting, Ended
  <2>. QED
    BY <1>2, <2>2, <2>3 DEF Upserts
<1>3. CASE Crashes(s)
  <2>1. /\ Mishap /\ SaveGoes(s, "crashed") /\ LetsGo(s) /\ files' = files
        /\ UNCHANGED <<load, first, indexed>>
    BY <1>3 DEF Crashes, LetsGo
  <2>2. Harms /\ Goes(s, "crashed")
    BY <1>0, <1>0a, <2>1, MishapHarms, GoesOn
  <2>. QED
    BY <1>0a, <2>1, <2>2 DEF Errs, StepKind, Putting, Ended
<1>. QED
  BY <1>1, <1>2, <1>3, PutBytesKinds

(* Types: a step says what it does to the files and to what is open.       *)
LEMMA TypedMoves ==
    ASSUME StoreTyped, NEW s \in Savers, NEW at, NEW threw, Moves(s, at, threw),
           setting' \in Setting, setting'.store = setting.store, at # "object",
           files' \in [Paths -> {Absent, Partial, Bytes} \cup Types],
           files'["content"] \in {Absent, Partial, Bytes},
           files'["content.tmp"] \in {Absent, Partial, Bytes},
           files'["meta"] \in {Absent, Partial} \cup Types,
           files'["meta.tmp"] \in {Absent, Partial} \cup Types,
           open' \in [Savers -> Paths \cup {"none", "unlinked"}],
           \A q \in Savers \ {s} :
              /\ save[q].at = "writeContent" => open'[q] \in {"content.tmp", "content", "unlinked"}
              /\ save[q].at = "writeMeta" => open'[q] \in {"meta.tmp", "meta", "unlinked"}
              /\ save[q].at \notin {"writeContent", "writeMeta"} => open'[q] = "none",
           at = "writeContent" => open'[s] \in {"content.tmp", "content", "unlinked"},
           at = "writeMeta" => open'[s] \in {"meta.tmp", "meta", "unlinked"},
           at \notin {"writeContent", "writeMeta"} => open'[s] = "none"
    PROVE  StoreTyped'
<1>1. \A q \in Savers : Holds(q)'
  <2>. TAKE q \in Savers
  <2>1. CASE q = s
    BY <2>1 DEF Holds, Moves
  <2>2. CASE q # s
    <3>1. save'[q] = save[q] /\ Holds(q)
      BY <2>2 DEF Moves, StoreTyped
    <3>. QED
      BY <2>2, <3>1 DEF Holds
  <2>. QED
    BY <2>1, <2>2
<1>2. StoreTypeOK'
  BY DEF StoreTypeOK, StoreTyped, Moves, SaveCall
<1>. QED
  BY <1>1, <1>2 DEF StoreTyped

PathsOk == "content" \in Paths /\ "meta" \in Paths /\ "content.tmp" \in Paths /\ "meta.tmp" \in Paths
LEMMA PathsAre == PathsOk
BY DEF PathsOk, Paths

(* Closing, renaming and unlinking keep what the others have open.         *)
LEMMA OthersHold ==
    ASSUME StoreTyped, NEW s \in Savers,
           \/ LetsGo(s) \/ \E path \in Paths : open' = [open EXCEPT ![s] = path]
    PROVE  /\ open' \in [Savers -> Paths \cup {"none", "unlinked"}]
           /\ \A q \in Savers \ {s} :
              /\ save[q].at = "writeContent" => open'[q] \in {"content.tmp", "content", "unlinked"}
              /\ save[q].at = "writeMeta" => open'[q] \in {"meta.tmp", "meta", "unlinked"}
              /\ save[q].at \notin {"writeContent", "writeMeta"} => open'[q] = "none"
<1>1. open \in [Savers -> Paths \cup {"none", "unlinked"}] /\ \A q \in Savers : Holds(q)
  BY DEF StoreTyped, StoreTypeOK
<1>2. \E p \in Paths \cup {"none"} : open' = [open EXCEPT ![s] = p]
  BY DEF LetsGo
<1>. QED
  BY <1>1, <1>2 DEF Holds

LEMMA RenamedHold ==
    ASSUME StoreTyped, NEW from, NEW to,
           \/ from = "content.tmp" /\ to \in {"content", "unlinked"}
           \/ from = "meta.tmp" /\ to \in {"meta", "unlinked"},
           open' = Renamed(from, to)
    PROVE  /\ open' \in [Savers -> Paths \cup {"none", "unlinked"}]
           /\ \A q \in Savers :
              /\ save[q].at = "writeContent" => open'[q] \in {"content.tmp", "content", "unlinked"}
              /\ save[q].at = "writeMeta" => open'[q] \in {"meta.tmp", "meta", "unlinked"}
              /\ save[q].at \notin {"writeContent", "writeMeta"} => open'[q] = "none"
<1>1. open \in [Savers -> Paths \cup {"none", "unlinked"}] /\ \A q \in Savers : Holds(q)
  BY DEF StoreTyped, StoreTypeOK
<1>2. \A q \in Savers : open'[q] = IF open[q] = from THEN to
                                   ELSE IF open[q] = to THEN "unlinked" ELSE open[q]
  BY DEF Renamed
<1>3. open' \in [Savers -> Paths \cup {"none", "unlinked"}]
  BY <1>1, PathsAre DEF Renamed, PathsOk
<1>. QED
  BY <1>1, <1>2, <1>3 DEF Holds

(* Every kind of step keeps the types.                                     *)
LEMMA KindsTyped ==
    ASSUME StoreTyped, NEW s \in Savers, StepKind(s)
    PROVE  StoreTyped'
<1>0. /\ files \in [Paths -> {Absent, Partial, Bytes} \cup Types] /\ PathsOk
      /\ files["content"] \in {Absent, Partial, Bytes}
      /\ files["content.tmp"] \in {Absent, Partial, Bytes}
      /\ files["meta"] \in {Absent, Partial} \cup Types
      /\ files["meta.tmp"] \in {Absent, Partial} \cup Types
      /\ save[s].type \in Types /\ setting \in Setting
      /\ open \in [Savers -> Paths \cup {"none", "unlinked"}] /\ Holds(s)
  BY PathsAre DEF StoreTyped, StoreTypeOK
<1>. DEFINE FilesOk ==
          /\ files' \in [Paths -> {Absent, Partial, Bytes} \cup Types]
          /\ files'["content"] \in {Absent, Partial, Bytes}
          /\ files'["content.tmp"] \in {Absent, Partial, Bytes}
          /\ files'["meta"] \in {Absent, Partial} \cup Types
          /\ files'["meta.tmp"] \in {Absent, Partial} \cup Types
<1>1. CASE Puts(s)
  <2>1. FilesOk
    BY <1>0, <1>1 DEF Puts, PathsOk
  <2>2. LetsGo(s)
    BY <1>1, NothingToClose DEF Puts
  <2>. HIDE DEF FilesOk
  <2>3. FilesOk /\ Goes(s, "upsert") /\ setting' = setting /\ open'[s] = "none"
    BY <1>0, <1>1, <2>1, <2>2 DEF Puts, LetsGo
  <2>. QED
    BY <1>0, <2>2, <2>3, OthersHold, TypedMoves DEF FilesOk, Goes
<1>2. CASE Looks(s)
  <2>1. FilesOk
    BY <1>0, <1>2 DEF Looks, SameFiles
  <2>2. LetsGo(s)
    BY <1>2, NothingToClose DEF Looks, SameFiles
  <2>. HIDE DEF FilesOk
  <2>3. FilesOk /\ setting' = setting /\ open'[s] = "none"
    BY <1>0, <1>2, <2>1, <2>2 DEF Looks, LetsGo
  <2>4. PICK at \in {"upsert", "openContent"} : Goes(s, at)
    BY <1>2 DEF Looks
  <2>. QED
    BY <1>0, <2>2, <2>3, <2>4, OthersHold, TypedMoves DEF FilesOk, Goes
<1>3. CASE Errs(s)
  <2>1. FilesOk
    BY <1>0, <1>3 DEF Errs
  <2>2. LetsGo(s) /\ setting' \in Setting /\ setting'.store = setting.store
    BY <1>3 DEF Errs, Harms
  <2>. HIDE DEF FilesOk
  <2>3. FilesOk /\ open'[s] = "none"
    BY <1>0, <2>1, <2>2 DEF LetsGo
  <2>4. PICK at \in {"openContent", "unlinkMeta"} \cup Ended \cup {"upsert"} : Goes(s, at)
    BY <1>3 DEF Errs
  <2>5. at \notin {"writeContent", "writeMeta", "object"}
    BY DEF Ended
  <2>. QED
    BY <1>0, <2>2, <2>3, <2>4, <2>5, OthersHold, TypedMoves DEF FilesOk, Goes
<1>4. CASE Throwing(s)
  <2>1. FilesOk
    BY <1>0, <1>4 DEF Throwing
  <2>2. LetsGo(s) /\ setting' \in Setting /\ setting'.store = setting.store
    BY <1>0, <1>4 DEF Throwing, Harms
  <2>. HIDE DEF FilesOk
  <2>3. FilesOk /\ open'[s] = "none" /\ Moves(s, "unlinkContent", TRUE)
    BY <1>0, <1>4, <2>1, <2>2 DEF LetsGo, Throwing
  <2>. QED
    BY <1>0, <2>2, <2>3, OthersHold, TypedMoves DEF FilesOk
<1>5. CASE Returns(s)
  <2>1. FilesOk
    BY <1>0, <1>5 DEF Returns, SameFiles
  <2>2. LetsGo(s)
    BY <1>5, NothingToClose DEF Returns, SameFiles
  <2>. HIDE DEF FilesOk
  <2>3. FilesOk /\ setting' = setting /\ open'[s] = "none" /\ Goes(s, "saved")
    BY <1>0, <1>5, <2>1, <2>2 DEF Returns, LetsGo
  <2>. QED
    BY <1>0, <2>2, <2>3, OthersHold, TypedMoves DEF FilesOk, Goes
<1>6. ASSUME NEW path \in {"content.tmp", "meta.tmp"}, NEW next, Opened(s, path, next)
      PROVE  StoreTyped'
  <2>1. FilesOk
    BY <1>0, <1>6 DEF Opened, PathsOk
  <2>2. open' = [open EXCEPT ![s] = path] /\ path \in Paths /\ setting' = setting
    BY <1>6 DEF Opened, Paths
  <2>3. open'[s] = path /\ Goes(s, next)
          /\ next = IF path = "content.tmp" THEN "writeContent" ELSE "writeMeta"
    BY <1>0, <1>6, <2>2 DEF Opened
  <2>. HIDE DEF FilesOk
  <2>. QED
    BY <1>0, <1>6, <2>1, <2>2, <2>3, OthersHold, TypedMoves DEF FilesOk, Goes
<1>7. ASSUME NEW data, NEW next, Wrote(s, data, next) PROVE StoreTyped'
  <2>1. FilesOk
    BY <1>0, <1>7 DEF Wrote, PathsOk, Holds
  <2>2. LetsGo(s) /\ setting' = setting /\ Goes(s, next) /\ next \in {"openMeta", "renameContent"}
    BY <1>7 DEF Wrote
  <2>3. open'[s] = "none"
    BY <1>0, <2>2 DEF LetsGo
  <2>. HIDE DEF FilesOk
  <2>. QED
    BY <1>0, <2>1, <2>2, <2>3, OthersHold, TypedMoves DEF FilesOk, Goes
<1>8. ASSUME NEW from, NEW to, NEW next, Renaming(s, from, to, next) PROVE StoreTyped'
  <2>1. FilesOk
    BY <1>0, <1>8 DEF Renaming, PathsOk
  <2>2. /\ open' = Renamed(from, to) /\ setting' = setting /\ Goes(s, next)
        /\ next \in {"renameMeta", "unlinkContent"}
        /\ save[s].at \notin {"writeContent", "writeMeta"}
        /\ \/ from = "content.tmp" /\ to = "content"
           \/ from = "meta.tmp" /\ to = "meta"
    BY <1>8 DEF Renaming
  <2>3. open' \in [Savers -> Paths \cup {"none", "unlinked"}]
           /\ \A q \in Savers :
              /\ save[q].at = "writeContent" => open'[q] \in {"content.tmp", "content", "unlinked"}
              /\ save[q].at = "writeMeta" => open'[q] \in {"meta.tmp", "meta", "unlinked"}
              /\ save[q].at \notin {"writeContent", "writeMeta"} => open'[q] = "none"
    BY <2>2, RenamedHold
  <2>. HIDE DEF FilesOk
  <2>. QED
    BY <1>0, <2>1, <2>2, <2>3, TypedMoves DEF FilesOk, Goes
<1>9. ASSUME NEW path, NEW next, Unlinking(s, path, next) PROVE StoreTyped'
  <2>1. FilesOk
    BY <1>0, <1>9 DEF Unlinking, PathsOk
  <2>2. /\ open' = Renamed(path, "unlinked") /\ setting' = setting /\ Goes(s, next)
        /\ next \in {"unlinkMeta", "failed", "upsert"}
        /\ save[s].at \notin {"writeContent", "writeMeta"}
        /\ path \in {"content.tmp", "meta.tmp"}
    BY <1>9 DEF Unlinking
  <2>3. open' \in [Savers -> Paths \cup {"none", "unlinked"}]
           /\ \A q \in Savers :
              /\ save[q].at = "writeContent" => open'[q] \in {"content.tmp", "content", "unlinked"}
              /\ save[q].at = "writeMeta" => open'[q] \in {"meta.tmp", "meta", "unlinked"}
              /\ save[q].at \notin {"writeContent", "writeMeta"} => open'[q] = "none"
    BY <2>2, RenamedHold
  <2>. HIDE DEF FilesOk
  <2>. QED
    BY <1>0, <2>1, <2>2, <2>3, TypedMoves DEF FilesOk, Goes
<1>. QED
  BY <1>1, <1>2, <1>3, <1>4, <1>5, <1>6, <1>7, <1>8, <1>9 DEF StepKind

-----------------------------------------------------------------------------
(* While nothing fails, what is not whole is being written, and what is    *)
(* temporary will be unlinked.                                             *)
LEMMA TidiesKept ==
    ASSUME Tidies, NEW s \in Savers, NEW at, NEW threw, Moves(s, at, threw),
           /\ files'["content.tmp"] # Absent =>
                \/ at \in UnlinksContent
                \/ files["content.tmp"] # Absent /\ save[s].at \notin UnlinksContent
           /\ files'["meta.tmp"] # Absent =>
                \/ at \in UnlinksMeta
                \/ files["meta.tmp"] # Absent /\ save[s].at \notin UnlinksMeta
    PROVE  Tidies'
<1>1. save'[s].at = at /\ \A q \in Savers \ {s} : save'[q] = save[q]
  BY DEF Moves
<1>2. files'["content.tmp"] # Absent => \E q \in Savers : save'[q].at \in UnlinksContent
  BY <1>1 DEF Tidies
<1>3. files'["meta.tmp"] # Absent => \E q \in Savers : save'[q].at \in UnlinksMeta
  BY <1>1 DEF Tidies
<1>. QED
  BY <1>2, <1>3 DEF Tidies

(* Every kind of step keeps the second layer.                              *)
LEMMA KindsUnharmed ==
    ASSUME StoreTyped, Unharmed, NEW s \in Savers, StepKind(s)
    PROVE  Unharmed'
<1>. SUFFICES ASSUME ~setting'.harmed PROVE WrittenOrWhole' /\ Tidies'
  BY DEF Unharmed
<1>0. /\ files \in [Paths -> {Absent, Partial, Bytes} \cup Types] /\ PathsOk
      /\ save[s].type \in Types /\ Absent \notin {Partial, Bytes} \cup Types
      /\ open \in [Savers -> Paths \cup {"none", "unlinked"}] /\ \A q \in Savers : Holds(q)
  BY PathsAre, StoreAssumption DEF StoreTyped, StoreTypeOK
<1>00. ~Errs(s)
  BY DEF Errs, Harms
<1>01. setting' = setting
  BY <1>00 DEF StepKind, Puts, Looks, Throwing, Returns, Opened, Wrote, Renaming, Unlinking, Harms
<1>02. WrittenOrWhole /\ Tidies
  BY <1>01 DEF Unharmed
<1>1. CASE Puts(s)
  <2>1. /\ files' = [files EXCEPT !["content"] = Bytes, !["meta"] = save[s].type]
        /\ open' = open /\ Goes(s, "upsert") /\ save[s].at = "object"
    BY <1>1 DEF Puts
  <2>2. WrittenOrWhole'
    BY <1>0, <1>02, <2>1 DEF WrittenOrWhole, Whole, PathsOk
  <2>3. files'["content.tmp"] = files["content.tmp"] /\ files'["meta.tmp"] = files["meta.tmp"]
    BY <1>0, <2>1 DEF PathsOk
  <2>. QED
    BY <1>02, <2>1, <2>2, <2>3, TidiesKept DEF Goes, UnlinksContent, UnlinksMeta
<1>2. CASE Looks(s) \/ Returns(s)
  <2>1. /\ files' = files /\ open' = open /\ \E at : Goes(s, at)
        /\ save[s].at \in {"exists", "upsert"}
    BY <1>2 DEF Looks, Returns, SameFiles
  <2>2. WrittenOrWhole'
    BY <1>02, <2>1 DEF WrittenOrWhole, Whole
  <2>. QED
    BY <1>02, <2>1, <2>2, TidiesKept DEF Goes, UnlinksContent, UnlinksMeta
<1>3. CASE Throwing(s)
  <2>1. /\ files' = files /\ open' = [open EXCEPT ![s] = "none"]
        /\ Moves(s, "unlinkContent", TRUE) /\ save[s].at \in {"renameContent", "renameMeta"}
    BY <1>3 DEF Throwing, Harms, LetsGo
  <2>2. open[s] = "none"
    BY <1>0, <2>1 DEF Holds
  <2>3. open' = open
    BY <1>0, <2>1, <2>2
  <2>4. WrittenOrWhole'
    BY <1>02, <2>1, <2>3 DEF WrittenOrWhole, Whole
  <2>. QED
    BY <1>02, <2>1, <2>4, TidiesKept DEF UnlinksContent, UnlinksMeta
<1>4. ASSUME NEW path \in {"content.tmp", "meta.tmp"}, NEW next, Opened(s, path, next)
      PROVE  WrittenOrWhole' /\ Tidies'
  <2>1. /\ files' = [files EXCEPT ![path] = Partial] /\ open' = [open EXCEPT ![s] = path]
        /\ Goes(s, next)
        /\ next = IF path = "content.tmp" THEN "writeContent" ELSE "writeMeta"
        /\ save[s].at = IF path = "content.tmp" THEN "openContent" ELSE "openMeta"
    BY <1>4 DEF Opened
  <2>2. open[s] = "none" /\ open'[s] = path /\ \A q \in Savers \ {s} : open'[q] = open[q]
    BY <1>0, <2>1 DEF Holds
  <2>3. WrittenOrWhole'
    <3>1. ASSUME NEW p \in Paths PROVE files'[p] \in Whole(p) \/ \E q \in Savers : open'[q] = p
      <4>1. CASE p = path
        BY <2>2, <4>1
      <4>2. CASE p # path
        <5>1. files'[p] = files[p] /\ p # "none"
          BY <1>0, <2>1, <4>2 DEF Paths
        <5>2. CASE files[p] \in Whole(p)
          BY <5>1, <5>2
        <5>3. CASE \E q \in Savers : open[q] = p
          BY <2>2, <5>1, <5>3
        <5>. QED
          BY <1>02, <5>2, <5>3 DEF WrittenOrWhole
      <4>. QED
        BY <4>1, <4>2
    <3>. QED
      BY <3>1 DEF WrittenOrWhole, Whole
  <2>4. /\ path = "content.tmp" => files'["meta.tmp"] = files["meta.tmp"]
        /\ path = "meta.tmp" => files'["content.tmp"] = files["content.tmp"]
    BY <1>0, <2>1 DEF PathsOk
  <2>5. CASE path = "content.tmp"
    BY <1>02, <2>1, <2>3, <2>4, <2>5, TidiesKept DEF Goes, UnlinksContent, UnlinksMeta
  <2>6. CASE path = "meta.tmp"
    BY <1>02, <2>1, <2>3, <2>4, <2>6, TidiesKept DEF Goes, UnlinksContent, UnlinksMeta
  <2>. QED
    BY <2>5, <2>6
<1>5. ASSUME NEW data, NEW next, Wrote(s, data, next) PROVE WrittenOrWhole' /\ Tidies'
  <2>1. /\ \/ save[s].at = "writeContent" /\ next = "openMeta" /\ data = Bytes
           \/ save[s].at = "writeMeta" /\ next = "renameContent" /\ data = save[s].type
        /\ Goes(s, next)
        /\ files' = [p \in Paths |-> IF p = open[s] THEN data ELSE files[p]]
        /\ open' = [open EXCEPT ![s] = "none"]
    BY <1>5 DEF Wrote, LetsGo
  <2>2. open'[s] = "none" /\ \A q \in Savers \ {s} : open'[q] = open[q]
    BY <1>0, <2>1
  <2>3. WrittenOrWhole'
    <3>1. ASSUME NEW p \in Paths PROVE files'[p] \in Whole(p) \/ \E q \in Savers : open'[q] = p
      <4>1. CASE p = open[s]
        <5>1. files'[p] = data
          BY <2>1, <4>1
        <5>2. data \in Whole(p)
          <6>1. CASE save[s].at = "writeContent" /\ data = Bytes
            BY <1>0, <4>1, <6>1 DEF Holds, Whole, Paths
          <6>2. CASE save[s].at = "writeMeta" /\ data = save[s].type
            BY <1>0, <4>1, <6>2 DEF Holds, Whole, Paths
          <6>. QED
            BY <2>1, <6>1, <6>2
        <5>. QED
          BY <5>1, <5>2
      <4>2. CASE p # open[s]
        <5>1. files'[p] = files[p]
          BY <2>1, <4>2
        <5>2. CASE files[p] \in Whole(p)
          BY <5>1, <5>2
        <5>3. CASE \E q \in Savers : open[q] = p
          BY <2>2, <4>2, <5>3
        <5>. QED
          BY <1>02, <5>2, <5>3 DEF WrittenOrWhole
      <4>. QED
        BY <4>1, <4>2
    <3>. QED
      BY <3>1 DEF WrittenOrWhole, Whole
  <2>4. CASE save[s].at = "writeContent" /\ next = "openMeta"
    <3>1. open[s] \in {"content.tmp", "content", "unlinked"}
      BY <1>0, <2>4 DEF Holds
    <3>2. files'["meta.tmp"] = files["meta.tmp"]
      BY <1>0, <2>1, <3>1 DEF PathsOk
    <3>. QED
      BY <1>02, <2>1, <2>3, <2>4, <3>2, TidiesKept DEF Goes, UnlinksContent, UnlinksMeta
  <2>5. CASE save[s].at = "writeMeta" /\ next = "renameContent"
    BY <1>02, <2>1, <2>3, <2>5, TidiesKept DEF Goes, UnlinksContent, UnlinksMeta
  <2>. QED
    BY <2>1, <2>4, <2>5
<1>6. ASSUME NEW from, NEW to, NEW next, Renaming(s, from, to, next)
      PROVE  WrittenOrWhole' /\ Tidies'
  <2>1. /\ \/ /\ save[s].at = "renameContent" /\ next = "renameMeta"
              /\ from = "content.tmp" /\ to = "content"
           \/ /\ save[s].at = "renameMeta" /\ next = "unlinkContent"
              /\ from = "meta.tmp" /\ to = "meta"
        /\ Goes(s, next)
        /\ files' = [files EXCEPT ![to] = files[from], ![from] = Absent]
        /\ open' = Renamed(from, to)
    BY <1>6 DEF Renaming
  <2>1a. from \in Paths /\ to \in Paths /\ from # to
    BY <1>0, <2>1 DEF PathsOk
  <2>2. /\ \A q \in Savers : open'[q] = IF open[q] = from THEN to
                                       ELSE IF open[q] = to THEN "unlinked" ELSE open[q]
        /\ files'[from] = Absent /\ files'[to] = files[from]
        /\ \A p \in Paths \ {from, to} : files'[p] = files[p]
    BY <1>0, <2>1, <2>1a DEF Renamed
  <2>3. WrittenOrWhole'
    <3>1. ASSUME NEW p \in Paths PROVE files'[p] \in Whole(p) \/ \E q \in Savers : open'[q] = p
      <4>1. CASE p = from
        BY <2>2, <4>1 DEF Whole
      <4>2. CASE p = to
        <5>1. Whole(from) = Whole(to)
          BY <2>1 DEF Whole
        <5>2. files[from] \in Whole(from) \/ \E q \in Savers : open[q] = from
          BY <1>02, <2>1a DEF WrittenOrWhole
        <5>. QED
          BY <2>2, <4>2, <5>1, <5>2
      <4>3. CASE p \notin {from, to}
        <5>1. files[p] \in Whole(p) \/ \E q \in Savers : open[q] = p
          BY <1>02 DEF WrittenOrWhole
        <5>. QED
          BY <2>2, <4>3, <5>1
      <4>. QED
        BY <4>1, <4>2, <4>3
    <3>. QED
      BY <3>1 DEF WrittenOrWhole, Whole
  <2>4. CASE from = "content.tmp"
    <3>1. files'["meta.tmp"] = files["meta.tmp"] /\ files'["content.tmp"] = Absent
          /\ next = "renameMeta"
      BY <1>0, <2>1, <2>2, <2>4 DEF PathsOk
    <3>. QED
      BY <1>02, <2>1, <2>3, <3>1, TidiesKept DEF Goes, UnlinksContent, UnlinksMeta
  <2>5. CASE from = "meta.tmp"
    <3>1. files'["content.tmp"] = files["content.tmp"] /\ files'["meta.tmp"] = Absent
          /\ next = "unlinkContent"
      BY <1>0, <2>1, <2>2, <2>5 DEF PathsOk
    <3>. QED
      BY <1>02, <2>1, <2>3, <3>1, TidiesKept DEF Goes, UnlinksContent, UnlinksMeta
  <2>. QED
    BY <2>1, <2>4, <2>5
<1>7. ASSUME NEW path, NEW next, Unlinking(s, path, next) PROVE WrittenOrWhole' /\ Tidies'
  <2>1. /\ \/ save[s].at = "unlinkContent" /\ path = "content.tmp" /\ next = "unlinkMeta"
           \/ save[s].at = "unlinkMeta" /\ path = "meta.tmp" /\ next \in {"failed", "upsert"}
        /\ Goes(s, next)
        /\ files' = [files EXCEPT ![path] = Absent] /\ open' = Renamed(path, "unlinked")
    BY <1>7 DEF Unlinking
  <2>2. path \in Paths /\ path \notin {"none", "unlinked"}
    BY <1>0, <2>1 DEF PathsOk
  <2>3. /\ \A q \in Savers : open[q] # path => open'[q] = open[q]
        /\ files'[path] = Absent /\ \A p \in Paths \ {path} : files'[p] = files[p]
    BY <1>0, <2>1, <2>2 DEF Renamed
  <2>4. WrittenOrWhole'
    <3>1. ASSUME NEW p \in Paths PROVE files'[p] \in Whole(p) \/ \E q \in Savers : open'[q] = p
      <4>1. CASE p = path
        BY <2>3, <4>1 DEF Whole
      <4>2. CASE p # path
        <5>1. files[p] \in Whole(p) \/ \E q \in Savers : open[q] = p
          BY <1>02 DEF WrittenOrWhole
        <5>. QED
          BY <2>3, <4>2, <5>1
      <4>. QED
        BY <4>1, <4>2
    <3>. QED
      BY <3>1 DEF WrittenOrWhole, Whole
  <2>5. CASE path = "content.tmp"
    <3>1. files'["meta.tmp"] = files["meta.tmp"] /\ files'["content.tmp"] = Absent
          /\ next = "unlinkMeta"
      BY <1>0, <2>1, <2>3, <2>5 DEF PathsOk
    <3>. QED
      BY <1>02, <2>1, <2>4, <3>1, TidiesKept DEF Goes, UnlinksContent, UnlinksMeta
  <2>6. CASE path = "meta.tmp"
    <3>1. files'["content.tmp"] = files["content.tmp"] /\ files'["meta.tmp"] = Absent
          /\ save[s].at = "unlinkMeta"
      BY <1>0, <2>1, <2>3, <2>6 DEF PathsOk
    <3>. QED
      BY <1>02, <2>1, <2>4, <3>1, TidiesKept DEF Goes, UnlinksContent, UnlinksMeta
  <2>. QED
    BY <2>1, <2>5, <2>6
<1>. QED
  BY <1>00, <1>1, <1>2, <1>3, <1>4, <1>5, <1>6, <1>7 DEF StepKind

-----------------------------------------------------------------------------
(* When saves do not overlap, the one under way is alone with the files.   *)
LEMMA KindsSettle ==
    ASSUME NEW s \in Savers, StepKind(s)
    PROVE  /\ setting'.store = setting.store /\ setting'.together = setting.together
           /\ load' = load /\ first' = first
           /\ \A q \in Savers \ {s} : save'[q] = save[q]
           /\ save'[s].type = save[s].type
           /\ save'[s].at \in Putting => save[s].at \in Putting
           /\ save[s].at \notin Putting =>
                (files' = files /\ LetsGo(s)) \/ SameFiles
<1>1. CASE Errs(s)
  BY <1>1 DEF Errs, Goes, Moves, Harms
<1>2. CASE Throwing(s)
  BY <1>2 DEF Throwing, Moves, Harms
<1>3. CASE Puts(s) \/ Looks(s) \/ Returns(s)
  BY <1>3 DEF Puts, Looks, Returns, Goes, Moves, Putting, SameFiles
<1>4. ASSUME NEW path \in {"content.tmp", "meta.tmp"}, NEW next, Opened(s, path, next)
      PROVE  /\ setting' = setting /\ Goes(s, next) /\ save[s].at \in Putting
  BY <1>4 DEF Opened, Putting
<1>5. ASSUME NEW data, NEW next, Wrote(s, data, next)
      PROVE  /\ setting' = setting /\ Goes(s, next) /\ save[s].at \in Putting
  BY <1>5 DEF Wrote, Putting
<1>6. ASSUME NEW from, NEW to, NEW next, Renaming(s, from, to, next)
      PROVE  /\ setting' = setting /\ Goes(s, next) /\ save[s].at \in Putting
  BY <1>6 DEF Renaming, Putting
<1>7. ASSUME NEW path, NEW next, Unlinking(s, path, next)
      PROVE  /\ setting' = setting /\ Goes(s, next) /\ save[s].at \in Putting
  BY <1>7 DEF Unlinking, Putting
<1>8. CASE \E next : setting' = setting /\ Goes(s, next) /\ save[s].at \in Putting
  BY <1>8 DEF Goes, Moves
<1>. QED
  BY <1>1, <1>2, <1>3, <1>4, <1>5, <1>6, <1>7, <1>8 DEF StepKind

(* What the saver whose turn it is does to what can be read.               *)
LEMMA SequenceKept ==
    ASSUME StoreTyped, NEW s \in Savers, StepKind(s), InSequence(s),
           files["content"] \in {Absent, Bytes}, files["meta"] \in {Absent} \cup Types
    PROVE  InSequence(s)' /\ files'["content"] \in {Absent, Bytes} /\ files'["meta"] \in {Absent} \cup Types
<1>0. /\ files \in [Paths -> {Absent, Partial, Bytes} \cup Types] /\ PathsOk
      /\ save[s].type \in Types
      /\ open \in [Savers -> Paths \cup {"none", "unlinked"}] /\ Holds(s)
  BY PathsAre DEF StoreTyped, StoreTypeOK
<1>1. CASE Puts(s)
  BY <1>0, <1>1 DEF Puts, Goes, Moves, InSequence, PathsOk
<1>2. CASE Looks(s) \/ Returns(s) \/ Errs(s) \/ Throwing(s)
  <2>1. files' = files
    BY <1>2 DEF Looks, Returns, Errs, Throwing, SameFiles
  <2>2. save'[s].at \notin {"writeContent", "writeMeta", "openMeta", "renameContent", "renameMeta"}
    BY <1>2 DEF Looks, Returns, Errs, Throwing, Goes, Moves, Ended
  <2>. QED
    BY <2>1, <2>2 DEF InSequence
<1>3. ASSUME NEW path \in {"content.tmp", "meta.tmp"}, NEW next, Opened(s, path, next)
      PROVE  InSequence(s)' /\ files'["content"] = files["content"] /\ files'["meta"] = files["meta"]
  <2>1. /\ files' = [files EXCEPT ![path] = Partial] /\ open'[s] = path /\ save'[s].at = next
        /\ next = IF path = "content.tmp" THEN "writeContent" ELSE "writeMeta"
        /\ save[s].at = IF path = "content.tmp" THEN "openContent" ELSE "openMeta"
    BY <1>0, <1>3 DEF Opened, Goes, Moves
  <2>. QED
    BY <1>0, <2>1 DEF InSequence, PathsOk
<1>4. ASSUME NEW data, NEW next, Wrote(s, data, next)
      PROVE  InSequence(s)' /\ files'["content"] = files["content"] /\ files'["meta"] = files["meta"]
  <2>1. /\ \/ save[s].at = "writeContent" /\ next = "openMeta" /\ data = Bytes
           \/ save[s].at = "writeMeta" /\ next = "renameContent" /\ data = save[s].type
        /\ files' = [p \in Paths |-> IF p = open[s] THEN data ELSE files[p]]
        /\ save'[s].at = next /\ save'[s].type = save[s].type
    BY <1>4 DEF Wrote, Goes, Moves
  <2>. QED
    BY <1>0, <2>1 DEF InSequence, PathsOk
<1>5. ASSUME NEW from, NEW to, NEW next, Renaming(s, from, to, next)
      PROVE  /\ InSequence(s)'
             /\ files'["content"] \in {Absent, Bytes} /\ files'["meta"] \in {Absent} \cup Types
  <2>1. /\ \/ /\ save[s].at = "renameContent" /\ next = "renameMeta"
              /\ from = "content.tmp" /\ to = "content"
           \/ /\ save[s].at = "renameMeta" /\ next = "unlinkContent"
              /\ from = "meta.tmp" /\ to = "meta"
        /\ files' = [files EXCEPT ![to] = files[from], ![from] = Absent]
        /\ save'[s].at = next /\ save'[s].type = save[s].type
    BY <1>5 DEF Renaming, Goes, Moves
  <2>. QED
    BY <1>0, <2>1 DEF InSequence, PathsOk
<1>6. ASSUME NEW path, NEW next, Unlinking(s, path, next)
      PROVE  InSequence(s)' /\ files'["content"] = files["content"] /\ files'["meta"] = files["meta"]
  <2>1. /\ path \in {"content.tmp", "meta.tmp"} /\ next \in {"unlinkMeta", "failed", "upsert"}
        /\ files' = [files EXCEPT ![path] = Absent] /\ save'[s].at = next
    BY <1>6 DEF Unlinking, Goes, Moves
  <2>. QED
    BY <1>0, <2>1 DEF InSequence, PathsOk
<1>. QED
  BY <1>1, <1>2, <1>3, <1>4, <1>5, <1>6 DEF StepKind

(* Every kind of step keeps the third layer.                               *)
LEMMA KindsSequential ==
    ASSUME StoreTyped, Sequential, NEW s \in Savers, StepKind(s)
    PROVE  Sequential'
<1>. SUFFICES ASSUME OneAtATime' PROVE Sequential'
  BY DEF Sequential
<1>1. /\ setting'.together = setting.together /\ load' = load
      /\ \A q \in Savers \ {s} : save'[q] = save[q]
      /\ save'[s].at \in Putting => save[s].at \in Putting
      /\ save[s].at \notin Putting => (files' = files /\ LetsGo(s)) \/ SameFiles
  BY KindsSettle
<1>2. /\ \A q \in Savers : Alone(q) /\ InSequence(q)
      /\ files["content"] \in {Absent, Bytes} /\ files["meta"] \in {Absent} \cup Types
      /\ \A l \in Loaders : load[l].at \in {"meta", "loaded"} => load[l].bytes = Bytes
  BY <1>1 DEF Sequential, OneAtATime
<1>3. \A q \in Savers : Alone(q)'
  <2>. SUFFICES ASSUME NEW p \in Savers, NEW q \in Savers,
                       save'[p].at \in Putting, save'[q].at \in Putting
                PROVE  p = q
    BY DEF Alone
  <2>1. save[p].at \in Putting /\ save[q].at \in Putting
    BY <1>1
  <2>. QED
    BY <1>2, <2>1 DEF Alone
<1>4. /\ InSequence(s)' /\ files'["content"] \in {Absent, Bytes}
      /\ files'["meta"] \in {Absent} \cup Types
  BY <1>2, SequenceKept
<1>5. ASSUME NEW q \in Savers, q # s PROVE InSequence(q)'
  <2>1. save'[q] = save[q]
    BY <1>1, <1>5
  <2>2. CASE save[s].at \in Putting
    <3>1. save[q].at \notin Putting
      BY <1>2, <1>5, <2>2 DEF Alone
    <3>. QED
      BY <2>1, <3>1 DEF InSequence, Putting
  <2>3. CASE save[s].at \notin Putting
    <3>1. open \in [Savers -> Paths \cup {"none", "unlinked"}]
      BY DEF StoreTyped, StoreTypeOK
    <3>2. files' = files /\ open'[q] = open[q]
      BY <1>1, <1>5, <2>3, <3>1 DEF LetsGo, SameFiles
    <3>3. InSequence(q)
      BY <1>2
    <3>. QED
      BY <2>1, <3>2, <3>3 DEF InSequence
  <2>. QED
    BY <2>2, <2>3
<1>. QED
  BY <1>1, <1>2, <1>3, <1>4, <1>5 DEF Sequential

-----------------------------------------------------------------------------
(* When nothing fails either, each save does the whole of its work.        *)
LEMMA StoredKept ==
    ASSUME StoreTyped, NEW s \in Savers, StepKind(s), InSequence(s), Phase(s), ~setting'.harmed
    PROVE  /\ setting' = setting
           /\ Phase(s)'
           /\ IsStored => IsStored'
           /\ save'[s].at \in Putting \/ IsStored'
           /\ save[s].at \notin Putting => files' = files
<1>0. /\ files \in [Paths -> {Absent, Partial, Bytes} \cup Types] /\ PathsOk
      /\ save[s].type \in Types /\ Absent \notin {Partial, Bytes} \cup Types
      /\ save[s].threw \in BOOLEAN
      /\ open \in [Savers -> Paths \cup {"none", "unlinked"}] /\ Holds(s)
  BY PathsAre, StoreAssumption DEF StoreTyped, StoreTypeOK
<1>00. ~Errs(s) /\ ~Throwing(s)
  BY <1>0 DEF Errs, Throwing, Harms, InSequence
<1>1. CASE Puts(s)
  <2>1. /\ files' = [files EXCEPT !["content"] = Bytes, !["meta"] = save[s].type]
        /\ save'[s].at = "upsert" /\ setting' = setting /\ first' = first
        /\ save[s].at = "object"
    BY <1>1 DEF Puts, Goes, Moves
  <2>2. IsStored'
    BY <1>0, <2>1 DEF IsStored, Holds, PathsOk
  <2>. QED
    BY <2>1, <2>2 DEF Phase, Putting
<1>2. CASE Looks(s)
  <2>1. /\ files' = files /\ save'[s].at = (IF IsThere THEN "upsert" ELSE "openContent")
        /\ setting' = setting /\ first' = first
        /\ save[s].at = "exists" /\ save'[s].type = save[s].type /\ save'[s].threw = save[s].threw
    BY <1>2 DEF Looks, Goes, Moves, SameFiles
  <2>2. IsStored' <=> IsStored
    BY <2>1 DEF IsStored
  <2>. QED
    BY <2>1, <2>2 DEF Phase, Putting, IsThere
<1>3. CASE Returns(s)
  <2>1. /\ files' = files /\ save'[s].at = "saved" /\ setting' = setting /\ first' = first
        /\ save[s].at = "upsert"
    BY <1>3 DEF Returns, Goes, Moves, SameFiles
  <2>2. IsStored' <=> IsStored
    BY <2>1 DEF IsStored
  <2>. QED
    BY <2>1, <2>2 DEF Phase
<1>4. ASSUME NEW path \in {"content.tmp", "meta.tmp"}, NEW next, Opened(s, path, next)
      PROVE  /\ setting' = setting /\ Phase(s)' /\ (IsStored => IsStored')
             /\ save'[s].at \in Putting /\ save[s].at \in Putting
  <2>1. /\ files' = [files EXCEPT ![path] = Partial] /\ save'[s].at = next
        /\ setting' = setting /\ first' = first
        /\ next = IF path = "content.tmp" THEN "writeContent" ELSE "writeMeta"
        /\ save[s].at = IF path = "content.tmp" THEN "openContent" ELSE "openMeta"
        /\ save'[s].type = save[s].type /\ save'[s].threw = save[s].threw
    BY <1>4 DEF Opened, Goes, Moves
  <2>2. IsStored' <=> IsStored
    BY <1>0, <2>1 DEF IsStored, PathsOk
  <2>. QED
    BY <2>1, <2>2 DEF Phase, Putting
<1>5. ASSUME NEW data, NEW next, Wrote(s, data, next)
      PROVE  /\ setting' = setting /\ Phase(s)' /\ (IsStored => IsStored')
             /\ save'[s].at \in Putting /\ save[s].at \in Putting
  <2>1. /\ \/ save[s].at = "writeContent" /\ next = "openMeta" /\ data = Bytes
           \/ save[s].at = "writeMeta" /\ next = "renameContent" /\ data = save[s].type
        /\ files' = [p \in Paths |-> IF p = open[s] THEN data ELSE files[p]]
        /\ save'[s].at = next /\ save'[s].type = save[s].type /\ save'[s].threw = save[s].threw
        /\ setting' = setting /\ first' = first
    BY <1>5 DEF Wrote, Goes, Moves
  <2>2. IsStored' <=> IsStored
    BY <1>0, <2>1 DEF IsStored, PathsOk, InSequence
  <2>. QED
    BY <2>1, <2>2 DEF Phase, Putting
<1>6. ASSUME NEW from, NEW to, NEW next, Renaming(s, from, to, next)
      PROVE  /\ setting' = setting /\ Phase(s)' /\ (IsStored => IsStored')
             /\ save'[s].at \in Putting /\ save[s].at \in Putting
  <2>1. /\ \/ /\ save[s].at = "renameContent" /\ next = "renameMeta"
              /\ from = "content.tmp" /\ to = "content"
           \/ /\ save[s].at = "renameMeta" /\ next = "unlinkContent"
              /\ from = "meta.tmp" /\ to = "meta"
        /\ files' = [files EXCEPT ![to] = files[from], ![from] = Absent]
        /\ save'[s].at = next /\ save'[s].type = save[s].type /\ save'[s].threw = save[s].threw
        /\ setting' = setting /\ first' = first
    BY <1>6 DEF Renaming, Goes, Moves
  <2>2. CASE save[s].at = "renameContent"
    <3>1. files'["content"] = Bytes /\ files'["meta"] = files["meta"]
      BY <1>0, <2>1, <2>2 DEF PathsOk, InSequence
    <3>2. IsStored => IsStored'
      BY <2>1, <3>1 DEF IsStored
    <3>. QED
      BY <2>1, <2>2, <3>1, <3>2 DEF Phase, Putting
  <2>3. CASE save[s].at = "renameMeta"
    <3>1. files'["content"] = files["content"] /\ files'["meta"] = save[s].type
      BY <1>0, <2>1, <2>3 DEF PathsOk, InSequence
    <3>2. IsStored'
      BY <1>0, <2>1, <2>3, <3>1 DEF IsStored, Phase
    <3>. QED
      BY <2>1, <2>3, <3>2 DEF Phase, Putting
  <2>. QED
    BY <2>1, <2>2, <2>3
<1>7. ASSUME NEW path, NEW next, Unlinking(s, path, next)
      PROVE  /\ setting' = setting /\ Phase(s)' /\ (IsStored => IsStored') /\ IsStored'
             /\ save[s].at \in Putting
  <2>1. /\ \/ save[s].at = "unlinkContent" /\ path = "content.tmp" /\ next = "unlinkMeta"
           \/ /\ save[s].at = "unlinkMeta" /\ path = "meta.tmp"
              /\ next = IF save[s].threw THEN "failed" ELSE "upsert"
        /\ files' = [files EXCEPT ![path] = Absent]
        /\ save'[s].at = next /\ save'[s].type = save[s].type /\ save'[s].threw = save[s].threw
        /\ setting' = setting /\ first' = first
    BY <1>7 DEF Unlinking, Goes, Moves
  <2>2. IsStored' <=> IsStored
    BY <1>0, <2>1 DEF IsStored, PathsOk
  <2>. QED
    BY <2>1, <2>2 DEF Phase, Putting
<1>. QED
  BY <1>00, <1>1, <1>2, <1>3, <1>4, <1>5, <1>6, <1>7 DEF StepKind, Looks, Returns, SameFiles, Puts, Putting

(* Every kind of step keeps the fourth layer.                              *)
LEMMA KindsInOrder ==
    ASSUME StoreTyped, Sequential, InOrder, NEW s \in Savers, StepKind(s)
    PROVE  InOrder'
<1>. SUFFICES ASSUME OneAtATime', ~setting'.harmed
              PROVE  /\ \A q \in Savers : Phase(q)'
                     /\ AtRest' => IsStored' \/ (files'["content"] = Absent /\ first' = Absent)
  BY DEF InOrder
<1>1. OneAtATime /\ first' = first /\ \A q \in Savers \ {s} : save'[q] = save[q]
  BY KindsSettle DEF OneAtATime
<1>2. Alone(s) /\ InSequence(s)
  BY <1>1 DEF Sequential
<1>3. Errs(s) => setting'.harmed
  BY DEF Errs, Harms
<1>4. setting' = setting
  <2>1. ~Errs(s)
    BY <1>3
  <2>2. ~Throwing(s) \/ setting' = setting
    BY DEF Throwing, Harms
  <2>. QED
    BY <2>1, <2>2 DEF StepKind, Puts, Looks, Returns, Opened, Wrote, Renaming, Unlinking
<1>5. \A q \in Savers : Phase(q)
  BY <1>1, <1>4 DEF InOrder
<1>6. /\ Phase(s)' /\ (IsStored => IsStored') /\ (save'[s].at \in Putting \/ IsStored')
      /\ save[s].at \notin Putting => files' = files
  BY <1>2, <1>5, StoredKept
<1>7. ASSUME NEW q \in Savers, q # s PROVE Phase(q)'
  <2>1. save'[q] = save[q] /\ Phase(q)
    BY <1>1, <1>5, <1>7
  <2>2. CASE save[s].at \in Putting
    <3>1. save[q].at \notin Putting
      BY <1>2, <1>7, <2>2 DEF Alone
    <3>. QED
      BY <1>6, <2>1, <3>1 DEF Phase, Putting
  <2>3. CASE save[s].at \notin Putting
    <3>1. files' = files /\ (IsStored' <=> IsStored)
      BY <1>1, <1>4, <1>6, <2>3 DEF IsStored
    <3>. QED
      BY <1>1, <2>1, <3>1 DEF Phase
  <2>. QED
    BY <2>2, <2>3
<1>8. AtRest' => IsStored'
  BY <1>6 DEF AtRest
<1>. QED
  BY <1>6, <1>7, <1>8

-----------------------------------------------------------------------------
(* A save begins; when saves do not overlap, no other is under way.        *)
LEMMA NoneUnderWay ==
    ASSUME Cardinality({q \in Savers : save[q].at \in Putting}) < setting.together, OneAtATime
    PROVE  AtRest
<1>. DEFINE S == {q \in Savers : save[q].at \in Putting}
<1>1. IsFiniteSet(S)
  BY SaversAssumption, FS_Subset
<1>2. Cardinality(S) = 0
  <2>1. Cardinality(S) \in Nat
    BY <1>1, FS_CardinalityType
  <2>2. Cardinality(S) < 1
    BY DEF OneAtATime
  <2>. QED
    BY <2>1, <2>2
<1>3. S = {}
  BY <1>1, <1>2, FS_EmptySet
<1>. QED
  BY <1>3 DEF AtRest

LEMMA SavesNowKeeps ==
    ASSUME StoreInv, NEW s \in Savers, NEW t \in Types, SavesNow(s, t)
    PROVE  StoreInv'
<1>. DEFINE at == IF setting.store = "fs" THEN "exists" ELSE "object"
<1>0. /\ StoreTyped /\ Unharmed /\ Sequential /\ InOrder /\ StoreTypeOK
      /\ save \in [Savers -> SaveCall] /\ setting \in Setting
      /\ Absent \notin {Partial, Bytes} \cup Types
  BY StoreAssumption DEF StoreInv, StoreTyped, StoreTypeOK, SaveCall
<1>1. /\ save[s].at \in Ended /\ setting.saves > 0
      /\ save' = [save EXCEPT ![s] = [at |-> at, type |-> t, threw |-> FALSE]]
      /\ first' = IF first = Absent THEN t ELSE first
      /\ setting' = [setting EXCEPT !.saves = @ - 1]
      /\ UNCHANGED <<files, open, load, indexed>>
  BY DEF SavesNow
<1>2. at \in Putting /\ at \in {"exists", "object"}
  BY DEF Putting
<1>. HIDE DEF at
<1>3. /\ save' \in [Savers -> SaveCall] /\ \A q \in Savers \ {s} : save'[q] = save[q]
      /\ save'[s].at = at /\ save'[s].type = t /\ save'[s].threw = FALSE
  BY <1>0, <1>1, <1>2 DEF SaveCall
<1>4. /\ setting' \in Setting /\ setting'.store = setting.store
      /\ setting'.together = setting.together /\ setting'.harmed = setting.harmed
  <2>1. setting' = [store |-> setting.store, together |-> setting.together,
                    saves |-> setting.saves - 1, mishaps |-> setting.mishaps,
                    harmed |-> setting.harmed]
    BY <1>0, <1>1 DEF Setting
  <2>2. setting.saves - 1 \in Nat
    BY <1>0, <1>1 DEF Setting
  <2>. QED
    BY <1>0, <2>1, <2>2 DEF Setting
<1>5. StoreTyped'
  <2>1. StoreTypeOK'
    BY <1>0, <1>1, <1>3, <1>4 DEF StoreTypeOK, SaveCall
  <2>2. at = "object" => setting'.store = "s3"
    BY <1>0, <1>4 DEF at, Setting
  <2>3. save[s].at \notin {"writeContent", "writeMeta"}
    BY <1>1 DEF Ended
  <2>4. \A q \in Savers : Holds(q)
    BY <1>0 DEF StoreTyped
  <2>5. Holds(s)'
    BY <1>1, <1>2, <1>3, <2>2, <2>3, <2>4 DEF Holds
  <2>6. \A q \in Savers \ {s} : Holds(q)'
    BY <1>1, <1>3, <1>4, <2>4 DEF Holds
  <2>. QED
    BY <1>0, <1>1, <2>1, <2>5, <2>6 DEF StoreTyped
<1>6. Unharmed'
  <2>. SUFFICES ASSUME ~setting'.harmed PROVE WrittenOrWhole' /\ Tidies'
    BY DEF Unharmed
  <2>1. WrittenOrWhole /\ Tidies
    BY <1>0, <1>4 DEF Unharmed
  <2>2. WrittenOrWhole'
    BY <1>1, <2>1 DEF WrittenOrWhole, Whole
  <2>3. save[s].at \notin UnlinksContent \cup UnlinksMeta
    BY <1>1 DEF UnlinksContent, UnlinksMeta, Ended
  <2>4. Tidies'
    BY <1>1, <1>3, <2>1, <2>3 DEF Tidies
  <2>. QED
    BY <2>2, <2>4
<1>7. OneAtATime' => OneAtATime /\ AtRest
  <2>1. OneAtATime' => OneAtATime
    BY <1>4 DEF OneAtATime
  <2>. QED
    BY <2>1, NoneUnderWay DEF SavesNow
<1>8. Sequential'
  <2>. SUFFICES ASSUME OneAtATime' PROVE Sequential'
    BY DEF Sequential
  <2>1. AtRest /\ OneAtATime
    BY <1>7
  <2>2. \A q \in Savers \ {s} : save'[q].at \notin Putting
    BY <1>3, <2>1 DEF AtRest
  <2>3. \A q \in Savers : Alone(q)'
    BY <2>2 DEF Alone
  <2>4. \A q \in Savers : InSequence(q)'
    BY <1>2, <1>3, <2>2 DEF InSequence, Putting
  <2>5. /\ files["content"] \in {Absent, Bytes} /\ files["meta"] \in {Absent} \cup Types
        /\ \A l \in Loaders : load[l].at \in {"meta", "loaded"} => load[l].bytes = Bytes
    BY <1>0, <2>1 DEF Sequential
  <2>. QED
    BY <1>1, <2>3, <2>4, <2>5 DEF Sequential
<1>9. InOrder'
  <2>. SUFFICES ASSUME OneAtATime', ~setting'.harmed
                PROVE  /\ \A q \in Savers : Phase(q)'
                       /\ AtRest' => IsStored' \/ (files'["content"] = Absent /\ first' = Absent)
    BY DEF InOrder
  <2>1. AtRest /\ OneAtATime /\ ~setting.harmed
    BY <1>4, <1>7
  <2>2. /\ \A q \in Savers : Phase(q)
        /\ IsStored \/ (files["content"] = Absent /\ first = Absent)
    BY <1>0, <2>1 DEF InOrder
  <2>3. IsStored => IsStored'
    BY <1>0, <1>1, <1>4 DEF IsStored
  <2>4. Phase(s)'
    <3>1. save'[s].at \in {"exists", "object"}
      BY <1>2, <1>3
    <3>2. CASE files["content"] = Absent
      <4>1. first = Absent
        BY <1>0, <2>2, <3>2 DEF IsStored
      <4>. QED
        BY <1>1, <1>3, <3>1, <3>2, <4>1 DEF Phase
    <3>3. CASE files["content"] # Absent
      BY <1>1, <1>3, <2>2, <2>3, <3>1, <3>3 DEF Phase
    <3>. QED
      BY <3>2, <3>3
  <2>5. ASSUME NEW q \in Savers, q # s PROVE Phase(q)'
    <3>1. save'[q] = save[q] /\ save[q].at \notin Putting /\ Phase(q)
      BY <1>3, <2>1, <2>2, <2>5 DEF AtRest
    <3>. QED
      BY <2>3, <3>1 DEF Phase, Putting
  <2>6. ~AtRest'
    BY <1>2, <1>3 DEF AtRest
  <2>. QED
    BY <2>4, <2>5, <2>6
<1>. QED
  BY <1>5, <1>6, <1>8, <1>9 DEF StoreInv

(* A load changes nothing but what its loader has.                         *)
LEMMA LoadsKeep ==
    ASSUME StoreInv, NEW l \in Loaders, GetsObject(l) \/ ReadsContent(l) \/ ReadsMeta(l)
    PROVE  StoreInv'
<1>0. /\ StoreTyped /\ Unharmed /\ Sequential /\ InOrder /\ StoreTypeOK
      /\ load \in [Loaders -> [at : {"none", "meta", "loaded"} \cup Errors,
                               bytes : {Absent, Partial, Bytes}]]
  BY DEF StoreInv, StoreTyped, StoreTypeOK
<1>1. UNCHANGED <<setting, files, open, save, indexed, first>>
  BY DEF GetsObject, ReadsContent, ReadsMeta, Loads
<1>2. \A bytes, want : Decoded(bytes, want) \in {"loaded"} \cup Errors
  BY DEF Decoded, Errors
<1>3. PICK at \in {"none", "meta", "loaded"} \cup Errors, bytes \in {Absent, Partial, Bytes} :
        /\ load' = [load EXCEPT ![l] = [at |-> at, bytes |-> bytes]]
        /\ at \in {"meta", "loaded"} =>
             \/ bytes = Bytes
             \/ bytes = files["content"] /\ files["content"] # Absent
             \/ load[l].at = "meta" /\ bytes = load[l].bytes
  <2>1. CASE GetsObject(l)
    <3>2. CASE LoadAnswers(l, Absent, "NOT_FOUND") \/ LoadAnswers(l, Absent, "STORE_ERROR")
      BY <3>2 DEF LoadAnswers, Errors
    <3>3. CASE \E want \in Types \cup {Absent} : LoadAnswers(l, Bytes, Decoded(Bytes, want))
      BY <1>2, <3>3 DEF LoadAnswers, Errors
    <3>. QED
      BY <2>1, <3>2, <3>3 DEF GetsObject
  <2>2. CASE ReadsContent(l)
    <3>1. files["content"] \in {Absent, Partial, Bytes}
      BY <1>0 DEF StoreTyped
    <3>2. CASE LoadAnswers(l, Absent, "NOT_FOUND") \/ LoadAnswers(l, Absent, "STORE_ERROR")
      BY <3>2 DEF LoadAnswers, Errors
    <3>3. CASE files["content"] # Absent /\ LoadAnswers(l, files["content"], "meta")
      BY <3>1, <3>3 DEF LoadAnswers, Errors
    <3>4. CASE \E at \in {"loaded", "TYPE_MISMATCH"} : LoadAnswers(l, Bytes, at)
      BY <3>4 DEF LoadAnswers, Errors
    <3>. QED
      BY <2>2, <3>2, <3>3, <3>4 DEF ReadsContent
  <2>3. CASE ReadsMeta(l)
    <3>1. load[l].bytes \in {Absent, Partial, Bytes} /\ load[l].at = "meta"
      BY <1>0, <2>3 DEF ReadsMeta, Loads
    <3>2. CASE LoadAnswers(l, load[l].bytes, "STORE_ERROR")
      BY <3>1, <3>2 DEF LoadAnswers, Errors
    <3>3. CASE \E want \in Types \cup {Absent} :
                  LoadAnswers(l, load[l].bytes, Decoded(load[l].bytes, want))
      BY <1>2, <3>1, <3>3 DEF LoadAnswers, Errors
    <3>. QED
      BY <2>3, <3>2, <3>3 DEF ReadsMeta
  <2>. QED
    BY <2>1, <2>2, <2>3
<1>4. /\ load' \in [Loaders -> [at : {"none", "meta", "loaded"} \cup Errors,
                                bytes : {Absent, Partial, Bytes}]]
      /\ load'[l].at = at /\ load'[l].bytes = bytes /\ \A m \in Loaders \ {l} : load'[m] = load[m]
  BY <1>0, <1>3
<1>5. StoreTyped'
  <2>1. StoreTypeOK'
    BY <1>0, <1>1, <1>4 DEF StoreTypeOK
  <2>2. \A s \in Savers : Holds(s)'
    BY <1>0, <1>1 DEF StoreTyped, Holds
  <2>. QED
    BY <1>0, <1>1, <2>1, <2>2 DEF StoreTyped
<1>6. Unharmed'
  BY <1>0, <1>1 DEF Unharmed, WrittenOrWhole, Whole, Tidies
<1>7. Sequential'
  <2>. SUFFICES ASSUME OneAtATime' PROVE Sequential'
    BY DEF Sequential
  <2>1. /\ \A s \in Savers : Alone(s) /\ InSequence(s)
        /\ files["content"] \in {Absent, Bytes} /\ files["meta"] \in {Absent} \cup Types
        /\ \A m \in Loaders : load[m].at \in {"meta", "loaded"} => load[m].bytes = Bytes
    BY <1>0, <1>1 DEF Sequential, OneAtATime
  <2>2. \A s \in Savers : Alone(s)' /\ InSequence(s)'
    BY <1>1, <2>1 DEF Alone, InSequence
  <2>3. at \in {"meta", "loaded"} => bytes = Bytes
    BY <1>3, <2>1
  <2>4. \A m \in Loaders : load'[m].at \in {"meta", "loaded"} => load'[m].bytes = Bytes
    BY <1>4, <2>1, <2>3
  <2>. QED
    BY <1>1, <2>1, <2>2, <2>4 DEF Sequential
<1>8. InOrder'
  BY <1>0, <1>1 DEF InOrder, OneAtATime, AtRest, Phase, IsStored
<1>. QED
  BY <1>5, <1>6, <1>7, <1>8 DEF StoreInv

(* Nothing is stored, and nobody saves.                                    *)
LEMMA StoreInvInit == StoreInit => StoreInv
<1>. SUFFICES ASSUME StoreInit PROVE StoreInv
  OBVIOUS
<1>1. PICK t \in Types : save = [s \in Savers |-> [at |-> "none", type |-> t, threw |-> FALSE]]
  BY DEF StoreInit
<1>2. /\ setting \in Setting /\ files = [p \in Paths |-> Absent]
      /\ open = [s \in Savers |-> "none"]
      /\ load = [l \in Loaders |-> [at |-> "none", bytes |-> Absent]]
      /\ indexed = NoRow /\ first = Absent
  BY SaversAssumption DEF StoreInit
<1>3. "none" \in Ended /\ "none" \notin Putting
  BY DEF Ended, Putting
<1>4. StoreTyped
  <2>1. StoreTypeOK
    BY <1>1, <1>2, <1>3 DEF StoreTypeOK
  <2>2. \A s \in Savers : Holds(s)
    BY <1>1, <1>2 DEF Holds
  <2>. QED
    BY <1>2, <2>1, <2>2, PathsAre DEF StoreTyped, PathsOk
<1>5. Unharmed
  BY <1>2, PathsAre DEF Unharmed, WrittenOrWhole, Whole, Tidies, PathsOk
<1>6. Sequential
  BY <1>1, <1>2, <1>3, PathsAre DEF Sequential, Alone, InSequence, PathsOk
<1>7. InOrder
  BY <1>1, <1>2, PathsAre DEF InOrder, Phase, PathsOk
<1>. QED
  BY <1>4, <1>5, <1>6, <1>7 DEF StoreInv

(* Each step keeps all four layers.                                        *)
LEMMA StoreInvNext == StoreInv /\ [StoreNext]_storeVars => StoreInv'
<1>. SUFFICES ASSUME StoreInv, [StoreNext]_storeVars PROVE StoreInv'
  OBVIOUS
<1>1. ASSUME NEW s \in Savers, NEW t \in Types, SavesNow(s, t) PROVE StoreInv'
  BY <1>1, SavesNowKeeps
<1>2. ASSUME NEW s \in Savers, PutsObject(s) \/ PutBytes(s) \/ Upserts(s) \/ Crashes(s)
      PROVE  StoreInv'
  <2>1. StoreTyped /\ Unharmed /\ Sequential /\ InOrder
    BY DEF StoreInv
  <2>2. StepKind(s)
    BY <1>2, <2>1, StepKinds
  <2>. QED
    BY <2>1, <2>2, KindsTyped, KindsUnharmed, KindsSequential, KindsInOrder DEF StoreInv
<1>3. ASSUME NEW l \in Loaders, GetsObject(l) \/ ReadsContent(l) \/ ReadsMeta(l) PROVE StoreInv'
  BY <1>3, LoadsKeep
<1>4. CASE UNCHANGED storeVars
  BY <1>4 DEF storeVars, StoreInv, StoreTyped, StoreTypeOK, Holds, Unharmed, WrittenOrWhole, Whole,
             Tidies, Sequential, OneAtATime, Alone, InSequence, InOrder, AtRest, Phase, IsStored
<1>. QED
  BY <1>1, <1>2, <1>3, <1>4 DEF StoreNext

(* The four layers together are the promise of the store.                  *)
LEMMA StoreInvIsWhole == StoreInv => StoreIsWhole
<1>. SUFFICES ASSUME StoreInv PROVE StoreIsWhole
  OBVIOUS
<1>0. /\ StoreTyped /\ Unharmed /\ Sequential /\ InOrder /\ StoreTypeOK
      /\ \A s \in Savers : Holds(s)
  BY DEF StoreInv, StoreTyped
<1>1. AtRest /\ ~setting.harmed =>
        /\ files["content"] \in {Absent, Bytes} /\ files["meta"] \in {Absent} \cup Types
        /\ files["content.tmp"] = Absent /\ files["meta.tmp"] = Absent
  <2>. SUFFICES ASSUME AtRest, ~setting.harmed
                PROVE  /\ files["content"] \in {Absent, Bytes} /\ files["meta"] \in {Absent} \cup Types
                       /\ files["content.tmp"] = Absent /\ files["meta.tmp"] = Absent
    OBVIOUS
  <2>1. \A s \in Savers : open[s] = "none"
    BY <1>0 DEF AtRest, Holds, Putting
  <2>2. \A p \in Paths : files[p] \in Whole(p)
    BY <1>0, <2>1 DEF Unharmed, WrittenOrWhole, Paths
  <2>3. files["content.tmp"] = Absent /\ files["meta.tmp"] = Absent
    BY <1>0 DEF Unharmed, Tidies, AtRest, UnlinksContent, UnlinksMeta, Putting
  <2>. QED
    BY <2>2, <2>3, PathsAre DEF PathsOk, Whole
<1>2. FilesAreWhole
  BY <1>0, <1>1 DEF FilesAreWhole, Sequential
<1>3. SavedIsLoaded
  BY <1>0 DEF SavedIsLoaded, Sequential, InOrder, Phase, IsStored
<1>. QED
  BY <1>0, <1>2, <1>3 DEF StoreIsWhole

(* The files of the store are whole at rest, and at every moment when saves*)
(* do not overlap, and what has been saved can be loaded whole.            *)
THEOREM FilesStayWhole == StoreSpec => []StoreIsWhole
<1>1. StoreInit => StoreInv
  BY StoreInvInit
<1>2. StoreInv /\ [StoreNext]_storeVars => StoreInv'
  BY StoreInvNext
<1>3. StoreInv => StoreIsWhole
  BY StoreInvIsWhole
<1>. QED
  BY <1>1, <1>2, <1>3, PTL DEF StoreSpec

-----------------------------------------------------------------------------
(* The limiter's slots                                                     *)

Asked(j) == {SlotEvent("requested", j)}
Granted(j) == {SlotEvent("granted", j)}
SlotEvents == [type : {"requested", "finished", "granted", "denied"}, job : Jobs]
OfType(t, type) == {x \in SlotEvents : x.type = type /\ ToolOf[x.job] = t}
KnownJob(j) == ToolOf[j] \in Tools
KnownEvents == {x \in SlotEvents : x.type # "requested" => KnownJob(x.job)}
Waiting(j) == IF KnownJob(j) THEN Count(queue[ToolOf[j]], {j}) ELSE 0

SlotsTyped ==
    /\ limit \in Limits /\ count \in [Tools -> Nat]
    /\ queue \in [Tools -> Seq(Jobs)] /\ \A t \in Tools : queue[t] \in Seq(OfTool(t))
    /\ inOrder \in [Tools -> Seq(Jobs)] /\ grants \in [Tools -> Seq(Jobs)]
    /\ subscribed \in BOOLEAN
    /\ slotBus \in Seq(KnownEvents)
    /\ asked \in [Jobs -> 0 .. MaxAsks] /\ held \in [Jobs -> Nat]
    /\ strays \in 0 .. MaxStrays[limit]
    /\ \A j \in Jobs : held[j] > 0 => KnownJob(j)

(* A slot that a job has, or is about to have, is one that it asked for.   *)
ClaimsAsked(j) == held[j] + Count(slotBus, Granted(j)) + Count(slotBus, Asked(j)) + Waiting(j)
                    <= asked[j]

ToolIsExact(t) == CountIsHeld(t) /\ DecidesOnce(t) /\ FirstComeFirst(t)

SlotsInv == /\ SlotsTyped
            /\ \A j \in Jobs : ClaimsAsked(j)
            /\ \A t \in Tools : ToolIsExact(t)

-----------------------------------------------------------------------------
(* The jobs of a tool are finitely many.                                   *)
LEMMA ToolsJobs == \A t : IsFiniteSet(OfTool(t)) /\ OfTool(t) \subseteq Jobs
BY LimiterAssumption, FS_Subset DEF OfTool

(* The slots held of a tool are a sum over its jobs, now and after a step. *)
LEMMA HeldIsSum == \A t : Held(t) = SumOver(held, OfTool(t))
BY ToolsJobs, FoldIsSum DEF Held

LEMMA HeldWillBeSum == \A t : Held(t)' = SumOver(held', OfTool(t))
<1>1. (\A t : Held(t) = SumOver(held, OfTool(t)))'
  BY HeldIsSum, PTL
<1>. QED
  BY <1>1

(* That sum is a natural number.                                           *)
LEMMA HeldTyped ==
    ASSUME NEW t, held \in [Jobs -> Nat]
    PROVE  Held(t) \in Nat
<1>1. IsFiniteSet(OfTool(t)) /\ \A j \in OfTool(t) : held[j] \in Nat
  BY ToolsJobs
<1>. QED
  BY <1>1, HeldIsSum, SumNat

(* A job takes a slot, or gives one back.                                  *)
LEMMA HeldTakes ==
    ASSUME NEW t, NEW j \in Jobs, held \in [Jobs -> Nat],
           held' = [held EXCEPT ![j] = @ + 1]
    PROVE  Held(t)' = Held(t) + (IF ToolOf[j] = t THEN 1 ELSE 0)
<1>. DEFINE S == OfTool(t)
            f == held
            g == held'
            T == {j}
<1>1. IsFiniteSet(S) /\ \A k \in S : f[k] \in Nat
  BY ToolsJobs
<1>2. \A k \in S : g[k] = f[k] + (IF k \in T THEN 1 ELSE 0)
  BY ToolsJobs
<1>3. /\ j \in S <=> ToolOf[j] = t
      /\ Held(t) = SumOver(f, S) /\ Held(t)' = SumOver(g, S)
  BY HeldIsSum, HeldWillBeSum DEF OfTool
<1>. HIDE DEF S, f, g, T
<1>4. SumOver(g, S) = SumOver(f, S) + Cardinality(S \cap T)
  BY <1>1, <1>2, SumShift
<1>5. Cardinality(S \cap T) = IF j \in S THEN 1 ELSE 0
  BY OneAtMost DEF T
<1>. QED
  BY <1>3, <1>4, <1>5 DEF T

-----------------------------------------------------------------------------
(* What the bus holds.                                                     *)
LEMMA KnownSeq == \A q \in Seq(KnownEvents) : q \in Seq(SlotEvents)
BY DEF KnownEvents

(* The events of a tool and type on the bus are a count of places.         *)
LEMMA OnBusCounts ==
    ASSUME slotBus \in Seq(KnownEvents), NEW t, NEW type
    PROVE  OnBus(t, type) = Count(slotBus, OfType(t, type)) /\ OnBus(t, type) \in Nat
<1>1. slotBus \in Seq(SlotEvents)
  BY KnownSeq
<1>2. \A k \in DOMAIN slotBus : slotBus[k] \in SlotEvents
  BY <1>1
<1>3. {k \in DOMAIN slotBus : slotBus[k].type = type /\ ToolOf[slotBus[k].job] = t}
        = Places(slotBus, OfType(t, type))
  BY <1>2 DEF Places, OfType
<1>4. OnBus(t, type) = Count(slotBus, OfType(t, type))
  BY <1>3 DEF OnBus, Count
<1>. QED
  BY <1>1, <1>4, CountFinite

LEMMA OnBusWillCount ==
    ASSUME slotBus' \in Seq(KnownEvents), NEW t, NEW type
    PROVE  OnBus(t, type)' = Count(slotBus', OfType(t, type)) /\ OnBus(t, type)' \in Nat
<1>1. slotBus' \in Seq(SlotEvents)
  BY KnownSeq
<1>2. \A k \in DOMAIN slotBus' : slotBus'[k] \in SlotEvents
  BY <1>1
<1>3. {k \in DOMAIN slotBus' : slotBus'[k].type = type /\ ToolOf[slotBus'[k].job] = t}
        = Places(slotBus', OfType(t, type))
  BY <1>2 DEF Places, OfType
<1>4. OnBus(t, type)' = Count(slotBus', OfType(t, type))
  BY <1>3 DEF OnBus, Count
<1>. QED
  BY <1>1, <1>4, CountFinite

Of(x, t, type) == IF x.type = type /\ ToolOf[x.job] = t THEN 1 ELSE 0
Is(x, j, type) == IF x.type = type /\ x.job = j THEN 1 ELSE 0

(* An event more.                                                          *)
LEMMA BusGrows ==
    ASSUME slotBus \in Seq(KnownEvents), NEW x \in KnownEvents,
           slotBus' = Append(slotBus, x)
    PROVE  /\ slotBus' \in Seq(KnownEvents)
           /\ \A t, type : OnBus(t, type)' = OnBus(t, type) + Of(x, t, type)
           /\ \A j \in Jobs :
                /\ Count(slotBus', Asked(j)) = Count(slotBus, Asked(j)) + Is(x, j, "requested")
                /\ Count(slotBus', Granted(j)) = Count(slotBus, Granted(j)) + Is(x, j, "granted")
<1>0. slotBus' \in Seq(KnownEvents) /\ x \in SlotEvents
  BY DEF KnownEvents
<1>1. \A T : Count(slotBus', T) = Count(slotBus, T) + (IF x \in T THEN 1 ELSE 0)
  BY CountAppend
<1>2. \A t, type : (x \in OfType(t, type)) <=> (x.type = type /\ ToolOf[x.job] = t)
  BY <1>0 DEF OfType
<1>3. \A j \in Jobs : /\ (x \in Asked(j)) <=> (x.type = "requested" /\ x.job = j)
                      /\ (x \in Granted(j)) <=> (x.type = "granted" /\ x.job = j)
  BY <1>0 DEF Asked, Granted, SlotEvent, SlotEvents
<1>4. \A t, type : OnBus(t, type)' = OnBus(t, type) + Of(x, t, type)
  BY <1>0, <1>1, <1>2, OnBusCounts, OnBusWillCount DEF Of
<1>. QED
  BY <1>0, <1>1, <1>3, <1>4 DEF Is

(* The first event is handed on, and makes none.                           *)
LEMMA BusShrinks ==
    ASSUME slotBus \in Seq(KnownEvents), slotBus # <<>>, slotBus' = Tail(slotBus)
    PROVE  /\ slotBus' \in Seq(KnownEvents) /\ Head(slotBus) \in KnownEvents
           /\ \A t, type : OnBus(t, type) = OnBus(t, type)' + Of(Head(slotBus), t, type)
           /\ \A j \in Jobs :
                /\ Count(slotBus, Asked(j))
                     = Count(slotBus', Asked(j)) + Is(Head(slotBus), j, "requested")
                /\ Count(slotBus, Granted(j))
                     = Count(slotBus', Granted(j)) + Is(Head(slotBus), j, "granted")
<1>. DEFINE x == Head(slotBus)
<1>0. slotBus' \in Seq(KnownEvents) /\ x \in KnownEvents /\ x \in SlotEvents
  BY EmptySeq, HeadTailProperties DEF KnownEvents
<1>1. \A T : Count(slotBus, T) = Count(slotBus', T) + (IF x \in T THEN 1 ELSE 0)
  BY CountTail
<1>. HIDE DEF x
<1>2. \A t, type : (x \in OfType(t, type)) <=> (x.type = type /\ ToolOf[x.job] = t)
  BY <1>0 DEF OfType
<1>3. \A j \in Jobs : /\ (x \in Asked(j)) <=> (x.type = "requested" /\ x.job = j)
                      /\ (x \in Granted(j)) <=> (x.type = "granted" /\ x.job = j)
  BY <1>0 DEF Asked, Granted, SlotEvent, SlotEvents
<1>4. \A t, type : OnBus(t, type) = OnBus(t, type)' + Of(x, t, type)
  BY <1>0, <1>1, <1>2, OnBusCounts, OnBusWillCount DEF Of
<1>5. \A j \in Jobs :
         /\ Count(slotBus, Asked(j)) = Count(slotBus', Asked(j)) + Is(x, j, "requested")
         /\ Count(slotBus, Granted(j)) = Count(slotBus', Granted(j)) + Is(x, j, "granted")
  BY <1>1, <1>3 DEF Is
<1>. QED
  BY <1>0, <1>4, <1>5 DEF x

(* The first event is handed on, and is answered by another.               *)
LEMMA BusTurns ==
    ASSUME slotBus \in Seq(KnownEvents), slotBus # <<>>, NEW y \in KnownEvents,
           slotBus' = Append(Tail(slotBus), y)
    PROVE  /\ slotBus' \in Seq(KnownEvents) /\ Head(slotBus) \in KnownEvents
           /\ \A t, type : OnBus(t, type)' + Of(Head(slotBus), t, type)
                            = OnBus(t, type) + Of(y, t, type)
           /\ \A j \in Jobs :
                /\ Count(slotBus', Asked(j)) + Is(Head(slotBus), j, "requested")
                     = Count(slotBus, Asked(j)) + Is(y, j, "requested")
                /\ Count(slotBus', Granted(j)) + Is(Head(slotBus), j, "granted")
                     = Count(slotBus, Granted(j)) + Is(y, j, "granted")
<1>. DEFINE x == Head(slotBus)
            rest == Tail(slotBus)
<1>0. /\ rest \in Seq(KnownEvents) /\ x \in KnownEvents /\ x \in SlotEvents
      /\ y \in SlotEvents
  BY EmptySeq, HeadTailProperties DEF KnownEvents
<1>1. \A T : Count(slotBus, T) = Count(rest, T) + (IF x \in T THEN 1 ELSE 0)
  BY CountTail
<1>2. slotBus' \in Seq(KnownEvents)
  BY <1>0
<1>3. \A T : Count(slotBus', T) = Count(rest, T) + (IF y \in T THEN 1 ELSE 0)
  BY <1>0, CountAppend
<1>4. \A T : Count(rest, T) \in Nat
  BY <1>0, CountFinite
<1>. HIDE DEF x, rest
<1>5. \A t, type : /\ (x \in OfType(t, type)) <=> (x.type = type /\ ToolOf[x.job] = t)
                   /\ (y \in OfType(t, type)) <=> (y.type = type /\ ToolOf[y.job] = t)
  BY <1>0 DEF OfType
<1>6. \A j \in Jobs : /\ (x \in Asked(j)) <=> (x.type = "requested" /\ x.job = j)
                      /\ (x \in Granted(j)) <=> (x.type = "granted" /\ x.job = j)
                      /\ (y \in Asked(j)) <=> (y.type = "requested" /\ y.job = j)
                      /\ (y \in Granted(j)) <=> (y.type = "granted" /\ y.job = j)
  BY <1>0 DEF Asked, Granted, SlotEvent, SlotEvents
<1>7. \A t, type : OnBus(t, type)' + Of(x, t, type) = OnBus(t, type) + Of(y, t, type)
  <2>. TAKE t, type
  <2>1. /\ OnBus(t, type)' = Count(slotBus', OfType(t, type))
        /\ OnBus(t, type) = Count(slotBus, OfType(t, type))
    BY <1>2, OnBusCounts, OnBusWillCount
  <2>. QED
    BY <1>1, <1>3, <1>4, <1>5, <2>1 DEF Of
<1>8. \A j \in Jobs :
         /\ Count(slotBus', Asked(j)) + Is(x, j, "requested")
              = Count(slotBus, Asked(j)) + Is(y, j, "requested")
         /\ Count(slotBus', Granted(j)) + Is(x, j, "granted")
              = Count(slotBus, Granted(j)) + Is(y, j, "granted")
  BY <1>1, <1>3, <1>4, <1>6 DEF Is
<1>. QED
  BY <1>0, <1>2, <1>7, <1>8 DEF x

-----------------------------------------------------------------------------
(* An event makes one decision at most.                                    *)
Grants(t, j, n) ==
    /\ count' = [count EXCEPT ![t] = n]
    /\ grants' = [grants EXCEPT ![t] = Append(@, j)]
    /\ slotBus' = Append(Tail(slotBus), SlotEvent("granted", j))

(* Nobody from the queue.                                                  *)
LEMMA NobodyQueued ==
    ASSUME NEW S, NEW q \in Seq(S), NEW free \in Nat, q = <<>> \/ free = 0
    PROVE  /\ FromQueue(q, free) = <<>> /\ Len(FromQueue(q, free)) = 0
           /\ SubSeq(q, 1, Len(q)) = q
<1>1. FromQueue(q, free) = <<>>
  BY DEF FromQueue
<1>2. SubSeq(q, 1, Len(q)) = q
  OBVIOUS
<1>. QED
  BY <1>1, <1>2

(* The first of the queue.                                                 *)
LEMMA FirstQueued ==
    ASSUME NEW S, NEW q \in Seq(S), q # <<>>
    PROVE  /\ FromQueue(q, 1) = <<Head(q)>> /\ Head(q) \in S
           /\ SubSeq(q, 2, Len(q)) = Tail(q) /\ Tail(q) \in Seq(S)
<1>1. Len(q) \in Nat \ {0} /\ Head(q) = q[1] /\ q[1] \in S
  BY EmptySeq
<1>2. FromQueue(q, 1) = SubSeq(q, 1, 1)
  BY <1>1 DEF FromQueue
<1>3. SubSeq(q, 1, 1) = <<q[1]>>
  <2>1. /\ SubSeq(q, 1, 1) \in Seq(S) /\ Len(SubSeq(q, 1, 1)) = 1
        /\ SubSeq(q, 1, 1)[1] = q[1]
    BY <1>1, SubSeqProperties
  <2>2. <<q[1]>> \in Seq(S) /\ Len(<<q[1]>>) = 1 /\ <<q[1]>>[1] = q[1]
    BY <1>1
  <2>3. \A i \in 1 .. Len(SubSeq(q, 1, 1)) : SubSeq(q, 1, 1)[i] = <<q[1]>>[i]
    BY <2>1, <2>2
  <2>. QED
    BY <2>1, <2>2, <2>3, SeqEqual
<1>4. SubSeq(q, 2, Len(q)) = Tail(q) /\ Tail(q) \in Seq(S)
  BY <1>1
<1>. QED
  BY <1>1, <1>2, <1>3, <1>4

(* Appending one element is appending a sequence of one.                   *)
LEMMA ConcatOne ==
    ASSUME NEW S, NEW q \in Seq(S), NEW x \in S
    PROVE  q \o <<x>> = Append(q, x) /\ q \o <<>> = q /\ (q \o <<>>) \o <<x>> = Append(q, x)
                                     /\ (q \o <<x>>) \o <<>> = Append(q, x)
OBVIOUS

(* A decision on nobody, on one who gets a slot, or on one who does not.   *)
LEMMA DecidedNone ==
    ASSUME SlotsTyped, NEW t \in Tools, NEW n \in Nat, slotBus # <<>>,
           Decided(t, n, <<>>, <<>>, <<>>)
    PROVE  /\ count' = [count EXCEPT ![t] = n] /\ queue' = queue /\ grants' = grants
           /\ slotBus' = Tail(slotBus)
<1>1. Tail(slotBus) \in Seq(KnownEvents) /\ queue[t] \in Seq(Jobs) /\ grants[t] \in Seq(Jobs)
  BY EmptySeq, HeadTailProperties DEF SlotsTyped
<1>2. /\ [k \in DOMAIN <<>> |-> SlotEvent("granted", <<>>[k])] = <<>>
      /\ [k \in DOMAIN <<>> |-> SlotEvent("denied", <<>>[k])] = <<>>
      /\ (Tail(slotBus) \o <<>>) \o <<>> = Tail(slotBus)
  BY <1>1
<1>3. slotBus' = Tail(slotBus)
  BY <1>2 DEF Decided
<1>4. count' = [count EXCEPT ![t] = n]
  BY DEF Decided
<1>5. SubSeq(queue[t], Len(<<>>) + 1, Len(queue[t])) \o <<>> = queue[t] /\ grants[t] \o <<>> = grants[t]
  BY <1>1
<1>6. queue' = [queue EXCEPT ![t] = queue[t]] /\ grants' = [grants EXCEPT ![t] = grants[t]]
  BY <1>5 DEF Decided
<1>7. queue' = queue /\ grants' = grants
  BY <1>6 DEF SlotsTyped
<1>. QED
  BY <1>3, <1>4, <1>7

(* One slot, for a job that does not come from the queue.                  *)
LEMMA DecidedGrant ==
    ASSUME SlotsTyped, NEW t \in Tools, NEW n \in Nat, slotBus # <<>>, NEW j \in Jobs,
           KnownJob(j), Decided(t, n, <<>>, <<j>>, <<>>)
    PROVE  Grants(t, j, n + 1) /\ queue' = queue
<1>0. SlotEvent("granted", j) \in KnownEvents
  BY DEF KnownEvents, SlotEvents, SlotEvent, KnownJob
<1>1. Tail(slotBus) \in Seq(KnownEvents) /\ queue[t] \in Seq(Jobs) /\ grants[t] \in Seq(Jobs)
  BY EmptySeq, HeadTailProperties DEF SlotsTyped
<1>2. /\ [k \in DOMAIN <<j>> |-> SlotEvent("granted", <<j>>[k])] = <<SlotEvent("granted", j)>>
      /\ [k \in DOMAIN <<>> |-> SlotEvent("denied", <<>>[k])] = <<>>
  OBVIOUS
<1>3. (Tail(slotBus) \o <<SlotEvent("granted", j)>>) \o <<>>
         = Append(Tail(slotBus), SlotEvent("granted", j))
  BY <1>0, <1>1, ConcatOne
<1>4. slotBus' = Append(Tail(slotBus), SlotEvent("granted", j))
  BY <1>2, <1>3 DEF Decided
<1>5. /\ Len(<<j>>) = 1 /\ grants[t] \o <<j>> = Append(grants[t], j)
      /\ SubSeq(queue[t], Len(<<>>) + 1, Len(queue[t])) \o <<>> = queue[t]
  BY <1>1, ConcatOne
<1>6. /\ count' = [count EXCEPT ![t] = n + 1] /\ queue' = [queue EXCEPT ![t] = queue[t]]
      /\ grants' = [grants EXCEPT ![t] = Append(@, j)]
  BY <1>5 DEF Decided
<1>7. queue' = queue
  BY <1>6 DEF SlotsTyped
<1>. QED
  BY <1>4, <1>6, <1>7 DEF Grants

(* One slot, for the first of the queue.                                   *)
LEMMA DecidedFirst ==
    ASSUME SlotsTyped, NEW t \in Tools, NEW n \in Nat, slotBus # <<>>, NEW j \in Jobs,
           KnownJob(j), Decided(t, n, <<j>>, <<j>>, <<>>), queue[t] # <<>>
    PROVE  Grants(t, j, n + 1) /\ queue' = [queue EXCEPT ![t] = Tail(@)]
<1>0. SlotEvent("granted", j) \in KnownEvents
  BY DEF KnownEvents, SlotEvents, SlotEvent, KnownJob
<1>1. Tail(slotBus) \in Seq(KnownEvents) /\ queue[t] \in Seq(Jobs) /\ grants[t] \in Seq(Jobs)
  BY EmptySeq, HeadTailProperties DEF SlotsTyped
<1>2. /\ [k \in DOMAIN <<j>> |-> SlotEvent("granted", <<j>>[k])] = <<SlotEvent("granted", j)>>
      /\ [k \in DOMAIN <<>> |-> SlotEvent("denied", <<>>[k])] = <<>>
  OBVIOUS
<1>3. (Tail(slotBus) \o <<SlotEvent("granted", j)>>) \o <<>>
         = Append(Tail(slotBus), SlotEvent("granted", j))
  BY <1>0, <1>1, ConcatOne
<1>4. slotBus' = Append(Tail(slotBus), SlotEvent("granted", j))
  BY <1>2, <1>3 DEF Decided
<1>5a. SubSeq(queue[t], 2, Len(queue[t])) = Tail(queue[t]) /\ Tail(queue[t]) \in Seq(Jobs)
  BY <1>1, FirstQueued
<1>5. /\ Len(<<j>>) = 1 /\ grants[t] \o <<j>> = Append(grants[t], j)
      /\ SubSeq(queue[t], Len(<<j>>) + 1, Len(queue[t])) \o <<>> = Tail(queue[t])
  BY <1>1, <1>5a, ConcatOne
<1>6. /\ count' = [count EXCEPT ![t] = n + 1] /\ queue' = [queue EXCEPT ![t] = Tail(@)]
      /\ grants' = [grants EXCEPT ![t] = Append(@, j)]
  BY <1>5 DEF Decided
<1>. QED
  BY <1>4, <1>6 DEF Grants

(* No slot: the job joins the queue.                                       *)
LEMMA DecidedDeny ==
    ASSUME SlotsTyped, NEW t \in Tools, NEW n \in Nat, slotBus # <<>>, NEW j \in Jobs,
           KnownJob(j), Decided(t, n, <<>>, <<>>, <<j>>)
    PROVE  /\ count' = [count EXCEPT ![t] = n] /\ grants' = grants
           /\ queue' = [queue EXCEPT ![t] = Append(@, j)]
           /\ slotBus' = Append(Tail(slotBus), SlotEvent("denied", j))
<1>0. SlotEvent("denied", j) \in KnownEvents
  BY DEF KnownEvents, SlotEvents, SlotEvent, KnownJob
<1>1. Tail(slotBus) \in Seq(KnownEvents) /\ queue[t] \in Seq(Jobs) /\ grants[t] \in Seq(Jobs)
  BY EmptySeq, HeadTailProperties DEF SlotsTyped
<1>2. /\ [k \in DOMAIN <<j>> |-> SlotEvent("denied", <<j>>[k])] = <<SlotEvent("denied", j)>>
      /\ [k \in DOMAIN <<>> |-> SlotEvent("granted", <<>>[k])] = <<>>
  OBVIOUS
<1>3. (Tail(slotBus) \o <<>>) \o <<SlotEvent("denied", j)>>
         = Append(Tail(slotBus), SlotEvent("denied", j))
  BY <1>0, <1>1, ConcatOne
<1>4. slotBus' = Append(Tail(slotBus), SlotEvent("denied", j))
  BY <1>2, <1>3 DEF Decided
<1>5a. SubSeq(queue[t], 1, Len(queue[t])) = queue[t] /\ Len(<<>>) = 0
  BY <1>1
<1>5. /\ SubSeq(queue[t], Len(<<>>) + 1, Len(queue[t])) \o <<j>> = Append(queue[t], j)
      /\ grants[t] \o <<>> = grants[t] /\ n + Len(<<>>) = n
  <2>1. Len(<<>>) + 1 = 1 /\ n + Len(<<>>) = n
    BY <1>5a
  <2>2. queue[t] \o <<j>> = Append(queue[t], j) /\ grants[t] \o <<>> = grants[t]
    BY <1>1, ConcatOne
  <2>. QED
    BY <1>5a, <2>1, <2>2
<1>6. /\ count' = [count EXCEPT ![t] = n] /\ queue' = [queue EXCEPT ![t] = Append(@, j)]
      /\ grants' = [grants EXCEPT ![t] = grants[t]]
  BY <1>5 DEF Decided
<1>7. grants' = grants
  BY <1>6 DEF SlotsTyped
<1>. QED
  BY <1>4, <1>6, <1>7

(* What a request and a slot that is given back come to.                   *)
LEMMA RequestDecides ==
    ASSUME SlotsInv, NEW j \in Jobs, NEW t \in Tools, t = ToolOf[j], slotBus # <<>>,
           SlotRequested(j)
    PROVE  /\ inOrder' = [inOrder EXCEPT ![t] = Append(@, j)]
           /\ \/ /\ count[t] < limit[t] /\ queue[t] = <<>> /\ queue' = queue
                 /\ Grants(t, j, count[t] + 1)
              \/ /\ count[t] = limit[t] /\ count' = count /\ grants' = grants
                 /\ queue' = [queue EXCEPT ![t] = Append(@, j)]
                 /\ slotBus' = Append(Tail(slotBus), SlotEvent("denied", j))
<1>. DEFINE queued == FromQueue(queue[t], limit[t] - count[t])
            hasSlot == count[t] + Len(queued) < limit[t]
<1>1. /\ Decided(t, count[t], queued, queued \o IF hasSlot THEN <<j>> ELSE <<>>,
                 IF hasSlot THEN <<>> ELSE <<j>>)
      /\ inOrder' = [inOrder EXCEPT ![t] = Append(@, j)]
  BY DEF SlotRequested
<1>2. /\ count[t] \in Nat /\ limit[t] \in Nat /\ count[t] <= limit[t]
      /\ queue[t] \in Seq(Jobs) /\ (queue[t] # <<>> => count[t] = limit[t]) /\ SlotsTyped
      /\ count \in [Tools -> Nat] /\ KnownJob(j)
  BY LimiterAssumption DEF SlotsInv, SlotsTyped, ToolIsExact, CountIsHeld, DecidesOnce, KnownJob
<1>3. limit[t] - count[t] \in Nat /\ (queue[t] # <<>> => limit[t] - count[t] = 0)
  BY <1>2
<1>4. queued = <<>> /\ Len(queued) = 0
  BY <1>2, <1>3, NobodyQueued
<1>5. (hasSlot <=> count[t] < limit[t]) /\ <<>> \o <<j>> = <<j>> /\ <<>> \o <<>> = <<>>
  BY <1>2, <1>4
<1>. HIDE DEF queued
<1>6. CASE hasSlot
  <2>1. Decided(t, count[t], <<>>, <<j>>, <<>>)
    BY <1>1, <1>4, <1>5, <1>6
  <2>. QED
    BY <1>1, <1>2, <1>5, <1>6, <2>1, DecidedGrant
<1>7. CASE ~hasSlot
  <2>1. Decided(t, count[t], <<>>, <<>>, <<j>>)
    BY <1>1, <1>4, <1>5, <1>7
  <2>2. count[t] = limit[t] /\ [count EXCEPT ![t] = count[t]] = count
    BY <1>2, <1>5, <1>7
  <2>. QED
    BY <1>1, <1>2, <2>1, <2>2, DecidedDeny
<1>. QED
  BY <1>6, <1>7

(* A slot given back goes to the first of the queue, if there is one.      *)
LEMMA FinishDecides ==
    ASSUME SlotsInv, NEW j \in Jobs, NEW t \in Tools, t = ToolOf[j], slotBus # <<>>,
           SlotFinished(j)
    PROVE  /\ inOrder' = inOrder
           /\ \/ /\ queue[t] = <<>> \/ (count[t] = 0 /\ limit[t] = 0)
                 /\ count' = [count EXCEPT ![t] = Back(t)]
                 /\ queue' = queue /\ grants' = grants /\ slotBus' = Tail(slotBus)
              \/ /\ queue[t] # <<>> /\ count[t] = limit[t] /\ count[t] > 0 /\ count' = count
                 /\ queue' = [queue EXCEPT ![t] = Tail(@)]
                 /\ Head(queue[t]) \in OfTool(t) /\ Grants(t, Head(queue[t]), count[t])
<1>. DEFINE queued == FromQueue(queue[t], limit[t] - Back(t))
<1>1. Decided(t, Back(t), queued, queued, <<>>) /\ inOrder' = inOrder
  BY DEF SlotFinished
<1>2. /\ count[t] \in Nat /\ limit[t] \in Nat /\ count[t] <= limit[t]
      /\ queue[t] \in Seq(Jobs) /\ queue[t] \in Seq(OfTool(t))
      /\ (queue[t] # <<>> => count[t] = limit[t]) /\ SlotsTyped
      /\ count \in [Tools -> Nat]
  BY LimiterAssumption DEF SlotsInv, SlotsTyped, ToolIsExact, CountIsHeld, DecidesOnce
<1>3. Back(t) \in Nat /\ Back(t) <= limit[t] /\ limit[t] - Back(t) \in Nat
  BY <1>2 DEF Back
<1>. HIDE DEF queued
<1>4. CASE queue[t] = <<>> \/ limit[t] - Back(t) = 0
  <2>1. queued = <<>>
    BY <1>2, <1>3, <1>4, NobodyQueued DEF queued
  <2>2. queue[t] = <<>> \/ (count[t] = 0 /\ limit[t] = 0)
    BY <1>2, <1>4 DEF Back
  <2>. QED
    BY <1>1, <1>2, <1>3, <2>1, <2>2, DecidedNone
<1>5. CASE queue[t] # <<>> /\ limit[t] - Back(t) # 0
  <2>1. count[t] = limit[t] /\ count[t] > 0 /\ Back(t) = count[t] - 1 /\ limit[t] - Back(t) = 1
    BY <1>2, <1>5 DEF Back
  <2>. DEFINE waiting == Head(queue[t])
  <2>2. queued = <<waiting>> /\ waiting \in OfTool(t)
    BY <1>2, <1>5, <2>1, FirstQueued DEF queued
  <2>3. waiting \in Jobs /\ KnownJob(waiting)
    BY <2>2 DEF OfTool, KnownJob
  <2>. HIDE DEF waiting
  <2>4. Grants(t, waiting, Back(t) + 1) /\ queue' = [queue EXCEPT ![t] = Tail(@)]
    BY <1>1, <1>2, <1>3, <1>5, <2>2, <2>3, DecidedFirst
  <2>5. Back(t) + 1 = count[t]
    BY <1>2, <2>1
  <2>6. count' = count
    <3>1. count' = [count EXCEPT ![t] = count[t]]
      BY <2>4, <2>5 DEF Grants
    <3>. QED
      BY <1>2, <3>1
  <2>. QED
    BY <1>1, <1>5, <2>1, <2>2, <2>4, <2>5, <2>6 DEF waiting
<1>. QED
  BY <1>4, <1>5

-----------------------------------------------------------------------------
Out(t) == Held(t) + OnBus(t, "granted") + OnBus(t, "finished")

(* A tool of which nothing has moved, and one whose slots out moved with   *)
(* its count.                                                              *)
LEMMA ToolKept ==
    ASSUME SlotsTyped, SlotsTyped', NEW t \in Tools, ToolIsExact(t), limit' = limit,
           count'[t] = count[t], queue'[t] = queue[t], inOrder'[t] = inOrder[t],
           grants'[t] = grants[t], strays' = strays, subscribed' => subscribed,
           subscribed' => Out(t)' = Out(t)
    PROVE  ToolIsExact(t)'
<1>1. DecidesOnce(t)' /\ FirstComeFirst(t)'
  BY DEF ToolIsExact, DecidesOnce, FirstComeFirst
<1>2. count'[t] <= limit'[t]
  BY DEF ToolIsExact, CountIsHeld
<1>3. subscribed' => count'[t] <= Out(t)' /\ Out(t)' <= count'[t] + strays'
  BY DEF ToolIsExact, CountIsHeld, Out
<1>. QED
  BY <1>1, <1>2, <1>3 DEF ToolIsExact, CountIsHeld, Out

(* Nobody asks for more than is asked.                                     *)
LEMMA OutTyped ==
    ASSUME SlotsTyped, NEW t
    PROVE  /\ Held(t) \in Nat /\ OnBus(t, "granted") \in Nat /\ OnBus(t, "finished") \in Nat
           /\ Out(t) \in Nat
BY HeldTyped, OnBusCounts DEF SlotsTyped, Out

(* What a claim adds up are natural numbers.                               *)
LEMMA CountsTyped ==
    ASSUME SlotsTyped, NEW j \in Jobs
    PROVE  /\ Count(slotBus, Granted(j)) \in Nat /\ Count(slotBus, Asked(j)) \in Nat
           /\ Waiting(j) \in Nat /\ held[j] \in Nat /\ asked[j] \in 0 .. MaxAsks
<1>1. KnownJob(j) => queue[ToolOf[j]] \in Seq(Jobs)
  BY DEF SlotsTyped, KnownJob
<1>. QED
  BY <1>1, CountFinite DEF SlotsTyped, Waiting

(* Who waits is told by the queues alone.                                  *)
LEMMA WaitingKept ==
    ASSUME queue' = queue
    PROVE  \A j : Waiting(j)' = Waiting(j)
BY DEF Waiting, KnownJob

-----------------------------------------------------------------------------
(* The workers' own steps.                                                 *)
LEMMA SlotTypes ==
    ASSUME NEW j \in Jobs
    PROVE  /\ SlotEvent("requested", j) \in KnownEvents
           /\ KnownJob(j) => \A type \in {"finished", "granted", "denied"} :
                                  SlotEvent(type, j) \in KnownEvents
           /\ \A type : SlotEvent(type, j).type = type /\ SlotEvent(type, j).job = j
BY DEF SlotEvent, KnownEvents, SlotEvents

(* A job asks: one more claim, of one more request.                        *)
LEMMA AsksKeeps ==
    ASSUME SlotsInv, NEW j \in Jobs, Asks(j)
    PROVE  SlotsInv'
<1>. DEFINE x == SlotEvent("requested", j)
<1>1. /\ asked[j] < MaxAsks /\ asked' = [asked EXCEPT ![j] = @ + 1]
      /\ slotBus' = Append(slotBus, x) /\ held' = held /\ strays' = strays
      /\ count' = count /\ queue' = queue /\ subscribed' = subscribed
      /\ inOrder' = inOrder /\ grants' = grants /\ limit' = limit
  BY DEF Asks, Says
<1>2. x \in KnownEvents /\ x.type = "requested" /\ x.job = j /\ SlotsTyped
  BY SlotTypes DEF SlotsInv
<1>. HIDE DEF x
<1>3. /\ slotBus' \in Seq(KnownEvents)
      /\ \A t, type : OnBus(t, type)' = OnBus(t, type) + Of(x, t, type)
      /\ \A k \in Jobs :
           /\ Count(slotBus', Asked(k)) = Count(slotBus, Asked(k)) + Is(x, k, "requested")
           /\ Count(slotBus', Granted(k)) = Count(slotBus, Granted(k)) + Is(x, k, "granted")
  BY <1>1, <1>2, BusGrows DEF SlotsTyped
<1>4. SlotsTyped'
  <2>1. asked' \in [Jobs -> 0 .. MaxAsks]
    BY <1>1, <1>2, LimiterAssumption DEF SlotsTyped
  <2>. QED
    BY <1>1, <1>2, <1>3, <2>1 DEF SlotsTyped, OfTool, KnownJob
<1>5. \A k \in Jobs : ClaimsAsked(k)'
  <2>. TAKE k \in Jobs
  <2>1. ClaimsAsked(k) /\ Waiting(k)' = Waiting(k)
    BY <1>1, WaitingKept DEF SlotsInv
  <2>2. Is(x, k, "granted") = 0 /\ Is(x, k, "requested") = IF j = k THEN 1 ELSE 0
    BY <1>2 DEF Is
  <2>3. asked'[k] = asked[k] + IF j = k THEN 1 ELSE 0
    BY <1>1, <1>2, CountsTyped DEF SlotsTyped
  <2>. QED
    BY <1>1, <1>2, <1>3, <2>1, <2>2, <2>3, CountsTyped DEF ClaimsAsked
<1>6. \A t \in Tools : ToolIsExact(t)'
  <2>. TAKE t \in Tools
  <2>1. OnBus(t, "granted")' = OnBus(t, "granted") /\ OnBus(t, "finished")' = OnBus(t, "finished")
    BY <1>2, <1>3, OutTyped DEF Of
  <2>2. Held(t)' = Held(t)
    BY <1>1, HeldIsSum, HeldWillBeSum
  <2>3. Out(t)' = Out(t)
    BY <2>1, <2>2 DEF Out
  <2>. QED
    BY <1>1, <1>2, <1>4, <2>3, ToolKept DEF SlotsInv
<1>. QED
  BY <1>4, <1>5, <1>6 DEF SlotsInv

(* A job that gives a slot back holds one less.                            *)
LEMMA HeldGives ==
    ASSUME NEW t, NEW j \in Jobs, held \in [Jobs -> Nat], held[j] > 0,
           held' = [held EXCEPT ![j] = @ - 1]
    PROVE  Held(t) = Held(t)' + (IF ToolOf[j] = t THEN 1 ELSE 0)
<1>. DEFINE S == OfTool(t)
            f == held'
            g == held
            T == {j}
<1>0. /\ held' \in [Jobs -> Nat]
      /\ \A k \in Jobs : held[k] = held'[k] + (IF k \in {j} THEN 1 ELSE 0)
  OBVIOUS
<1>1. IsFiniteSet(S) /\ \A k \in S : f[k] \in Nat
  BY <1>0, ToolsJobs
<1>2. \A k \in S : g[k] = f[k] + (IF k \in T THEN 1 ELSE 0)
  BY <1>0, ToolsJobs
<1>3. /\ j \in S <=> ToolOf[j] = t
      /\ Held(t) = SumOver(g, S) /\ Held(t)' = SumOver(f, S)
  BY HeldIsSum, HeldWillBeSum DEF OfTool
<1>. HIDE DEF S, f, g, T
<1>4. SumOver(g, S) = SumOver(f, S) + Cardinality(S \cap T)
  BY <1>1, <1>2, SumShift
<1>5. Cardinality(S \cap T) = IF j \in S THEN 1 ELSE 0
  BY OneAtMost DEF T
<1>. QED
  BY <1>3, <1>4, <1>5

(* It says so on the bus, where the slot is still out.                     *)
LEMMA FinishesKeeps ==
    ASSUME SlotsInv, NEW j \in Jobs, Finishes(j)
    PROVE  SlotsInv'
<1>. DEFINE x == SlotEvent("finished", j)
<1>1. /\ held[j] > 0 /\ held' = [held EXCEPT ![j] = @ - 1]
      /\ slotBus' = Append(slotBus, x) /\ asked' = asked /\ strays' = strays
      /\ count' = count /\ queue' = queue /\ subscribed' = subscribed
      /\ inOrder' = inOrder /\ grants' = grants /\ limit' = limit
  BY DEF Finishes, Says
<1>2. x \in KnownEvents /\ x.type = "finished" /\ x.job = j /\ SlotsTyped
  BY <1>1, SlotTypes DEF SlotsInv, SlotsTyped
<1>. HIDE DEF x
<1>3. /\ slotBus' \in Seq(KnownEvents)
      /\ \A t, type : OnBus(t, type)' = OnBus(t, type) + Of(x, t, type)
      /\ \A k \in Jobs :
           /\ Count(slotBus', Asked(k)) = Count(slotBus, Asked(k)) + Is(x, k, "requested")
           /\ Count(slotBus', Granted(k)) = Count(slotBus, Granted(k)) + Is(x, k, "granted")
  BY <1>1, <1>2, BusGrows DEF SlotsTyped
<1>4. SlotsTyped'
  <2>1. /\ held' \in [Jobs -> Nat] /\ \A k \in Jobs : held'[k] <= held[k]
        /\ \A k \in Jobs : held'[k] > 0 => KnownJob(k)
    BY <1>1, <1>2 DEF SlotsTyped
  <2>. QED
    BY <1>1, <1>2, <1>3, <2>1 DEF SlotsTyped, OfTool, KnownJob
<1>5. \A k \in Jobs : ClaimsAsked(k)'
  <2>. TAKE k \in Jobs
  <2>1. ClaimsAsked(k) /\ Waiting(k)' = Waiting(k)
    BY <1>1, WaitingKept DEF SlotsInv
  <2>2. Is(x, k, "granted") = 0 /\ Is(x, k, "requested") = 0
    BY <1>2 DEF Is
  <2>3. held'[k] \in Nat /\ held'[k] <= held[k]
    BY <1>1, <1>2 DEF SlotsTyped
  <2>4. /\ Count(slotBus', Granted(k)) = Count(slotBus, Granted(k))
        /\ Count(slotBus', Asked(k)) = Count(slotBus, Asked(k)) /\ asked'[k] = asked[k]
        /\ Count(slotBus, Granted(k)) \in Nat /\ Count(slotBus, Asked(k)) \in Nat
        /\ Waiting(k) \in Nat /\ held[k] \in Nat /\ asked[k] \in Nat
    BY <1>1, <1>2, <1>3, <2>2, CountsTyped
  <2>. QED
    BY <2>1, <2>3, <2>4 DEF ClaimsAsked
<1>6. \A t \in Tools : ToolIsExact(t)'
  <2>. TAKE t \in Tools
  <2>1. /\ OnBus(t, "granted")' = OnBus(t, "granted")
        /\ OnBus(t, "finished")' = OnBus(t, "finished") + (IF ToolOf[j] = t THEN 1 ELSE 0)
    BY <1>2, <1>3, OutTyped DEF Of
  <2>2. Held(t) = Held(t)' + (IF ToolOf[j] = t THEN 1 ELSE 0)
    BY <1>1, <1>2, HeldGives DEF SlotsTyped
  <2>3. Held(t)' \in Nat
    BY <1>4, HeldTyped, HeldWillBeSum, HeldIsSum, ToolsJobs, SumNat DEF SlotsTyped
  <2>4. Out(t)' = Out(t)
    BY <1>2, <2>1, <2>2, <2>3, OutTyped DEF Out
  <2>. QED
    BY <1>1, <1>2, <1>4, <2>4, ToolKept DEF SlotsInv
<1>. QED
  BY <1>4, <1>5, <1>6 DEF SlotsInv

(* One that holds no slot says that it gives one back.                     *)
LEMMA StraysKeeps ==
    ASSUME SlotsInv, NEW j \in Jobs, Strays(j)
    PROVE  SlotsInv'
<1>. DEFINE x == SlotEvent("finished", j)
<1>1. /\ strays < MaxStrays[limit] /\ KnownJob(j) /\ strays' = strays + 1 /\ held' = held
      /\ slotBus' = Append(slotBus, x) /\ asked' = asked
      /\ count' = count /\ queue' = queue /\ subscribed' = subscribed
      /\ inOrder' = inOrder /\ grants' = grants /\ limit' = limit
  BY DEF Strays, Says, KnownJob
<1>2. x \in KnownEvents /\ x.type = "finished" /\ x.job = j /\ SlotsTyped
  BY <1>1, SlotTypes DEF SlotsInv
<1>. HIDE DEF x
<1>3. /\ slotBus' \in Seq(KnownEvents)
      /\ \A t, type : OnBus(t, type)' = OnBus(t, type) + Of(x, t, type)
      /\ \A k \in Jobs :
           /\ Count(slotBus', Asked(k)) = Count(slotBus, Asked(k)) + Is(x, k, "requested")
           /\ Count(slotBus', Granted(k)) = Count(slotBus, Granted(k)) + Is(x, k, "granted")
  BY <1>1, <1>2, BusGrows DEF SlotsTyped
<1>4. SlotsTyped'
  <2>1. strays' \in 0 .. MaxStrays'[limit']
    BY <1>1, <1>2, LimiterAssumption DEF SlotsTyped
  <2>. QED
    BY <1>1, <1>2, <1>3, <2>1 DEF SlotsTyped, OfTool, KnownJob
<1>5. \A k \in Jobs : ClaimsAsked(k)'
  <2>. TAKE k \in Jobs
  <2>1. ClaimsAsked(k) /\ Waiting(k)' = Waiting(k)
    BY <1>1, WaitingKept DEF SlotsInv
  <2>2. Is(x, k, "granted") = 0 /\ Is(x, k, "requested") = 0
    BY <1>2 DEF Is
  <2>. QED
    BY <1>1, <1>2, <1>3, <2>1, <2>2, CountsTyped DEF ClaimsAsked
<1>6. \A t \in Tools : ToolIsExact(t)'
  <2>. TAKE t \in Tools
  <2>1. /\ OnBus(t, "granted")' = OnBus(t, "granted")
        /\ OnBus(t, "finished")' = OnBus(t, "finished") + (IF ToolOf[j] = t THEN 1 ELSE 0)
    BY <1>2, <1>3, OutTyped DEF Of
  <2>2. Held(t)' = Held(t)
    BY <1>1, HeldIsSum, HeldWillBeSum
  <2>3. Out(t)' = Out(t) + (IF ToolOf[j] = t THEN 1 ELSE 0)
    BY <1>2, <2>1, <2>2, OutTyped DEF Out
  <2>4. /\ count[t] \in Nat /\ count[t] <= limit[t] /\ strays \in Nat /\ Out(t) \in Nat
        /\ (subscribed => count[t] <= Out(t) /\ Out(t) <= count[t] + strays)
        /\ DecidesOnce(t) /\ FirstComeFirst(t)
    BY <1>2, OutTyped DEF SlotsInv, SlotsTyped, ToolIsExact, CountIsHeld, Out
  <2>5. DecidesOnce(t)' /\ FirstComeFirst(t)'
    BY <1>1, <2>4 DEF DecidesOnce, FirstComeFirst
  <2>6. count'[t] <= limit'[t] /\ (subscribed' => count'[t] <= Out(t)' /\ Out(t)' <= count'[t] + strays')
    BY <1>1, <2>3, <2>4
  <2>. QED
    BY <2>5, <2>6 DEF ToolIsExact, CountIsHeld, Out
<1>. QED
  BY <1>4, <1>5, <1>6 DEF SlotsInv

(* The limiter unsubscribes.                                               *)
LEMMA StopsKeeps ==
    ASSUME SlotsInv, LimiterStops
    PROVE  SlotsInv'
<1>1. /\ subscribed' = FALSE
      /\ UNCHANGED <<limit, count, queue, slotBus, asked, held, strays, inOrder, grants>>
  BY DEF LimiterStops
<1>2. SlotsTyped'
  BY <1>1 DEF SlotsInv, SlotsTyped, OfTool, KnownJob
<1>3. \A k \in Jobs : ClaimsAsked(k)'
  BY <1>1 DEF SlotsInv, ClaimsAsked, Waiting, KnownJob
<1>4. \A t \in Tools : ToolIsExact(t)'
  BY <1>1 DEF SlotsInv, ToolIsExact, CountIsHeld, DecidesOnce, FirstComeFirst
<1>. QED
  BY <1>2, <1>3, <1>4 DEF SlotsInv

-----------------------------------------------------------------------------
(* The first event of the bus is handled.  One that the limiter does not   *)
(* decide on is dropped; a grant is a slot for its job.                    *)
LEMMA DropKeeps ==
    ASSUME SlotsInv, slotBus # <<>>, slotBus' = Tail(slotBus), NEW e, e = Head(slotBus),
           UNCHANGED <<limit, subscribed, asked, strays, count, queue, grants, inOrder>>,
           held' = IF e.type = "granted" THEN [held EXCEPT ![e.job] = @ + 1] ELSE held,
           \/ e.type \in {"granted", "denied"} \/ ~subscribed
           \/ e.type = "requested" /\ ~KnownJob(e.job)
    PROVE  SlotsInv'
<1>1. SlotsTyped
  BY DEF SlotsInv
<1>2. /\ slotBus' \in Seq(KnownEvents) /\ e \in KnownEvents
      /\ \A t, type : OnBus(t, type) = OnBus(t, type)' + Of(e, t, type)
      /\ \A j \in Jobs :
           /\ Count(slotBus, Asked(j)) = Count(slotBus', Asked(j)) + Is(e, j, "requested")
           /\ Count(slotBus, Granted(j)) = Count(slotBus', Granted(j)) + Is(e, j, "granted")
  BY <1>1, BusShrinks DEF SlotsTyped
<1>3. e.job \in Jobs /\ (e.type # "requested" => KnownJob(e.job))
  BY <1>2 DEF KnownEvents, SlotEvents
<1>4. /\ held' \in [Jobs -> Nat]
      /\ \A j \in Jobs : held'[j] = held[j] + Is(e, j, "granted")
      /\ \A j \in Jobs : held'[j] > 0 => KnownJob(j)
  BY <1>1, <1>3 DEF SlotsTyped, Is
<1>5. SlotsTyped'
  BY <1>1, <1>2, <1>4 DEF SlotsTyped, OfTool, KnownJob
<1>6. \A k \in Jobs : ClaimsAsked(k)'
  <2>. TAKE k \in Jobs
  <2>1. ClaimsAsked(k) /\ Waiting(k)' = Waiting(k) /\ asked'[k] = asked[k]
    BY WaitingKept DEF SlotsInv
  <2>2. /\ Count(slotBus', Asked(k)) \in Nat /\ Count(slotBus', Granted(k)) \in Nat
        /\ Is(e, k, "requested") \in Nat /\ Is(e, k, "granted") \in Nat
    BY <1>2, CountFinite DEF Is
  <2>3. /\ Count(slotBus, Asked(k)) = Count(slotBus', Asked(k)) + Is(e, k, "requested")
        /\ Count(slotBus, Granted(k)) = Count(slotBus', Granted(k)) + Is(e, k, "granted")
        /\ held'[k] = held[k] + Is(e, k, "granted")
    BY <1>2, <1>4
  <2>4. Waiting(k) \in Nat /\ held[k] \in Nat /\ asked[k] \in 0 .. MaxAsks
    BY <1>1, CountsTyped
  <2>. QED
    BY ONLY <2>1, <2>2, <2>3, <2>4, LimiterAssumption DEF ClaimsAsked
<1>7. \A t \in Tools : ToolIsExact(t)'
  <2>. TAKE t \in Tools
  <2>1. Held(t)' = Held(t) + (IF e.type = "granted" /\ ToolOf[e.job] = t THEN 1 ELSE 0)
    <3>1. CASE e.type = "granted"
      BY <1>1, <1>3, <3>1, HeldTakes DEF SlotsTyped
    <3>2. CASE e.type # "granted"
      BY <1>1, <3>2, HeldIsSum, HeldWillBeSum, OutTyped
    <3>. QED
      BY <3>1, <3>2
  <2>2. subscribed => OnBus(t, "finished") = OnBus(t, "finished")'
    BY <1>2, <1>3, OutTyped, OnBusWillCount DEF Of, KnownJob
  <2>3. OnBus(t, "granted") = OnBus(t, "granted")'
                              + (IF e.type = "granted" /\ ToolOf[e.job] = t THEN 1 ELSE 0)
    BY <1>2 DEF Of
  <2>4. OnBus(t, "granted")' \in Nat
    BY <1>2, OnBusWillCount
  <2>5. subscribed' => Out(t)' = Out(t)
    BY <1>1, <2>1, <2>2, <2>3, <2>4, OutTyped DEF Out
  <2>. QED
    BY <1>1, <1>5, <2>5, ToolKept DEF SlotsInv
<1>. QED
  BY <1>5, <1>6, <1>7 DEF SlotsInv

(* The first of a queue goes to the end of those before it.                *)
LEMMA FirstMoves ==
    ASSUME NEW S, NEW q \in Seq(S), NEW g \in Seq(S), q # <<>>
    PROVE  Append(g, Head(q)) \o Tail(q) = g \o q
<1>. DEFINE x == Head(q)
<1>1. x \in S /\ Tail(q) \in Seq(S) /\ <<x>> \in Seq(S)
  BY EmptySeq, HeadTailProperties
<1>2. q = <<x>> \o Tail(q)
  <2>0. Len(q) \in Nat \ {0} /\ Len(Tail(q)) = Len(q) - 1 /\ x = q[1]
    BY EmptySeq, HeadTailProperties
  <2>1. /\ <<x>> \o Tail(q) \in Seq(S) /\ Len(<<x>> \o Tail(q)) = Len(q)
    BY <1>1, <2>0
  <2>2. \A i \in 1 .. Len(q) : q[i] = (<<x>> \o Tail(q))[i]
    BY <1>1, <2>0
  <2>. QED
    BY <2>1, <2>2, SeqEqual
<1>. HIDE DEF x
<1>3. Append(g, x) = g \o <<x>>
  BY <1>1
<1>4. (g \o <<x>>) \o Tail(q) = g \o (<<x>> \o Tail(q))
  BY <1>1, ConcatAssociative
<1>. QED
  BY <1>2, <1>3, <1>4 DEF x

(* A grant: the slot of a request, or one that the queue waited for.       *)
FreshGrant(e, t, j, n) ==
    /\ e.type = "requested" /\ e.job = j /\ queue[t] = <<>> /\ count[t] < limit[t]
    /\ n = count[t] + 1 /\ queue' = queue
    /\ inOrder' = [inOrder EXCEPT ![t] = Append(@, j)]
QueueGrant(e, t, j, n) ==
    /\ e.type = "finished" /\ queue[t] # <<>> /\ count[t] = limit[t] /\ n = count[t]
    /\ count[t] > 0
    /\ j = Head(queue[t]) /\ queue' = [queue EXCEPT ![t] = Tail(@)]
    /\ inOrder' = inOrder
GrantFrame == UNCHANGED <<limit, subscribed, asked, strays, held>>

(* A slot is granted, to one who asks or to the first who waits.           *)
LEMMA GrantKeeps ==
    ASSUME SlotsInv, slotBus # <<>>, NEW e, e = Head(slotBus), GrantFrame, subscribed,
           NEW t \in Tools, t = ToolOf[e.job], NEW j \in OfTool(t), NEW n, Grants(t, j, n),
           FreshGrant(e, t, j, n) \/ QueueGrant(e, t, j, n)
    PROVE  SlotsInv'
<1>0. /\ limit' = limit /\ subscribed' = subscribed /\ asked' = asked /\ strays' = strays
      /\ held' = held /\ e.type \in {"requested", "finished"}
      /\ (e.type = "requested" => FreshGrant(e, t, j, n))
      /\ (e.type = "finished" => QueueGrant(e, t, j, n))
      /\ (e.type = "requested" => e.job = j)
  BY DEF GrantFrame, FreshGrant, QueueGrant
<1>. DEFINE y == SlotEvent("granted", j)
<1>1. /\ SlotsTyped /\ count[t] \in Nat /\ n \in Nat /\ j \in Jobs /\ KnownJob(j)
      /\ ToolOf[j] = t /\ queue[t] \in Seq(OfTool(t)) /\ queue[t] \in Seq(Jobs)
      /\ grants[t] \in Seq(Jobs) /\ inOrder[t] \in Seq(Jobs)
  <2>1. SlotsTyped /\ j \in Jobs /\ ToolOf[j] = t
    BY DEF SlotsInv, OfTool
  <2>2. count[t] \in Nat /\ n \in Nat
    BY <2>1 DEF SlotsTyped, FreshGrant, QueueGrant
  <2>. QED
    BY <2>1, <2>2 DEF SlotsTyped, KnownJob
<1>2. /\ count' = [count EXCEPT ![t] = n] /\ grants' = [grants EXCEPT ![t] = Append(@, j)]
      /\ slotBus' = Append(Tail(slotBus), y)
  BY DEF Grants
<1>3. y \in KnownEvents /\ y.type = "granted" /\ y.job = j
  BY <1>1, SlotTypes
<1>. HIDE DEF y
<1>4. /\ slotBus' \in Seq(KnownEvents) /\ e \in KnownEvents
      /\ \A u, type : OnBus(u, type)' + Of(e, u, type) = OnBus(u, type) + Of(y, u, type)
      /\ \A k \in Jobs :
           /\ Count(slotBus', Asked(k)) + Is(e, k, "requested")
                = Count(slotBus, Asked(k)) + Is(y, k, "requested")
           /\ Count(slotBus', Granted(k)) + Is(e, k, "granted")
                = Count(slotBus, Granted(k)) + Is(y, k, "granted")
  BY <1>1, <1>2, <1>3, BusTurns DEF SlotsTyped
<1>5. /\ queue' \in [Tools -> Seq(Jobs)] /\ \A u \in Tools : queue'[u] \in Seq(OfTool(u))
      /\ inOrder' \in [Tools -> Seq(Jobs)]
  <2>1. CASE FreshGrant(e, t, j, n)
    BY <1>1, <2>1 DEF SlotsTyped, FreshGrant
  <2>2. CASE QueueGrant(e, t, j, n)
    <3>1. queue' = [queue EXCEPT ![t] = Tail(@)] /\ inOrder' = inOrder /\ queue[t] # <<>>
      BY <2>2 DEF QueueGrant
    <3>2. Tail(queue[t]) \in Seq(OfTool(t)) /\ Tail(queue[t]) \in Seq(Jobs)
      BY <1>1, <3>1, EmptySeq, HeadTailProperties
    <3>. QED
      BY <1>1, <3>1, <3>2 DEF SlotsTyped
  <2>. QED
    BY <2>1, <2>2
<1>6. SlotsTyped'
  <2>1. count' \in [Tools -> Nat] /\ grants' \in [Tools -> Seq(Jobs)]
    BY <1>1, <1>2 DEF SlotsTyped
  <2>. QED
    BY <1>0, <1>1, <1>4, <1>5, <2>1 DEF SlotsTyped, OfTool, KnownJob
<1>7. \A k \in Jobs : /\ Waiting(k)' \in Nat
                      /\ Waiting(k)' + (IF e.type = "finished" /\ k = j THEN 1 ELSE 0) = Waiting(k)
  <2>. TAKE k \in Jobs
  <2>0. Waiting(k) \in Nat
    BY <1>1, CountsTyped
  <2>1. CASE FreshGrant(e, t, j, n)
    <3>1. Waiting(k)' = Waiting(k) /\ e.type = "requested"
      BY <2>1, WaitingKept DEF FreshGrant
    <3>. QED
      BY <2>0, <3>1
  <2>2. CASE QueueGrant(e, t, j, n)
    <3>1. /\ queue[t] # <<>> /\ j = Head(queue[t]) /\ queue' = [queue EXCEPT ![t] = Tail(@)]
          /\ e.type = "finished"
      BY <2>2 DEF QueueGrant
    <3>2. CASE ToolOf[k] = t
      <4>1. Count(queue[t], {k}) = Count(Tail(queue[t]), {k}) + (IF j \in {k} THEN 1 ELSE 0)
        BY <1>1, <3>1, CountTail
      <4>2. Waiting(k) = Count(queue[t], {k}) /\ Waiting(k)' = Count(Tail(queue[t]), {k})
        BY <1>1, <3>1, <3>2 DEF Waiting, KnownJob, SlotsTyped
      <4>4. Tail(queue[t]) \in Seq(Jobs)
        BY <1>1, <3>1, EmptySeq, HeadTailProperties
      <4>5. Waiting(k)' \in Nat
        BY <4>2, <4>4, CountFinite
      <4>. QED
        BY ONLY <3>1, <4>1, <4>2, <2>0, <4>5
    <3>3. CASE ToolOf[k] # t
      <4>1. Waiting(k)' = Waiting(k) /\ k # j
        BY <1>1, <3>1, <3>3 DEF Waiting, KnownJob, SlotsTyped
      <4>. QED
        BY <2>0, <4>1
    <3>. QED
      BY <3>2, <3>3
  <2>. QED
    BY <2>1, <2>2
<1>8. \A k \in Jobs : ClaimsAsked(k)'
  <2>. TAKE k \in Jobs
  <2>1. ClaimsAsked(k) /\ asked'[k] = asked[k] /\ held'[k] = held[k]
    BY <1>0 DEF SlotsInv
  <2>2. /\ Count(slotBus', Asked(k)) \in Nat /\ Count(slotBus', Granted(k)) \in Nat
        /\ Count(slotBus, Asked(k)) \in Nat /\ Count(slotBus, Granted(k)) \in Nat
        /\ Waiting(k) \in Nat /\ held[k] \in Nat /\ asked[k] \in 0 .. MaxAsks
    <3>1. Count(slotBus', Asked(k)) \in Nat /\ Count(slotBus', Granted(k)) \in Nat
      BY ONLY <1>4, CountFinite
    <3>. QED
      BY ONLY <1>1, <3>1, CountsTyped, k \in Jobs
  <2>3. /\ Is(y, k, "requested") = 0 /\ Is(y, k, "granted") = IF k = j THEN 1 ELSE 0
        /\ Is(e, k, "granted") = 0
        /\ Is(e, k, "requested") = IF e.type = "requested" /\ k = j THEN 1 ELSE 0
    BY <1>0, <1>3 DEF Is
  <2>4. /\ Count(slotBus', Asked(k)) + Is(e, k, "requested")
             = Count(slotBus, Asked(k)) + Is(y, k, "requested")
        /\ Count(slotBus', Granted(k)) + Is(e, k, "granted")
             = Count(slotBus, Granted(k)) + Is(y, k, "granted")
        /\ Waiting(k)' \in Nat
        /\ Waiting(k)' + (IF e.type = "finished" /\ k = j THEN 1 ELSE 0) = Waiting(k)
    BY <1>4, <1>7
  <2>. QED
    BY ONLY <1>0, <2>1, <2>2, <2>3, <2>4, LimiterAssumption DEF ClaimsAsked
<1>9. \A u \in Tools : Held(u)' = Held(u) /\ OnBus(u, "granted")' \in Nat
                         /\ OnBus(u, "finished")' \in Nat
  BY <1>0, <1>4, HeldIsSum, HeldWillBeSum, OnBusWillCount
<1>10. ASSUME NEW u \in Tools, u # t PROVE ToolIsExact(u)'
  <2>1. OnBus(u, "granted")' = OnBus(u, "granted") /\ OnBus(u, "finished")' = OnBus(u, "finished")
    <3>1. \A type : Of(e, u, type) = 0 /\ Of(y, u, type) = 0
      BY <1>1, <1>3, <1>10 DEF Of
    <3>. QED
      BY <1>1, <1>4, <1>9, <3>1, OutTyped
  <2>2. Out(u)' = Out(u)
    BY <1>9, <2>1 DEF Out
  <2>3. /\ count'[u] = count[u] /\ queue'[u] = queue[u] /\ inOrder'[u] = inOrder[u]
        /\ grants'[u] = grants[u]
    BY <1>1, <1>2, <1>10 DEF SlotsTyped, FreshGrant, QueueGrant
  <2>. QED
    BY <1>0, <1>1, <1>6, <2>2, <2>3, ToolKept DEF SlotsInv
<1>11. ToolIsExact(t)'
  <2>1. /\ OnBus(t, "granted")' = OnBus(t, "granted") + 1
        /\ OnBus(t, "finished")' + (IF e.type = "finished" THEN 1 ELSE 0) = OnBus(t, "finished")
    <3>1. /\ Of(e, t, "granted") = 0 /\ Of(y, t, "granted") = 1 /\ Of(y, t, "finished") = 0
          /\ Of(e, t, "finished") = IF e.type = "finished" THEN 1 ELSE 0
      BY <1>0, <1>1, <1>3 DEF Of
    <3>. QED
      BY <1>1, <1>4, <1>9, <3>1, OutTyped
  <2>2. /\ count[t] \in Nat /\ count[t] <= limit[t] /\ strays \in Nat /\ Out(t) \in Nat
        /\ limit[t] \in Nat /\ FirstComeFirst(t)
        /\ count[t] <= Out(t) /\ Out(t) <= count[t] + strays
    <3>1. ToolIsExact(t) /\ CountIsHeld(t) /\ FirstComeFirst(t)
      BY DEF SlotsInv, ToolIsExact
    <3>2. count[t] \in Nat /\ limit[t] \in Nat /\ strays \in Nat /\ Out(t) \in Nat
      BY <1>1, OutTyped, LimiterAssumption DEF SlotsTyped
    <3>. QED
      BY <3>1, <3>2 DEF CountIsHeld, Out
  <2>3. /\ Out(t)' \in Nat
        /\ Out(t)' + (IF e.type = "finished" THEN 1 ELSE 0) = Out(t) + 1
    <3>1. /\ Held(t)' = Held(t) /\ OnBus(t, "granted")' \in Nat /\ OnBus(t, "finished")' \in Nat
      BY <1>1, <1>9
    <3>2. /\ Held(t) \in Nat /\ OnBus(t, "granted") \in Nat /\ OnBus(t, "finished") \in Nat
      BY <1>1, OutTyped
    <3>3. Out(t)' = Held(t)' + OnBus(t, "granted")' + OnBus(t, "finished")'
      BY DEF Out
    <3>. QED
      BY ONLY <2>1, <3>1, <3>2, <3>3 DEF Out
  <2>4. /\ count'[t] = n /\ limit' = limit /\ strays' = strays /\ subscribed' = subscribed
        /\ grants'[t] = Append(grants[t], j)
    BY <1>0, <1>1, <1>2 DEF SlotsTyped
  <2>5. CASE e.type = "requested"
    <3>1. /\ n = count[t] + 1 /\ queue'[t] = <<>> /\ queue[t] = <<>> /\ count[t] < limit[t]
          /\ inOrder'[t] = Append(inOrder[t], j)
      BY <1>0, <1>1, <2>5 DEF SlotsTyped, FreshGrant
    <3>2. FirstComeFirst(t)'
      <4>1. inOrder[t] = grants[t]
        <5>1. grants[t] \o <<>> = grants[t]
          BY ONLY <1>1, ConcatEmptySeq
        <5>. QED
          BY ONLY <2>2, <3>1, <5>1 DEF FirstComeFirst
      <4>2. Append(grants[t], j) \o <<>> = Append(grants[t], j)
        BY ONLY <1>1, ConcatEmptySeq, AppendProperties
      <4>. QED
        BY ONLY <2>4, <3>1, <4>1, <4>2 DEF FirstComeFirst
    <3>3. n <= limit[t] /\ n <= Out(t)' /\ Out(t)' <= n + strays
      <4>1. Out(t)' = Out(t) + 1
        BY <2>3, <2>5
      <4>. QED
        BY ONLY <2>2, <3>1, <4>1
    <3>. QED
      BY ONLY <2>4, <3>1, <3>2, <3>3 DEF ToolIsExact, CountIsHeld, DecidesOnce, Out
  <2>6. CASE e.type = "finished"
    <3>1. /\ n = count[t] /\ queue'[t] = Tail(queue[t]) /\ queue[t] # <<>> /\ count[t] = limit[t]
          /\ inOrder' = inOrder /\ j = Head(queue[t])
      BY <1>0, <1>1, <2>6 DEF SlotsTyped, QueueGrant
    <3>2. FirstComeFirst(t)'
      <4>1. Append(grants[t], j) \o Tail(queue[t]) = grants[t] \o queue[t]
        BY ONLY <1>1, <3>1, FirstMoves
      <4>. QED
        BY ONLY <2>2, <2>4, <3>1, <4>1 DEF FirstComeFirst
    <3>3. n <= limit[t] /\ n <= Out(t)' /\ Out(t)' <= n + strays
      <4>1. Out(t)' = Out(t)
        BY <2>2, <2>3, <2>6
      <4>. QED
        BY ONLY <2>2, <3>1, <4>1
    <3>. QED
      BY ONLY <2>4, <3>1, <3>2, <3>3 DEF ToolIsExact, CountIsHeld, DecidesOnce, Out
  <2>. QED
    BY <1>0, <2>5, <2>6
<1>. QED
  BY <1>6, <1>8, <1>10, <1>11 DEF SlotsInv

(* One who is denied joins the end of those who asked.                     *)
LEMMA LastJoins ==
    ASSUME NEW S, NEW q \in Seq(S), NEW g \in Seq(S), NEW x \in S
    PROVE  g \o Append(q, x) = Append(g \o q, x)
<1>1. Append(q, x) = q \o <<x>> /\ g \o q \in Seq(S) /\ <<x>> \in Seq(S)
  OBVIOUS
<1>2. Append(g \o q, x) = (g \o q) \o <<x>>
  BY <1>1
<1>3. (g \o q) \o <<x>> = g \o (q \o <<x>>)
  BY <1>1, ConcatAssociative
<1>. QED
  BY <1>1, <1>2, <1>3

(* A denial: the limit is reached, and the job waits behind those who do.  *)
LEMMA DenyKeeps ==
    ASSUME SlotsInv, slotBus # <<>>, NEW e, e = Head(slotBus), GrantFrame, subscribed,
           NEW t \in Tools, NEW j \in OfTool(t), e.type = "requested", e.job = j,
           count[t] = limit[t], count' = count, grants' = grants,
           queue' = [queue EXCEPT ![t] = Append(@, j)],
           inOrder' = [inOrder EXCEPT ![t] = Append(@, j)],
           slotBus' = Append(Tail(slotBus), SlotEvent("denied", j))
    PROVE  SlotsInv'
<1>0. /\ limit' = limit /\ subscribed' = subscribed /\ asked' = asked /\ strays' = strays
      /\ held' = held
  BY DEF GrantFrame
<1>. DEFINE y == SlotEvent("denied", j)
<1>1. /\ SlotsTyped /\ j \in Jobs /\ KnownJob(j) /\ ToolOf[j] = t
      /\ queue[t] \in Seq(OfTool(t)) /\ queue[t] \in Seq(Jobs)
      /\ grants[t] \in Seq(Jobs) /\ inOrder[t] \in Seq(Jobs)
  BY DEF SlotsInv, SlotsTyped, OfTool, KnownJob
<1>3. y \in KnownEvents /\ y.type = "denied" /\ y.job = j
  BY <1>1, SlotTypes
<1>3a. slotBus' = Append(Tail(slotBus), y)
  OBVIOUS
<1>. HIDE DEF y
<1>4. /\ slotBus' \in Seq(KnownEvents) /\ e \in KnownEvents
      /\ \A u, type : OnBus(u, type)' + Of(e, u, type) = OnBus(u, type) + Of(y, u, type)
      /\ \A k \in Jobs :
           /\ Count(slotBus', Asked(k)) + Is(e, k, "requested")
                = Count(slotBus, Asked(k)) + Is(y, k, "requested")
           /\ Count(slotBus', Granted(k)) + Is(e, k, "granted")
                = Count(slotBus, Granted(k)) + Is(y, k, "granted")
  BY <1>1, <1>3, <1>3a, BusTurns DEF SlotsTyped
<1>5. /\ queue' \in [Tools -> Seq(Jobs)] /\ \A u \in Tools : queue'[u] \in Seq(OfTool(u))
      /\ inOrder' \in [Tools -> Seq(Jobs)]
  BY <1>1 DEF SlotsTyped
<1>6. SlotsTyped'
  BY <1>0, <1>1, <1>4, <1>5 DEF SlotsTyped, OfTool, KnownJob
<1>7. \A k \in Jobs : Waiting(k)' = Waiting(k) + (IF k = j THEN 1 ELSE 0)
  <2>. TAKE k \in Jobs
  <2>0. Waiting(k) \in Nat
    BY <1>1, CountsTyped
  <2>1. CASE ToolOf[k] = t
    <3>1. Count(Append(queue[t], j), {k}) = Count(queue[t], {k}) + (IF j \in {k} THEN 1 ELSE 0)
      BY <1>1, CountAppend
    <3>2. Waiting(k) = Count(queue[t], {k}) /\ Waiting(k)' = Count(Append(queue[t], j), {k})
      BY <1>1, <2>1 DEF Waiting, KnownJob, SlotsTyped
    <3>. QED
      BY ONLY <3>1, <3>2, <2>0
  <2>2. CASE ToolOf[k] # t
    <3>1. Waiting(k)' = Waiting(k) /\ k # j
      BY <1>1, <2>2 DEF Waiting, KnownJob, SlotsTyped
    <3>. QED
      BY <2>0, <3>1
  <2>. QED
    BY <2>1, <2>2
<1>8. \A k \in Jobs : ClaimsAsked(k)'
  <2>. TAKE k \in Jobs
  <2>1. ClaimsAsked(k) /\ asked'[k] = asked[k] /\ held'[k] = held[k]
    BY <1>0 DEF SlotsInv
  <2>2. /\ Count(slotBus', Asked(k)) \in Nat /\ Count(slotBus', Granted(k)) \in Nat
        /\ Count(slotBus, Asked(k)) \in Nat /\ Count(slotBus, Granted(k)) \in Nat
        /\ Waiting(k) \in Nat /\ held[k] \in Nat /\ asked[k] \in 0 .. MaxAsks
    <3>1. Count(slotBus', Asked(k)) \in Nat /\ Count(slotBus', Granted(k)) \in Nat
      BY ONLY <1>4, CountFinite
    <3>. QED
      BY ONLY <1>1, <3>1, CountsTyped, k \in Jobs
  <2>3. /\ Is(y, k, "requested") = 0 /\ Is(y, k, "granted") = 0
        /\ Is(e, k, "granted") = 0 /\ Is(e, k, "requested") = IF k = j THEN 1 ELSE 0
    BY <1>3 DEF Is
  <2>4. /\ Count(slotBus', Asked(k)) + Is(e, k, "requested")
             = Count(slotBus, Asked(k)) + Is(y, k, "requested")
        /\ Count(slotBus', Granted(k)) + Is(e, k, "granted")
             = Count(slotBus, Granted(k)) + Is(y, k, "granted")
        /\ Waiting(k)' = Waiting(k) + (IF k = j THEN 1 ELSE 0)
    BY <1>4, <1>7
  <2>. QED
    BY ONLY <2>1, <2>2, <2>3, <2>4, LimiterAssumption DEF ClaimsAsked
<1>9. \A u \in Tools : /\ OnBus(u, "granted")' = OnBus(u, "granted")
                       /\ OnBus(u, "finished")' = OnBus(u, "finished")
  <2>. TAKE u \in Tools
  <2>1. OnBus(u, "granted")' \in Nat /\ OnBus(u, "finished")' \in Nat
    BY <1>4, OnBusWillCount
  <2>2. /\ Of(e, u, "granted") = 0 /\ Of(e, u, "finished") = 0
        /\ Of(y, u, "granted") = 0 /\ Of(y, u, "finished") = 0
    BY <1>3 DEF Of
  <2>. QED
    BY <1>1, <1>4, <2>1, <2>2, OutTyped
<1>10. \A u \in Tools : Out(u)' = Out(u) /\ ToolIsExact(u)
  <2>. TAKE u \in Tools
  <2>1. Held(u)' = Held(u)
    BY <1>0, HeldIsSum, HeldWillBeSum
  <2>. QED
    BY <1>9, <2>1 DEF Out, SlotsInv
<1>11. ASSUME NEW u \in Tools, u # t PROVE ToolIsExact(u)'
  <2>1. /\ count'[u] = count[u] /\ queue'[u] = queue[u] /\ inOrder'[u] = inOrder[u]
        /\ grants'[u] = grants[u]
    BY <1>1, <1>11 DEF SlotsTyped
  <2>. QED
    BY <1>0, <1>1, <1>6, <1>10, <2>1, ToolKept
<1>12. ToolIsExact(t)'
  <2>1. /\ queue'[t] = Append(queue[t], j) /\ inOrder'[t] = Append(inOrder[t], j)
        /\ count'[t] = limit'[t] /\ grants'[t] = grants[t]
    BY <1>0, <1>1 DEF SlotsTyped
  <2>2. FirstComeFirst(t)'
    <3>1. grants[t] \o Append(queue[t], j) = Append(grants[t] \o queue[t], j)
      BY ONLY <1>1, LastJoins
    <3>. QED
      BY ONLY <1>10, <2>1, <3>1, t \in Tools DEF ToolIsExact, FirstComeFirst
  <2>3. CountIsHeld(t)'
    <3>1. /\ CountIsHeld(t) /\ Out(t)' = Out(t) /\ count' = count /\ limit' = limit
          /\ strays' = strays /\ subscribed' = subscribed
      BY <1>0, <1>10 DEF ToolIsExact
    <3>. QED
      BY ONLY <3>1 DEF CountIsHeld, Out
  <2>4. DecidesOnce(t)'
    BY <2>1 DEF DecidesOnce
  <2>. QED
    BY <2>2, <2>3, <2>4 DEF ToolIsExact
<1>. QED
  BY <1>6, <1>8, <1>11, <1>12 DEF SlotsInv

(* A slot is back that nobody waits for.                                   *)
LEMMA BackKeeps ==
    ASSUME SlotsInv, slotBus # <<>>, NEW e, e = Head(slotBus), GrantFrame, subscribed,
           NEW t \in Tools, t = ToolOf[e.job], e.type = "finished",
           queue[t] = <<>> \/ (count[t] = 0 /\ limit[t] = 0),
           count' = [count EXCEPT ![t] = Back(t)],
           queue' = queue, grants' = grants, inOrder' = inOrder, slotBus' = Tail(slotBus)
    PROVE  SlotsInv'
<1>0. /\ limit' = limit /\ subscribed' = subscribed /\ asked' = asked /\ strays' = strays
      /\ held' = held /\ SlotsTyped
  BY DEF GrantFrame, SlotsInv
<1>1. /\ slotBus' \in Seq(KnownEvents) /\ e \in KnownEvents
      /\ \A u, type : OnBus(u, type) = OnBus(u, type)' + Of(e, u, type)
      /\ \A k \in Jobs :
           /\ Count(slotBus, Asked(k)) = Count(slotBus', Asked(k)) + Is(e, k, "requested")
           /\ Count(slotBus, Granted(k)) = Count(slotBus', Granted(k)) + Is(e, k, "granted")
  BY <1>0, BusShrinks DEF SlotsTyped
<1>2. Back(t) \in Nat /\ count[t] \in Nat
  BY <1>0 DEF SlotsTyped, Back
<1>3. SlotsTyped'
  BY <1>0, <1>1, <1>2 DEF SlotsTyped, OfTool, KnownJob
<1>4. \A k \in Jobs : ClaimsAsked(k)'
  <2>. TAKE k \in Jobs
  <2>1. ClaimsAsked(k) /\ asked'[k] = asked[k] /\ held'[k] = held[k] /\ Waiting(k)' = Waiting(k)
    BY <1>0, WaitingKept DEF SlotsInv
  <2>2. /\ Count(slotBus', Asked(k)) \in Nat /\ Count(slotBus', Granted(k)) \in Nat
    BY ONLY <1>1, CountFinite
  <2>3. Is(e, k, "granted") = 0 /\ Is(e, k, "requested") = 0
    BY DEF Is
  <2>4. /\ Count(slotBus', Asked(k)) = Count(slotBus, Asked(k))
        /\ Count(slotBus', Granted(k)) = Count(slotBus, Granted(k))
    <3>1. /\ Count(slotBus, Asked(k)) = Count(slotBus', Asked(k)) + Is(e, k, "requested")
          /\ Count(slotBus, Granted(k)) = Count(slotBus', Granted(k)) + Is(e, k, "granted")
      BY <1>1
    <3>. QED
      BY ONLY <2>2, <2>3, <3>1
  <2>. QED
    BY ONLY <2>1, <2>4 DEF ClaimsAsked
<1>5. \A u \in Tools : /\ OnBus(u, "granted")' = OnBus(u, "granted")
                       /\ OnBus(u, "finished") = OnBus(u, "finished")' + (IF u = t THEN 1 ELSE 0)
                       /\ OnBus(u, "finished")' \in Nat /\ Held(u)' = Held(u)
  <2>. TAKE u \in Tools
  <2>1. OnBus(u, "granted")' \in Nat /\ OnBus(u, "finished")' \in Nat
    BY <1>1, OnBusWillCount
  <2>2. Of(e, u, "granted") = 0 /\ Of(e, u, "finished") = IF u = t THEN 1 ELSE 0
    BY DEF Of
  <2>3. Held(u)' = Held(u)
    BY <1>0, HeldIsSum, HeldWillBeSum
  <2>. QED
    BY <1>0, <1>1, <2>1, <2>2, <2>3, OutTyped
<1>6. ASSUME NEW u \in Tools, u # t PROVE ToolIsExact(u)'
  <2>1. count'[u] = count[u]
    BY <1>0, <1>6 DEF SlotsTyped
  <2>2. Out(u)' = Out(u) /\ ToolIsExact(u)
    BY <1>0, <1>5, <1>6, OutTyped DEF Out, SlotsInv
  <2>. QED
    BY <1>0, <1>3, <2>1, <2>2, ToolKept
<1>7. ToolIsExact(t)'
  <2>1. ToolIsExact(t) /\ count'[t] = Back(t)
    BY <1>0 DEF SlotsInv, SlotsTyped
  <2>2. FirstComeFirst(t)'
    BY <2>1 DEF ToolIsExact, FirstComeFirst
  <2>3. DecidesOnce(t)'
    BY <1>0, <2>1 DEF DecidesOnce, Back
  <2>4. Out(t) = Out(t)' + 1 /\ Out(t)' \in Nat /\ strays \in Nat /\ limit[t] \in Nat
    <3>1. strays \in Nat /\ limit[t] \in Nat
      BY <1>0, LimiterAssumption DEF SlotsTyped
    <3>2. /\ OnBus(t, "granted")' = OnBus(t, "granted") /\ OnBus(t, "finished")' \in Nat
          /\ OnBus(t, "finished") = OnBus(t, "finished")' + 1 /\ Held(t)' = Held(t)
      BY <1>5
    <3>3. Held(t) \in Nat /\ OnBus(t, "granted") \in Nat
      BY <1>0, OutTyped
    <3>. QED
      BY ONLY <3>1, <3>2, <3>3 DEF Out
  <2>5. count[t] <= limit[t] /\ count[t] <= Out(t) /\ Out(t) <= count[t] + strays
    BY <2>1 DEF ToolIsExact, CountIsHeld, Out
  <2>6. Back(t) <= limit[t] /\ Back(t) <= Out(t)' /\ Out(t)' <= Back(t) + strays
    BY ONLY <1>2, <2>4, <2>5 DEF Back
  <2>. QED
    BY <1>0, <2>1, <2>2, <2>3, <2>6 DEF ToolIsExact, CountIsHeld, Out
<1>. QED
  BY <1>3, <1>4, <1>6, <1>7 DEF SlotsInv

-----------------------------------------------------------------------------
(* Each event that is handled is one of these.                             *)
LEMMA HandledKeeps ==
    ASSUME SlotsInv, SlotHandled
    PROVE  SlotsInv'
<1>. DEFINE e == Head(slotBus)
<1>1. /\ slotBus # <<>> /\ UNCHANGED <<limit, subscribed, asked, strays>>
      /\ held' = IF e.type = "granted" THEN [held EXCEPT ![e.job] = @ + 1] ELSE held
      /\ \/ e.type = "requested" /\ subscribed /\ SlotRequested(e.job)
         \/ e.type = "finished" /\ subscribed /\ SlotFinished(e.job)
         \/ /\ e.type \in {"granted", "denied"} \/ ~subscribed
            /\ slotBus' = Tail(slotBus) /\ UNCHANGED <<count, queue, grants, inOrder>>
  BY DEF SlotHandled
<1>2. e \in KnownEvents
  BY <1>1, EmptySeq, HeadTailProperties DEF SlotsInv, SlotsTyped
<1>3. e.job \in Jobs /\ (e.type # "requested" => KnownJob(e.job))
  BY <1>2 DEF KnownEvents, SlotEvents
<1>. HIDE DEF e
<1>4. CASE e.type = "requested" /\ subscribed /\ SlotRequested(e.job)
  <2>0. GrantFrame
    BY <1>1, <1>4 DEF GrantFrame
  <2>. DEFINE t == ToolOf[e.job]
  <2>1. CASE t \in Tools
    <3>0. e.job \in OfTool(t)
      BY <1>3 DEF OfTool
    <3>1. /\ inOrder' = [inOrder EXCEPT ![t] = Append(@, e.job)]
          /\ \/ /\ count[t] < limit[t] /\ queue[t] = <<>> /\ queue' = queue
                /\ Grants(t, e.job, count[t] + 1)
             \/ /\ count[t] = limit[t] /\ count' = count /\ grants' = grants
                /\ queue' = [queue EXCEPT ![t] = Append(@, e.job)]
                /\ slotBus' = Append(Tail(slotBus), SlotEvent("denied", e.job))
      BY <1>1, <1>3, <1>4, <2>1, RequestDecides
    <3>2. CASE /\ count[t] < limit[t] /\ queue[t] = <<>> /\ queue' = queue
               /\ Grants(t, e.job, count[t] + 1)
      <4>1. FreshGrant(e, t, e.job, count[t] + 1)
        BY <1>4, <3>1, <3>2 DEF FreshGrant
      <4>. QED
        BY <1>1, <1>4, <2>0, <2>1, <3>0, <3>2, <4>1, GrantKeeps DEF e
    <3>3. CASE /\ count[t] = limit[t] /\ count' = count /\ grants' = grants
               /\ queue' = [queue EXCEPT ![t] = Append(@, e.job)]
               /\ slotBus' = Append(Tail(slotBus), SlotEvent("denied", e.job))
      BY <1>1, <1>4, <2>0, <2>1, <3>0, <3>1, <3>3, DenyKeeps DEF e
    <3>. QED
      BY <3>1, <3>2, <3>3
  <2>2. CASE t \notin Tools
    <3>1. slotBus' = Tail(slotBus) /\ UNCHANGED <<count, queue, grants, inOrder>>
      BY <1>4, <2>2 DEF SlotRequested
    <3>2. ~KnownJob(e.job)
      BY <2>2 DEF KnownJob
    <3>. QED
      BY <1>1, <1>4, <3>1, <3>2, DropKeeps DEF e
  <2>. QED
    BY <2>1, <2>2
<1>5. CASE e.type = "finished" /\ subscribed /\ SlotFinished(e.job)
  <2>0. GrantFrame
    BY <1>1, <1>5 DEF GrantFrame
  <2>. DEFINE t == ToolOf[e.job]
  <2>1. t \in Tools
    BY <1>3, <1>5 DEF KnownJob
  <2>2. /\ inOrder' = inOrder
        /\ \/ /\ queue[t] = <<>> \/ (count[t] = 0 /\ limit[t] = 0)
              /\ count' = [count EXCEPT ![t] = Back(t)]
              /\ queue' = queue /\ grants' = grants /\ slotBus' = Tail(slotBus)
           \/ /\ queue[t] # <<>> /\ count[t] = limit[t] /\ count[t] > 0 /\ count' = count
              /\ queue' = [queue EXCEPT ![t] = Tail(@)]
              /\ Head(queue[t]) \in OfTool(t) /\ Grants(t, Head(queue[t]), count[t])
    BY <1>1, <1>3, <1>5, <2>1, FinishDecides
  <2>3. CASE /\ queue[t] = <<>> \/ (count[t] = 0 /\ limit[t] = 0)
             /\ count' = [count EXCEPT ![t] = Back(t)]
             /\ queue' = queue /\ grants' = grants /\ slotBus' = Tail(slotBus)
    BY <1>1, <1>5, <2>0, <2>1, <2>2, <2>3, BackKeeps DEF e
  <2>4. CASE /\ queue[t] # <<>> /\ count[t] = limit[t] /\ count[t] > 0 /\ count' = count
             /\ queue' = [queue EXCEPT ![t] = Tail(@)]
             /\ Head(queue[t]) \in OfTool(t) /\ Grants(t, Head(queue[t]), count[t])
    <3>1. QueueGrant(e, t, Head(queue[t]), count[t])
      BY <1>5, <2>2, <2>4 DEF QueueGrant
    <3>. QED
      BY <1>1, <1>5, <2>0, <2>1, <2>4, <3>1, GrantKeeps DEF e
  <2>. QED
    BY <2>2, <2>3, <2>4
<1>6. CASE /\ e.type \in {"granted", "denied"} \/ ~subscribed
           /\ slotBus' = Tail(slotBus) /\ UNCHANGED <<count, queue, grants, inOrder>>
  BY <1>1, <1>6, DropKeeps DEF e
<1>. QED
  BY <1>1, <1>4, <1>5, <1>6

(* Nobody has asked.                                                       *)
LEMMA SlotsStart == LimiterInit => SlotsInv
<1>. SUFFICES ASSUME LimiterInit PROVE SlotsInv
  OBVIOUS
<1>1. SlotsTyped
  <2>1. /\ limit \in Limits /\ count = [t \in Tools |-> 0] /\ queue = [t \in Tools |-> <<>>]
        /\ subscribed = TRUE /\ slotBus = <<>> /\ strays = 0
        /\ asked = [j \in Jobs |-> 0] /\ held = [j \in Jobs |-> 0]
        /\ inOrder = [t \in Tools |-> <<>>] /\ grants = [t \in Tools |-> <<>>]
    BY DEF LimiterInit
  <2>2. MaxStrays[limit] \in Nat /\ <<>> \in Seq(KnownEvents) /\ <<>> \in Seq(Jobs)
        /\ (\A t : <<>> \in Seq(OfTool(t))) /\ 0 \in 0 .. MaxAsks /\ 0 \in 0 .. MaxStrays[limit]
    BY <2>1, LimiterAssumption
  <2>. QED
    BY <2>1, <2>2 DEF SlotsTyped
<1>2. \A j \in Jobs : ClaimsAsked(j)
  <2>. TAKE j \in Jobs
  <2>1. Count(slotBus, Granted(j)) = 0 /\ Count(slotBus, Asked(j)) = 0 /\ held[j] = 0 /\ asked[j] = 0
    BY CountEmpty DEF LimiterInit
  <2>2. Waiting(j) = 0
    BY CountEmpty DEF LimiterInit, Waiting, KnownJob
  <2>. QED
    BY <2>1, <2>2 DEF ClaimsAsked
<1>3. \A t \in Tools : ToolIsExact(t)
  <2>. TAKE t \in Tools
  <2>1. OnBus(t, "granted") = 0 /\ OnBus(t, "finished") = 0
    BY <1>1, OnBusCounts, CountEmpty DEF LimiterInit, SlotsTyped
  <2>2. Held(t) = 0
    <3>1. \A j \in OfTool(t) : held[j] \in Nat /\ held[j] = 0
      BY ToolsJobs DEF LimiterInit
    <3>. QED
      BY <3>1, ToolsJobs, HeldIsSum, SumNat
  <2>3. count[t] = 0 /\ queue[t] = <<>> /\ inOrder[t] = <<>> /\ grants[t] = <<>> /\ strays = 0
        /\ limit[t] \in Nat
    BY LimiterAssumption DEF LimiterInit
  <2>4. CountIsHeld(t)
    BY <2>1, <2>2, <2>3 DEF CountIsHeld
  <2>5. <<>> \o <<>> = <<>>
    OBVIOUS
  <2>. QED
    BY <2>3, <2>4, <2>5 DEF ToolIsExact, DecidesOnce, FirstComeFirst
<1>. QED
  BY <1>1, <1>2, <1>3 DEF SlotsInv

(* The limiter gives out what it has, to all who asked and in their order. *)
THEOREM GrantsAreExact == LimiterSpec => []GrantsExact
<1>1. SlotsInv /\ [LimiterNext]_limiterVars => SlotsInv'
  <2>. SUFFICES ASSUME SlotsInv, [LimiterNext]_limiterVars PROVE SlotsInv'
    OBVIOUS
  <2>1. CASE UNCHANGED limiterVars
    <3>1. /\ UNCHANGED <<limit, count, queue, subscribed, slotBus>>
          /\ UNCHANGED <<asked, held, strays, inOrder, grants>>
      BY <2>1 DEF limiterVars
    <3>2. SlotsTyped'
      BY <3>1 DEF SlotsInv, SlotsTyped, OfTool, KnownJob
    <3>3. \A k \in Jobs : ClaimsAsked(k)'
      BY <3>1 DEF SlotsInv, ClaimsAsked, Waiting, KnownJob
    <3>4. \A t \in Tools : ToolIsExact(t)'
      <4>. TAKE t \in Tools
      <4>1. Held(t)' = Held(t)
        BY <3>1, HeldIsSum, HeldWillBeSum
      <4>2. OnBus(t, "granted")' = OnBus(t, "granted") /\ OnBus(t, "finished")' = OnBus(t, "finished")
        BY <3>1 DEF OnBus
      <4>3. ToolIsExact(t)
        BY DEF SlotsInv
      <4>. QED
        BY <3>1, <4>1, <4>2, <4>3 DEF ToolIsExact, CountIsHeld, DecidesOnce, FirstComeFirst
    <3>. QED
      BY <3>2, <3>3, <3>4 DEF SlotsInv
  <2>. QED
    BY <2>1, HandledKeeps, StopsKeeps, AsksKeeps, FinishesKeeps, StraysKeeps DEF LimiterNext
<1>2. SlotsInv => GrantsExact
  <2>. SUFFICES ASSUME SlotsInv PROVE GrantsExact
    OBVIOUS
  <2>1. slotBus \in Seq(SlotEvents)
    BY KnownSeq DEF SlotsInv, SlotsTyped
  <2>2. held \in [Jobs -> 0 .. MaxAsks]
    <3>1. SlotsTyped /\ held \in [Jobs -> Nat]
      BY DEF SlotsInv, SlotsTyped
    <3>2. \A j \in Jobs : held[j] \in 0 .. MaxAsks
      <4>. TAKE j \in Jobs
      <4>1. /\ Count(slotBus, Granted(j)) \in Nat /\ Count(slotBus, Asked(j)) \in Nat
            /\ Waiting(j) \in Nat /\ held[j] \in Nat /\ asked[j] \in 0 .. MaxAsks
        BY <3>1, CountsTyped
      <4>2. ClaimsAsked(j)
        BY DEF SlotsInv
      <4>. QED
        BY ONLY <4>1, <4>2, LimiterAssumption DEF ClaimsAsked
    <3>. QED
      BY <3>1, <3>2
  <2>3. LimiterTypeOK
    BY <2>1, <2>2 DEF SlotsInv, SlotsTyped, LimiterTypeOK, SlotEvents
  <2>. QED
    BY <2>3 DEF SlotsInv, ToolIsExact, GrantsExact
<1>. QED
  BY <1>1, <1>2, SlotsStart, PTL DEF LimiterSpec

-----------------------------------------------------------------------------
(* A flow is analysed                                                      *)

(* Path is computed as a fold over the order of the steps; it is what it   *)
(* is called: the least transitive relation with the edges.                *)
Edges == {p \in Nodes \X Nodes : p[2] \in ToSet(edges[p[1]])}
Through(path, v) == path \cup {p \in Nodes \X Nodes : <<p[1], v>> \in path /\ <<v, p[2]>> \in path}
PathAlong(f, n) ==
    /\ f[0] = Edges /\ f[n] = Path
    /\ \A k \in 0 .. n - 1 : f[k + 1] = Through(f[k], NodeOrder[k + 1])
Transitive(r) == \A a, b, c \in Nodes : <<a, b>> \in r /\ <<b, c>> \in r => <<a, c>> \in r
IsGraph == edges \in [Nodes -> Seq(Nodes)]

(* Every step is once in the order of the definition.                      *)
LEMMA NodesAre ==
    /\ NodeOrder \in Seq(Nodes) /\ Len(NodeOrder) \in Nat \ {0}
    /\ DOMAIN NodeOrder = 1 .. Len(NodeOrder) /\ Once(NodeOrder)
    /\ \A v \in Nodes : \E k \in 1 .. Len(NodeOrder) : NodeOrder[k] = v
    /\ \A k \in 1 .. Len(NodeOrder) : NodeOrder[k] \in Nodes
<1>1. NodeOrder \in Seq(Nodes) /\ NodeOrder # <<>> /\ Once(NodeOrder)
  BY GraphAssumption DEF IsInjective, Once
<1>2. Len(NodeOrder) \in Nat \ {0} /\ DOMAIN NodeOrder = 1 .. Len(NodeOrder)
  BY <1>1, EmptySeq
<1>. QED
  BY <1>1, <1>2 DEF Nodes, ToSet

LEMMA PathSteps == \E f : PathAlong(f, Len(NodeOrder))
<1>. DEFINE n == Len(NodeOrder)  X == SUBSET (Nodes \X Nodes)
            F == [k \in 1 .. n |-> [q \in X |-> Through(q, NodeOrder[k])]]
            G(it) == [d \in SUBSET (1 .. n) |-> IF d = {} THEN Edges
                          ELSE Through(it[d \ {Max(d)}], NodeOrder[Max(d)])]
            it1 == CHOOSE it : it = G(it)
<1>1. n \in Nat /\ DOMAIN NodeOrder = 1 .. n
  BY NodesAre
<1>2. Path = it1[1 .. n]
  BY <1>1 DEF Path, FoldLeft, MapThenFoldSet, Through, Edges
<1>. HIDE DEF n
<1>3. F \in [1 .. n -> [X -> X]]
  BY <1>1 DEF Through
<1>4. /\ Edges \in X
      /\ \A k \in 1 .. n, q \in X : F[k][q] = Through(q, NodeOrder[k])
  BY DEF Edges
<1>. HIDE DEF F, X
<1>5a. HasFold(X, Edges, F, n)
  BY ONLY <1>1, <1>3, <1>4, FoldStepsExist
<1>5. PICK jt \in [SUBSET (1 .. n) -> X] : jt = FoldSteps(Edges, F, n, jt)
  BY <1>5a DEF HasFold
<1>6. jt = G(jt)
  <2>1. ASSUME NEW d \in SUBSET (1 .. n), d # {}
        PROVE  F[Max(d)][jt[d \ {Max(d)}]] = Through(jt[d \ {Max(d)}], NodeOrder[Max(d)])
    <3>1. Max(d) \in 1 .. n
      BY <1>1, <2>1, PositionsHaveMax
    <3>2. jt[d \ {Max(d)}] \in X
      BY <2>1
    <3>. QED
      BY <1>4, <3>1, <3>2
  <2>2. FoldSteps(Edges, F, n, jt) = G(jt)
    BY <2>1 DEF FoldSteps
  <2>. QED
    BY <1>5, <2>2
<1>7. it1 = G(it1)
  <2>. HIDE DEF G
  <2>. QED
    BY <1>6
<1>. HIDE DEF it1, F
<1>. DEFINE f == [k \in 0 .. n |-> it1[1 .. k]]
<1>8. \A d \in SUBSET (1 .. n) : it1[d] = IF d = {} THEN Edges
                                         ELSE Through(it1[d \ {Max(d)}], NodeOrder[Max(d)])
  BY <1>7
<1>9. f[0] = Edges
  <2>1. 1 .. 0 = {} /\ {} \in SUBSET (1 .. n) /\ 0 \in 0 .. n
    BY <1>1
  <2>. QED
    BY <1>8, <2>1
<1>10. ASSUME NEW k \in 0 .. n - 1 PROVE f[k + 1] = Through(f[k], NodeOrder[k + 1])
  <2>1. /\ 1 .. k + 1 \in SUBSET (1 .. n) /\ k \in Nat
        /\ k \in 0 .. n /\ k + 1 \in 0 .. n
    BY <1>1
  <2>2. /\ Max(1 .. k + 1) = k + 1 /\ (1 .. k + 1) \ {k + 1} = 1 .. k
        /\ 1 .. k + 1 # {}
    BY <2>1, LastPosition
  <2>3. it1[1 .. k + 1] = Through(it1[1 .. k], NodeOrder[k + 1])
    BY <1>8, <2>1, <2>2
  <2>. QED
    BY <2>1, <2>3
<1>11. f[n] = Path
  BY <1>1, <1>2
<1>. QED
  BY <1>9, <1>10, <1>11 DEF n, PathAlong

(* The path over more and more steps: it holds the edges, it is closed     *)
(* under the steps so far, and any transitive relation with the edges has  *)
(* it.                                                                     *)
ClosedOver(r, k) == \A a, c \in Nodes, j \in 1 .. k :
    <<a, NodeOrder[j]>> \in r /\ <<NodeOrder[j], c>> \in r => <<a, c>> \in r
ClosedSoFar(r, k) == /\ r \subseteq Nodes \X Nodes /\ Edges \subseteq r /\ ClosedOver(r, k)
              /\ \A s \in SUBSET (Nodes \X Nodes) : Edges \subseteq s /\ Transitive(s) => r \subseteq s

LEMMA ThroughCloses ==
    ASSUME NEW r, NEW k \in Nat, k + 1 <= Len(NodeOrder), ClosedSoFar(r, k)
    PROVE  ClosedSoFar(Through(r, NodeOrder[k + 1]), k + 1)
<1>. DEFINE v == NodeOrder[k + 1]  q == Through(r, v)
<1>1. v \in Nodes /\ \A j \in 1 .. k : NodeOrder[j] \in Nodes
  BY NodesAre
<1>. HIDE DEF v
<1>2. r \subseteq q /\ q \subseteq Nodes \X Nodes /\ Edges \subseteq q
  BY DEF Through, ClosedSoFar
<1>3. \A a, c \in Nodes : <<a, c>> \in q <=> <<a, c>> \in r \/ (<<a, v>> \in r /\ <<v, c>> \in r)
  BY DEF Through
<1>. HIDE DEF q
<1>4. ClosedOver(q, k + 1)
  <2>. SUFFICES ASSUME NEW a \in Nodes, NEW c \in Nodes, NEW w \in Nodes,
                       (\E j \in 1 .. k : w = NodeOrder[j]) \/ w = v,
                       <<a, w>> \in q, <<w, c>> \in q
                PROVE  <<a, c>> \in q
    <3>1. \A j \in 1 .. k + 1 : (j \in 1 .. k \/ j = k + 1) /\ NodeOrder[j] \in Nodes
      BY NodesAre
    <3>. QED
      BY <3>1 DEF ClosedOver, v
  <2>1. CASE w = v
    BY <1>1, <1>3, <2>1
  <2>2. CASE \E j \in 1 .. k : w = NodeOrder[j]
    <3>1. \A x, y \in Nodes : <<x, w>> \in r /\ <<w, y>> \in r => <<x, y>> \in r
      BY <2>2 DEF ClosedSoFar, ClosedOver
    <3>. QED
      BY <1>1, <1>3, <3>1
  <2>. QED
    BY <2>1, <2>2
<1>5. ASSUME NEW s \in SUBSET (Nodes \X Nodes), Edges \subseteq s, Transitive(s)
      PROVE  q \subseteq s
  <2>1. r \subseteq s
    BY <1>5 DEF ClosedSoFar
  <2>2. \A a, c \in Nodes : <<a, c>> \in q => <<a, c>> \in s
    BY <1>1, <1>3, <1>5, <2>1 DEF Transitive
  <2>. QED
    BY <1>2, <2>2
<1>. QED
  BY <1>2, <1>4, <1>5 DEF ClosedSoFar, q, v

(* Path is the transitive closure of the edges.                            *)
LEMMA PathCloses ==
    /\ Path \in SUBSET (Nodes \X Nodes) /\ Edges \subseteq Path /\ Transitive(Path)
    /\ \A s \in SUBSET (Nodes \X Nodes) : Edges \subseteq s /\ Transitive(s) => Path \subseteq s
<1>. DEFINE n == Len(NodeOrder)
<1>1. PICK f : PathAlong(f, n)
  BY PathSteps
<1>. DEFINE K == {k \in Nat : k <= n => ClosedSoFar(f[k], k)}
<1>2. 0 \in K
  <2>1. f[0] = Edges
    BY <1>1 DEF PathAlong
  <2>2. ClosedOver(Edges, 0)
    BY DEF ClosedOver
  <2>. QED
    BY <2>1, <2>2 DEF ClosedSoFar, Edges
<1>3. ASSUME NEW k \in Nat, k \in K PROVE k + 1 \in K
  <2>. SUFFICES ASSUME k + 1 <= n PROVE ClosedSoFar(f[k + 1], k + 1)
    OBVIOUS
  <2>1. ClosedSoFar(f[k], k) /\ k \in 0 .. n - 1
    BY <1>3, NodesAre
  <2>2. f[k + 1] = Through(f[k], NodeOrder[k + 1])
    BY <1>1, <2>1 DEF PathAlong
  <2>. QED
    BY <2>1, <2>2, ThroughCloses
<1>. HIDE DEF K
<1>4. n \in K
  BY <1>2, <1>3, NatSetInduction, NodesAre
<1>5. ClosedSoFar(Path, n)
  BY <1>1, <1>4, NodesAre DEF K, PathAlong
<1>6. Transitive(Path)
  <2>. SUFFICES ASSUME NEW a \in Nodes, NEW b \in Nodes, NEW c \in Nodes,
                       <<a, b>> \in Path, <<b, c>> \in Path
                PROVE  <<a, c>> \in Path
    BY DEF Transitive
  <2>1. PICK j \in 1 .. n : NodeOrder[j] = b
    BY NodesAre
  <2>. QED
    BY <1>5, <2>1 DEF ClosedSoFar, ClosedOver
<1>. QED
  BY <1>5, <1>6 DEF ClosedSoFar

Edge(a, b) == a \in Nodes /\ b \in Nodes /\ b \in ToSet(edges[a])

LEMMA EdgesAre == \A a, b \in Nodes : <<a, b>> \in Edges <=> Edge(a, b)
BY DEF Edges, Edge

LEMMA EdgeIsPath == \A a, b : Edge(a, b) => <<a, b>> \in Path
BY PathCloses, EdgesAre DEF Edge

LEMMA PathOn == \A a, b, c : <<a, b>> \in Path /\ <<b, c>> \in Path => <<a, c>> \in Path
<1>. TAKE a, b, c
<1>1. <<a, b>> \in Path => a \in Nodes /\ b \in Nodes
  BY PathCloses
<1>2. <<b, c>> \in Path => b \in Nodes /\ c \in Nodes
  BY PathCloses
<1>. QED
  BY <1>1, <1>2, PathCloses DEF Transitive

LEMMA PathSides == \A a, b : <<a, b>> \in Path => a \in Nodes /\ b \in Nodes
BY PathCloses

(* A path ends with an edge.                                               *)
LEMMA LastEdge ==
    ASSUME NEW a, NEW c, <<a, c>> \in Path
    PROVE  \E b \in Nodes : Edge(b, c) /\ (b = a \/ <<a, b>> \in Path)
<1>. DEFINE Ends1(x, z) == \E b \in Nodes : Edge(b, z) /\ (b = x \/ <<x, b>> \in Path)
            r == {p \in Nodes \X Nodes : Ends1(p[1], p[2])}
<1>1. \A x, z \in Nodes : <<x, z>> \in r <=> Ends1(x, z)
  OBVIOUS
<1>2. \A x, z \in Nodes : Ends1(x, z) => <<x, z>> \in Path
  BY EdgeIsPath, PathOn
<1>3. r \in SUBSET (Nodes \X Nodes)
  OBVIOUS
<1>. HIDE DEF r
<1>4. Edges \subseteq r
  <2>1. \A x, z \in Nodes : <<x, z>> \in Edges => <<x, z>> \in r
    BY <1>1, EdgesAre
  <2>. QED
    BY <2>1 DEF Edges
<1>5. Transitive(r)
  <2>. SUFFICES ASSUME NEW x \in Nodes, NEW y \in Nodes, NEW z \in Nodes,
                       <<x, y>> \in r, <<y, z>> \in r
                PROVE  Ends1(x, z)
    BY <1>1 DEF Transitive
  <2>1. <<x, y>> \in Path
    BY <1>1, <1>2
  <2>2. PICK b \in Nodes : Edge(b, z) /\ (b = y \/ <<y, b>> \in Path)
    BY <1>1
  <2>. QED
    BY <2>1, <2>2, PathOn
<1>6. <<a, c>> \in r
  BY <1>3, <1>4, <1>5, PathCloses
<1>. QED
  BY <1>1, <1>6, PathSides

(* And it begins with one.                                                 *)
LEMMA FirstEdge ==
    ASSUME NEW a, NEW c, <<a, c>> \in Path
    PROVE  \E b \in Nodes : Edge(a, b) /\ (b = c \/ <<b, c>> \in Path)
<1>. DEFINE Begins(x, z) == \E b \in Nodes : Edge(x, b) /\ (b = z \/ <<b, z>> \in Path)
            r == {p \in Nodes \X Nodes : Begins(p[1], p[2])}
<1>1. \A x, z \in Nodes : <<x, z>> \in r <=> Begins(x, z)
  OBVIOUS
<1>2. \A x, z \in Nodes : Begins(x, z) => <<x, z>> \in Path
  BY EdgeIsPath, PathOn
<1>3. r \in SUBSET (Nodes \X Nodes)
  OBVIOUS
<1>. HIDE DEF r
<1>4. Edges \subseteq r
  <2>1. \A x, z \in Nodes : <<x, z>> \in Edges => <<x, z>> \in r
    BY <1>1, EdgesAre
  <2>. QED
    BY <2>1 DEF Edges
<1>5. Transitive(r)
  <2>. SUFFICES ASSUME NEW x \in Nodes, NEW y \in Nodes, NEW z \in Nodes,
                       <<x, y>> \in r, <<y, z>> \in r
                PROVE  Begins(x, z)
    BY <1>1 DEF Transitive
  <2>1. <<y, z>> \in Path
    BY <1>1, <1>2
  <2>2. PICK b \in Nodes : Edge(x, b) /\ (b = y \/ <<b, y>> \in Path)
    BY <1>1
  <2>. QED
    BY <2>1, <2>2, PathOn
<1>6. <<a, c>> \in r
  BY <1>3, <1>4, <1>5, PathCloses
<1>. QED
  BY <1>1, <1>6, PathSides

-----------------------------------------------------------------------------
(* The sort.  A step is done or ready exactly when no edge is left into    *)
(* it, and what leads to a step that is done was done before it.           *)
Left(done, m) == [n \in Nodes |-> IF n \in done THEN 0 ELSE Occurs(m, edges[n])]
InLeft(done) == [m \in Nodes |-> SumOver(Left(done, m), Nodes)]
Comes(k, n) == \E i \in DOMAIN sorted : i < k /\ sorted[i] = n

SortOk ==
    /\ edges \in [Nodes -> Seq(Nodes)] /\ sorted \in Seq(Nodes) /\ ready \in Seq(Nodes)
    /\ Once(sorted) /\ Once(ready) /\ ToSet(sorted) \cap ToSet(ready) = {}
    /\ inDegree = InLeft(ToSet(sorted))
    /\ \A m \in Nodes : m \in ToSet(sorted) \cup ToSet(ready) <=> inDegree[m] = 0
    /\ \A k \in DOMAIN sorted : \A n \in Nodes : Edge(n, sorted[k]) => Comes(k, n)

LEMMA OccursIs ==
    ASSUME NEW q \in Seq(Nodes), NEW m
    PROVE  /\ Occurs(m, q) = Count(q, {m}) /\ Occurs(m, q) \in Nat
           /\ Occurs(m, q) = 0 <=> m \notin ToSet(q)
<1>1. Occurs(m, q) = Count(q, {m})
  <2>1. {k \in DOMAIN q : q[k] = m} = Places(q, {m})
    BY DEF Places
  <2>. QED
    BY <2>1 DEF Occurs, Count
<1>2. Count(q, {m}) \in Nat
  BY CountFinite
<1>3. Count(q, {m}) = 0 <=> \A i \in DOMAIN q : q[i] \notin {m}
  BY CountZero
<1>. QED
  BY <1>1, <1>2, <1>3, InToSet

(* The analysis ends its sort by comparing two lengths.                    *)
LEMMA FiniteNodes ==
    /\ IsFiniteSet(Nodes) /\ Cardinality(Nodes) = Len(NodeOrder)
<1>1. Len(NodeOrder) \in Nat /\ DOMAIN NodeOrder = 1 .. Len(NodeOrder) /\ Once(NodeOrder)
  BY NodesAre
<1>. QED
  BY <1>1, OnceCardinality, GraphAssumption DEF Nodes

(* A step has no edge left into it when all that lead to it are done.      *)
LEMMA LeftIs ==
    ASSUME IsGraph, NEW done, NEW m \in Nodes
    PROVE  /\ \A n \in Nodes : Left(done, m)[n] \in Nat
           /\ InLeft(done)[m] \in Nat
           /\ InLeft(done)[m] = 0 <=> \A n \in Nodes : Edge(n, m) => n \in done
<1>. DEFINE f == Left(done, m)
<1>1. \A n \in Nodes : /\ f[n] \in Nat
                       /\ f[n] = 0 <=> (n \in done \/ m \notin ToSet(edges[n]))
  <2>. TAKE n \in Nodes
  <2>1. edges[n] \in Seq(Nodes)
    BY DEF IsGraph
  <2>2. f[n] = IF n \in done THEN 0 ELSE Occurs(m, edges[n])
    BY DEF Left
  <2>. HIDE DEF f
  <2>3. Occurs(m, edges[n]) \in Nat /\ (Occurs(m, edges[n]) = 0 <=> m \notin ToSet(edges[n]))
    BY <2>1, OccursIs
  <2>4. CASE n \in done
    BY <2>2, <2>4
  <2>5. CASE n \notin done
    BY <2>2, <2>3, <2>5
  <2>. QED
    BY <2>4, <2>5
<1>. HIDE DEF f
<1>2. SumOver(f, Nodes) \in Nat /\ (SumOver(f, Nodes) = 0 <=> \A n \in Nodes : f[n] = 0)
  BY <1>1, FiniteNodes, SumNat
<1>3. InLeft(done)[m] = SumOver(f, Nodes)
  BY DEF InLeft, f
<1>. QED
  BY <1>1, <1>2, <1>3 DEF f, Edge

(* Off with one edge after the other.                                      *)
Off(q0, s) == FoldLeft(Without, q0, s)
Counting == [inDegree : [Nodes -> Int], ready : Seq(Nodes)]
OffAlong(f, q0, s) ==
    /\ f[0] = q0 /\ f[Len(s)] = Off(q0, s)
    /\ \A k \in 0 .. Len(s) - 1 : f[k + 1] = Without(f[k], s[k + 1])
HasOff(q0, s) == \E f : OffAlong(f, q0, s)

LEMMA WithoutTyped ==
    ASSUME NEW q \in Counting, NEW m \in Nodes
    PROVE  /\ Without(q, m) \in Counting
           /\ Without(q, m).inDegree = [q.inDegree EXCEPT ![m] = @ - 1]
           /\ Without(q, m).ready = IF q.inDegree[m] = 1 THEN Append(q.ready, m) ELSE q.ready
<1>1. q.inDegree \in [Nodes -> Int] /\ q.ready \in Seq(Nodes)
  BY DEF Counting
<1>2. [q.inDegree EXCEPT ![m] = @ - 1] \in [Nodes -> Int]
  BY <1>1
<1>3. (IF q.inDegree[m] = 1 THEN Append(q.ready, m) ELSE q.ready) \in Seq(Nodes)
  BY <1>1
<1>. QED
  BY <1>2, <1>3 DEF Without, Counting

LEMMA OffSteps ==
    ASSUME NEW q0 \in Counting, NEW s \in Seq(Nodes)
    PROVE  HasOff(q0, s)
<1>. DEFINE n == Len(s)
            F == [k \in 1 .. n |-> [q \in Counting |-> Without(q, s[k])]]
            G(it) == [d \in SUBSET (1 .. n) |-> IF d = {} THEN q0
                          ELSE Without(it[d \ {Max(d)}], s[Max(d)])]
            it1 == CHOOSE it : it = G(it)
<1>1. n \in Nat /\ DOMAIN s = 1 .. n /\ \A k \in 1 .. n : s[k] \in Nodes
  OBVIOUS
<1>2. Off(q0, s) = it1[1 .. n]
  BY <1>1 DEF Off, FoldLeft, MapThenFoldSet
<1>. HIDE DEF n
<1>3. F \in [1 .. n -> [Counting -> Counting]]
  BY <1>1, WithoutTyped
<1>4. \A k \in 1 .. n, q \in Counting : F[k][q] = Without(q, s[k])
  OBVIOUS
<1>. HIDE DEF F
<1>5a. HasFold(Counting, q0, F, n)
  BY ONLY <1>1, <1>3, <1>4, FoldStepsExist
<1>5. PICK jt \in [SUBSET (1 .. n) -> Counting] : jt = FoldSteps(q0, F, n, jt)
  BY <1>5a DEF HasFold
<1>6. jt = G(jt)
  <2>1. ASSUME NEW d \in SUBSET (1 .. n), d # {}
        PROVE  F[Max(d)][jt[d \ {Max(d)}]] = Without(jt[d \ {Max(d)}], s[Max(d)])
    <3>1. Max(d) \in 1 .. n
      BY <1>1, <2>1, PositionsHaveMax
    <3>2. jt[d \ {Max(d)}] \in Counting
      BY <2>1
    <3>. QED
      BY <1>4, <3>1, <3>2
  <2>2. FoldSteps(q0, F, n, jt) = G(jt)
    BY <2>1 DEF FoldSteps
  <2>. QED
    BY <1>5, <2>2
<1>7. it1 = G(it1)
  <2>. HIDE DEF G
  <2>. QED
    BY <1>6
<1>. HIDE DEF it1, F
<1>. DEFINE f == [k \in 0 .. n |-> it1[1 .. k]]
<1>8. \A d \in SUBSET (1 .. n) : it1[d] = IF d = {} THEN q0
                                         ELSE Without(it1[d \ {Max(d)}], s[Max(d)])
  BY <1>7
<1>9. f[0] = q0
  <2>1. 1 .. 0 = {} /\ {} \in SUBSET (1 .. n) /\ 0 \in 0 .. n
    BY <1>1
  <2>. QED
    BY <1>8, <2>1
<1>10. ASSUME NEW k \in 0 .. n - 1 PROVE f[k + 1] = Without(f[k], s[k + 1])
  <2>1. /\ 1 .. k + 1 \in SUBSET (1 .. n) /\ k \in Nat
        /\ k \in 0 .. n /\ k + 1 \in 0 .. n
    BY <1>1
  <2>2. /\ Max(1 .. k + 1) = k + 1 /\ (1 .. k + 1) \ {k + 1} = 1 .. k
        /\ 1 .. k + 1 # {}
    BY <2>1, LastPosition
  <2>3. it1[1 .. k + 1] = Without(it1[1 .. k], s[k + 1])
    BY <1>8, <2>1, <2>2
  <2>. QED
    BY <2>1, <2>3
<1>11. f[n] = Off(q0, s)
  BY <1>1, <1>2
<1>12. OffAlong(f, q0, s)
  BY <1>9, <1>10, <1>11 DEF n, OffAlong
<1>. QED
  BY <1>12 DEF HasOff

LEMMA OffNone == ASSUME NEW q0 \in Counting PROVE Off(q0, <<>>) = q0
<1>1. <<>> \in Seq(Nodes) /\ Len(<<>>) = 0
  OBVIOUS
<1>2. HasOff(q0, <<>>)
  BY <1>1, OffSteps
<1>. QED
  BY <1>1, <1>2 DEF HasOff, OffAlong

LEMMA OffAppend ==
    ASSUME NEW q0 \in Counting, NEW s \in Seq(Nodes), NEW x \in Nodes
    PROVE  Off(q0, Append(s, x)) = Without(Off(q0, s), x)
<1>. DEFINE n == Len(s)  t == Append(s, x)
<1>1. /\ n \in Nat /\ t \in Seq(Nodes) /\ Len(t) = n + 1 /\ t[n + 1] = x
      /\ \A k \in 1 .. n : t[k] = s[k]
  OBVIOUS
<1>. HIDE DEF t
<1>2. HasOff(q0, s) /\ HasOff(q0, t)
  BY <1>1, OffSteps
<1>3. PICK f : /\ f[0] = q0 /\ f[Len(s)] = Off(q0, s)
               /\ \A k \in 0 .. Len(s) - 1 : f[k + 1] = Without(f[k], s[k + 1])
  BY <1>2 DEF HasOff, OffAlong
<1>4. PICK g : /\ g[0] = q0 /\ g[Len(t)] = Off(q0, t)
               /\ \A k \in 0 .. Len(t) - 1 : g[k + 1] = Without(g[k], t[k + 1])
  BY <1>2 DEF HasOff, OffAlong
<1>. DEFINE K == {k \in Nat : k <= n => f[k] = g[k]}
<1>5. 0 \in K
  BY <1>3, <1>4
<1>6. ASSUME NEW k \in Nat, k \in K PROVE k + 1 \in K
  <2>. SUFFICES ASSUME k + 1 <= n PROVE f[k + 1] = g[k + 1]
    OBVIOUS
  <2>1. k \in 0 .. Len(s) - 1 /\ k \in 0 .. Len(t) - 1 /\ k + 1 \in 1 .. n /\ f[k] = g[k]
    BY <1>1, <1>6
  <2>. QED
    BY <1>1, <1>3, <1>4, <2>1
<1>. HIDE DEF K
<1>7. n \in K
  BY <1>1, <1>5, <1>6, NatSetInduction
<1>8. f[n] = g[n] /\ n \in 0 .. Len(t) - 1
  BY <1>1, <1>7 DEF K
<1>9. g[n + 1] = Without(g[n], t[n + 1])
  BY <1>4, <1>8
<1>. QED
  BY <1>1, <1>3, <1>4, <1>8, <1>9 DEF t

(* The edges off: each step has that many less, and those are ready that   *)
(* have none left.                                                         *)
OffIs(q0, s, q) ==
    /\ q \in Counting /\ \A m \in Nodes : q.inDegree[m] = q0.inDegree[m] - Count(s, {m})
    /\ Once(q.ready)
    /\ ToSet(q.ready) = ToSet(q0.ready) \cup {m \in ToSet(s) : q.inDegree[m] = 0}

LEMMA EdgesOff ==
    ASSUME NEW q0 \in Counting, Once(q0.ready), \A m \in ToSet(q0.ready) : q0.inDegree[m] = 0,
           NEW s \in Seq(Nodes), \A m \in Nodes : Count(s, {m}) <= q0.inDegree[m]
    PROVE  OffIs(q0, s, Off(q0, s))
<1>. DEFINE Fits(t) == \A m \in Nodes : Count(t, {m}) <= q0.inDegree[m]
            K == {t \in Seq(Nodes) : Fits(t) => OffIs(q0, t, Off(q0, t))}
<1>0. /\ q0.inDegree \in [Nodes -> Int] /\ q0.ready \in Seq(Nodes)
      /\ ToSet(q0.ready) \subseteq Nodes
  <2>1. q0.inDegree \in [Nodes -> Int] /\ q0.ready \in Seq(Nodes)
    BY DEF Counting
  <2>. QED
    BY <2>1, ToSetIn
<1>1. <<>> \in K
  <2>1. <<>> \in Seq(Nodes) /\ Off(q0, <<>>) = q0 /\ ToSet(<<>>) = {}
    BY OffNone, EmptyToSet
  <2>2. \A m \in Nodes : Count(<<>>, {m}) = 0
    BY CountEmpty
  <2>3. OffIs(q0, <<>>, q0)
    BY <1>0, <2>1, <2>2 DEF OffIs
  <2>. QED
    BY <2>1, <2>3
<1>2. ASSUME NEW t \in Seq(Nodes), NEW x \in Nodes, t \in K PROVE Append(t, x) \in K
  <2>. DEFINE u == Append(t, x)  a == Off(q0, t)  b == Off(q0, u)
  <2>. SUFFICES ASSUME Fits(u) PROVE OffIs(q0, u, b)
    OBVIOUS
  <2>1. \A m \in Nodes : /\ Count(t, {m}) \in Nat /\ q0.inDegree[m] \in Int
                         /\ Count(u, {m}) = Count(t, {m}) + (IF x = m THEN 1 ELSE 0)
    <3>. TAKE m \in Nodes
    <3>1. Count(t, {m}) \in Nat /\ Count(u, {m}) = Count(t, {m}) + (IF x \in {m} THEN 1 ELSE 0)
      BY CountFinite, CountAppend
    <3>. QED
      BY <1>0, <3>1
  <2>2. Fits(t)
    <3>. SUFFICES ASSUME NEW m \in Nodes PROVE Count(t, {m}) <= q0.inDegree[m]
      OBVIOUS
    <3>1. Count(u, {m}) <= q0.inDegree[m]
      OBVIOUS
    <3>. QED
      BY <2>1, <3>1
  <2>3. OffIs(q0, t, a)
    BY <1>2, <2>2
  <2>4. b = Without(a, x) /\ ToSet(u) = ToSet(t) \cup {x}
    BY OffAppend, AppendToSet
  <2>. HIDE DEF a, b, u
  <2>5. a \in Counting /\ a.inDegree \in [Nodes -> Int] /\ a.ready \in Seq(Nodes)
    BY <2>3 DEF OffIs, Counting
  <2>6. /\ b \in Counting /\ b.inDegree = [a.inDegree EXCEPT ![x] = @ - 1]
        /\ b.ready = IF a.inDegree[x] = 1 THEN Append(a.ready, x) ELSE a.ready
    BY <2>4, <2>5, WithoutTyped
  <2>7. ASSUME NEW m \in Nodes
        PROVE  /\ b.inDegree[m] = q0.inDegree[m] - Count(u, {m})
               /\ a.inDegree[m] \in Int /\ b.inDegree[m] >= 0
               /\ b.inDegree[m] = IF x = m THEN a.inDegree[m] - 1 ELSE a.inDegree[m]
    <3>1. a.inDegree[m] = q0.inDegree[m] - Count(t, {m})
      BY <2>3 DEF OffIs
    <3>2. a.inDegree[m] \in Int /\ q0.inDegree[m] \in Int /\ Count(t, {m}) \in Nat
      BY <2>1, <2>5
    <3>3. b.inDegree[m] = IF x = m THEN a.inDegree[m] - 1 ELSE a.inDegree[m]
      BY <2>5, <2>6
    <3>4. Count(u, {m}) <= q0.inDegree[m] /\ Count(u, {m}) = Count(t, {m}) + (IF x = m THEN 1 ELSE 0)
      BY <2>1
    <3>5. CASE x = m
      <4>1. Count(u, {m}) = Count(t, {m}) + 1 /\ b.inDegree[m] = a.inDegree[m] - 1
        BY <3>3, <3>4, <3>5
      <4>. QED
        BY ONLY <3>1, <3>2, <3>3, <3>4, <4>1
    <3>6. CASE x # m
      <4>1. Count(u, {m}) = Count(t, {m}) /\ b.inDegree[m] = a.inDegree[m]
        BY <3>2, <3>3, <3>4, <3>6
      <4>. QED
        BY ONLY <3>1, <3>2, <3>3, <3>4, <4>1
    <3>. QED
      BY <3>5, <3>6
  <2>7x. a.inDegree[x] \in Int /\ b.inDegree[x] = a.inDegree[x] - 1 /\ b.inDegree[x] >= 0
    BY <2>7
  <2>7o. \A m \in Nodes : m # x => b.inDegree[m] = a.inDegree[m]
    BY <2>7
  <2>8. \A m \in Nodes : b.inDegree[m] = q0.inDegree[m] - Count(u, {m})
    BY <2>7
  <2>9. /\ Once(a.ready)
        /\ ToSet(a.ready) = ToSet(q0.ready) \cup {m \in ToSet(t) : a.inDegree[m] = 0}
        /\ ToSet(t) \subseteq Nodes
    BY <2>3, ToSetIn DEF OffIs
  <2>10. x \in ToSet(q0.ready) => q0.inDegree[x] = 0
    OBVIOUS
  <2>11. a.inDegree[x] >= 1
    BY ONLY <2>7x
  <2>12. x \notin ToSet(q0.ready)
    <3>1. Count(u, {x}) <= q0.inDegree[x]
      OBVIOUS
    <3>2. Count(t, {x}) \in Nat /\ q0.inDegree[x] \in Int /\ Count(u, {x}) = Count(t, {x}) + 1
      BY <2>1
    <3>3. q0.inDegree[x] # 0
      BY ONLY <3>1, <3>2
    <3>. QED
      BY <2>10, <3>3
  <2>13. CASE a.inDegree[x] = 1
    <3>1. b.ready = Append(a.ready, x) /\ b.inDegree[x] = 0
      <4>1. b.inDegree[x] = 0
        BY ONLY <2>7x, <2>13
      <4>. QED
        BY <2>6, <2>13, <4>1
    <3>2. x \notin ToSet(a.ready)
      BY <2>9, <2>12, <2>13
    <3>3. Once(b.ready) /\ ToSet(b.ready) = ToSet(a.ready) \cup {x}
      BY <2>5, <2>9, <3>1, <3>2, OnceAppend, AppendToSet
    <3>4. \A m \in Nodes : m # x => b.inDegree[m] = a.inDegree[m]
      BY <2>7o
    <3>5. {m \in ToSet(u) : b.inDegree[m] = 0} = {m \in ToSet(t) : a.inDegree[m] = 0} \cup {x}
      <4>1. ASSUME NEW m \in ToSet(t), m # x PROVE b.inDegree[m] = a.inDegree[m]
        BY <2>9, <3>4, <4>1
      <4>2. a.inDegree[x] # 0
        BY <2>13
      <4>. QED
        BY <2>4, <3>1, <4>1, <4>2
    <3>. QED
      BY <2>6, <2>8, <2>9, <3>3, <3>5 DEF OffIs
  <2>14. CASE a.inDegree[x] # 1
    <3>1. b.ready = a.ready /\ b.inDegree[x] # 0 /\ a.inDegree[x] # 0
      <4>1. b.inDegree[x] # 0 /\ a.inDegree[x] # 0
        BY ONLY <2>7x, <2>11, <2>14
      <4>. QED
        BY <2>6, <2>14, <4>1
    <3>4. \A m \in Nodes : m # x => b.inDegree[m] = a.inDegree[m]
      BY <2>7o
    <3>5. {m \in ToSet(u) : b.inDegree[m] = 0} = {m \in ToSet(t) : a.inDegree[m] = 0}
      <4>1. ASSUME NEW m \in ToSet(t), m # x PROVE b.inDegree[m] = a.inDegree[m]
        BY <2>9, <3>4, <4>1
      <4>. QED
        BY <2>4, <3>1, <4>1
    <3>. QED
      BY <2>6, <2>8, <2>9, <3>1, <3>5 DEF OffIs
  <2>. QED
    BY <2>13, <2>14
<1>. HIDE DEF K
<1>3. s \in K
  BY <1>1, <1>2, SeqSetInduction
<1>. QED
  BY <1>3 DEF K

(* With one step more, its edges are no longer counted.                    *)
LEMMA LeftLoses ==
    ASSUME IsGraph, NEW done, NEW n \in Nodes, n \notin done, NEW m \in Nodes
    PROVE  InLeft(done)[m] = InLeft(done \cup {n})[m] + Occurs(m, edges[n])
<1>. DEFINE f == Left(done, m)  g == Left(done \cup {n}, m)
<1>1. \A x \in Nodes : f[x] \in Nat
  BY LeftIs
<1>2. /\ g[n] = 0 /\ f[n] = Occurs(m, edges[n])
      /\ \A x \in Nodes : x # n => g[x] = f[x]
  BY DEF Left
<1>. HIDE DEF f, g
<1>3. SumOver(f, Nodes) = SumOver(g, Nodes) + f[n]
  BY <1>1, <1>2, FiniteNodes, SumLoses
<1>4. InLeft(done)[m] = SumOver(f, Nodes) /\ InLeft(done \cup {n})[m] = SumOver(g, Nodes)
  BY DEF InLeft, f, g
<1>. QED
  BY <1>2, <1>3, <1>4

(* One round of the sort.                                                  *)
LEMMA SortKeeps == SortOk /\ Sort => SortOk'
<1>. SUFFICES ASSUME SortOk, Sort PROVE SortOk'
  OBVIOUS
<1>. DEFINE n == Head(ready)
            s == edges[n]
            q0 == [inDegree |-> inDegree, ready |-> Tail(ready)]
            q == Off(q0, s)
            done == ToSet(sorted)
<1>1. /\ ready # <<>> /\ inDegree' = q.inDegree /\ ready' = q.ready
      /\ sorted' = Append(sorted, n) /\ edges' = edges
  BY DEF Sort, Off
<1>2. /\ edges \in [Nodes -> Seq(Nodes)] /\ sorted \in Seq(Nodes) /\ ready \in Seq(Nodes)
      /\ Once(sorted) /\ Once(ready) /\ done \cap ToSet(ready) = {}
      /\ inDegree = InLeft(done)
      /\ \A m \in Nodes : m \in done \cup ToSet(ready) <=> inDegree[m] = 0
      /\ \A k \in DOMAIN sorted : \A x \in Nodes : Edge(x, sorted[k]) => Comes(k, x)
      /\ IsGraph
  BY DEF SortOk, IsGraph
<1>3. /\ n \in Nodes /\ Tail(ready) \in Seq(Nodes) /\ Once(Tail(ready))
      /\ n \notin ToSet(Tail(ready)) /\ ToSet(ready) = {n} \cup ToSet(Tail(ready))
  BY <1>1, <1>2, OnceTail
<1>4. s \in Seq(Nodes) /\ ToSet(s) \subseteq Nodes /\ n \notin done
  BY <1>2, <1>3, ToSetIn
<1>5. \A m \in Nodes : inDegree[m] \in Nat
  BY <1>2, LeftIs
<1>6. q0 \in Counting /\ q0.inDegree = inDegree /\ q0.ready = Tail(ready)
  <2>1. inDegree \in [Nodes -> Int]
    BY <1>2, <1>5 DEF InLeft
  <2>. QED
    BY <1>3, <2>1 DEF Counting
<1>7. \A m \in Nodes : /\ Count(s, {m}) = Occurs(m, s) /\ Occurs(m, s) \in Nat
                       /\ (Occurs(m, s) = 0 <=> m \notin ToSet(s))
  BY <1>4, OccursIs
<1>8. \A m \in Nodes : /\ inDegree[m] = InLeft(done \cup {n})[m] + Occurs(m, s)
                       /\ InLeft(done \cup {n})[m] \in Nat
  BY <1>2, <1>3, <1>4, LeftLoses, LeftIs
<1>. HIDE DEF q0, q, n, s
<1>9. OffIs(q0, s, q)
  <2>1. \A m \in ToSet(q0.ready) : q0.inDegree[m] = 0
    <3>1. ToSet(q0.ready) \subseteq ToSet(ready) /\ ToSet(ready) \subseteq Nodes
      BY <1>2, <1>3, <1>6, ToSetIn
    <3>. QED
      BY <1>2, <1>6, <3>1
  <2>2. ASSUME NEW m \in Nodes PROVE Count(s, {m}) <= q0.inDegree[m]
    <3>1. /\ q0.inDegree[m] = InLeft(done \cup {n})[m] + Count(s, {m})
          /\ InLeft(done \cup {n})[m] \in Nat /\ Count(s, {m}) \in Nat
      BY <1>6, <1>7, <1>8
    <3>. QED
      BY ONLY <3>1
  <2>3. Once(q0.ready)
    BY <1>3, <1>6
  <2>. QED
    BY <1>4, <1>6, <2>1, <2>2, <2>3, EdgesOff DEF q
<1>10. /\ q.inDegree \in [Nodes -> Int] /\ q.ready \in Seq(Nodes) /\ Once(q.ready)
       /\ \A m \in Nodes : q.inDegree[m] = inDegree[m] - Count(s, {m})
       /\ ToSet(q.ready) = ToSet(Tail(ready)) \cup {m \in ToSet(s) : q.inDegree[m] = 0}
  BY <1>6, <1>9 DEF OffIs, Counting
<1>11. q.inDegree = InLeft(done \cup {n})
  <2>1. ASSUME NEW m \in Nodes PROVE q.inDegree[m] = InLeft(done \cup {n})[m]
    <3>1. /\ q.inDegree[m] = inDegree[m] - Occurs(m, s) /\ Occurs(m, s) \in Nat
          /\ inDegree[m] = InLeft(done \cup {n})[m] + Occurs(m, s)
          /\ InLeft(done \cup {n})[m] \in Nat
      BY <1>7, <1>8, <1>10
    <3>. QED
      BY ONLY <3>1
  <2>. QED
    BY <1>10, <2>1 DEF InLeft
<1>12. ToSet(sorted') = done \cup {n} /\ sorted' \in Seq(Nodes) /\ Once(sorted')
  BY <1>1, <1>2, <1>3, <1>4, AppendToSet, OnceAppend
<1>13. inDegree' = InLeft(ToSet(sorted))'
  <2>1. InLeft(ToSet(sorted))' = InLeft(ToSet(sorted'))
    BY <1>1 DEF InLeft, Left
  <2>. QED
    BY <1>1, <1>11, <1>12, <2>1
<1>14. \A m \in ToSet(s) : inDegree[m] # 0
  <2>1. ASSUME NEW m \in ToSet(s) PROVE inDegree[m] # 0
    <3>1. /\ Occurs(m, s) \in Nat /\ Occurs(m, s) # 0
          /\ inDegree[m] = InLeft(done \cup {n})[m] + Occurs(m, s)
          /\ InLeft(done \cup {n})[m] \in Nat
      BY <1>4, <1>7, <1>8
    <3>. QED
      BY ONLY <3>1
  <2>. QED
    BY <2>1
<1>15. ToSet(sorted') \cap ToSet(ready') = {}
  <2>1. ToSet(Tail(ready)) \cap (done \cup {n}) = {}
    BY <1>2, <1>3
  <2>2. \A m \in done \cup {n} : m \in Nodes /\ inDegree[m] = 0
    <3>1. done \subseteq Nodes
      BY <1>2, ToSetIn
    <3>. QED
      BY <1>2, <1>3, <3>1
  <2>. QED
    BY <1>1, <1>10, <1>12, <1>14, <2>1, <2>2
<1>16. ASSUME NEW m \in Nodes
       PROVE  m \in ToSet(sorted') \cup ToSet(ready') <=> inDegree'[m] = 0
  <2>1. /\ inDegree'[m] = inDegree[m] - Occurs(m, s) /\ Occurs(m, s) \in Nat
        /\ inDegree[m] \in Nat
        /\ Occurs(m, s) = 0 <=> m \notin ToSet(s)
    BY <1>1, <1>5, <1>7, <1>10
  <2>2. m \in ToSet(sorted') \cup ToSet(ready') <=>
            m \in done \cup ToSet(ready) \/ (m \in ToSet(s) /\ inDegree'[m] = 0)
    BY <1>1, <1>3, <1>10, <1>12
  <2>3. CASE m \in ToSet(s)
    <3>1. inDegree[m] # 0
      BY <1>14, <2>3
    <3>. QED
      BY <1>2, <2>2, <2>3, <3>1
  <2>4. CASE m \notin ToSet(s)
    <3>1. inDegree'[m] = inDegree[m]
      <4>1. Occurs(m, s) = 0
        BY <2>1, <2>4
      <4>. QED
        BY ONLY <2>1, <4>1
    <3>. QED
      BY <1>2, <2>2, <2>4, <3>1
  <2>. QED
    BY <2>3, <2>4
<1>17. /\ DOMAIN sorted = 1 .. Len(sorted) /\ DOMAIN sorted' = 1 .. Len(sorted) + 1
       /\ Len(sorted) \in Nat /\ sorted'[Len(sorted) + 1] = n
       /\ \A k \in DOMAIN sorted : sorted'[k] = sorted[k] /\ k \in DOMAIN sorted'
  BY <1>1, <1>2
<1>18. ASSUME NEW k \in DOMAIN sorted', NEW x \in Nodes, Edge(x, sorted'[k])
       PROVE  \E i \in DOMAIN sorted' : i < k /\ sorted'[i] = x
  <2>2. CASE k \in DOMAIN sorted
    <3>1. PICK i \in DOMAIN sorted : i < k /\ sorted[i] = x
      BY <1>2, <1>17, <1>18, <2>2 DEF Comes
    <3>. QED
      BY <1>17, <3>1
  <2>3. CASE k \notin DOMAIN sorted
    <3>1. k = Len(sorted) + 1
      BY <1>17, <1>18, <2>3
    <3>2. x \in done
      <4>1. InLeft(done)[n] = 0
        BY <1>2, <1>3
      <4>2. Edge(x, n)
        BY <1>17, <1>18, <3>1
      <4>. QED
        BY <1>2, <1>3, <1>18, <4>1, <4>2, LeftIs
    <3>3. PICK i \in DOMAIN sorted : sorted[i] = x
      BY <3>2, InToSet
    <3>4. i < k
      BY <1>17, <3>1
    <3>. QED
      BY <1>17, <3>3, <3>4
  <2>. QED
    BY <2>2, <2>3
<1>19. /\ edges' \in [Nodes -> Seq(Nodes)] /\ sorted' \in Seq(Nodes) /\ ready' \in Seq(Nodes)
       /\ Once(sorted') /\ Once(ready') /\ ToSet(sorted') \cap ToSet(ready') = {}
  BY <1>1, <1>2, <1>10, <1>12, <1>15
<1>20. (\A k \in DOMAIN sorted : \A x \in Nodes : Edge(x, sorted[k]) => Comes(k, x))'
  BY <1>1, <1>18 DEF Edge, Comes
<1>21. (\A m \in Nodes : m \in ToSet(sorted) \cup ToSet(ready) <=> inDegree[m] = 0)'
  BY <1>16
<1>22. (Once(sorted) /\ Once(ready) /\ ToSet(sorted) \cap ToSet(ready) = {})'
  BY <1>19
<1>. QED
  BY <1>13, <1>19, <1>20, <1>21, <1>22 DEF SortOk

(* Before the first round all edges are left.                              *)
LEMMA InEdgesAre ==
    ASSUME IsGraph, NEW m \in Nodes
    PROVE  InEdges(m) = InLeft({})[m]
<1>. DEFINE g == [n \in Nodes |-> Occurs(m, edges[n])]
<1>1. g = Left({}, m)
  BY DEF Left
<1>2. MapThenSumSet(LAMBDA n : g[n], Nodes) = SumOver(g, Nodes)
  BY FiniteNodes, MapSumIsSum
<1>3. InEdges(m) = MapThenSumSet(LAMBDA n : g[n], Nodes)
  BY DEF InEdges, MapThenSumSet, MapThenFoldSet
<1>4. InLeft({})[m] = SumOver(g, Nodes)
  BY <1>1 DEF InLeft
<1>. QED
  BY <1>2, <1>3, <1>4

LEMMA SortBegins == GraphInit => SortOk
<1>. SUFFICES ASSUME GraphInit PROVE SortOk
  OBVIOUS
<1>1. /\ edges \in [Nodes -> Seq(Nodes)] /\ IsGraph /\ sorted = <<>>
      /\ inDegree = [m \in Nodes |-> InEdges(m)]
      /\ ready = Chosen(NodeOrder, Sources)
  BY GraphAssumption DEF GraphInit, IsGraph, Chosen
<1>2. \A m \in Nodes : InEdges(m) = InLeft({})[m]
  BY <1>1, InEdgesAre
<1>3. inDegree = InLeft({})
  BY <1>1, <1>2 DEF InLeft
<1>4. /\ ready \in Seq(Nodes) /\ ToSet(ready) = ToSet(NodeOrder) \cap Sources /\ Once(ready)
  BY <1>1, NodesAre, ChosenIs, ChosenOnce
<1>5. ToSet(ready) = Sources
  BY <1>4 DEF Nodes, Sources
<1>6. ToSet(sorted) = {} /\ sorted \in Seq(Nodes) /\ DOMAIN sorted = {}
  BY <1>1, EmptyToSet
<1>7. Once(sorted)
  BY <1>6 DEF Once
<1>8. \A m \in Nodes : m \in ToSet(sorted) \cup ToSet(ready) <=> inDegree[m] = 0
  BY <1>1, <1>5, <1>6 DEF Sources
<1>. QED
  BY <1>1, <1>3, <1>4, <1>6, <1>7, <1>8 DEF SortOk

-----------------------------------------------------------------------------
(* What leads to a step of the order was sorted before it.                 *)
LEMMA PathComes ==
    ASSUME SortOk, NEW k \in DOMAIN sorted, NEW n, <<n, sorted[k]>> \in Path
    PROVE  Comes(k, n)
<1>. DEFINE Before(x, z) == \A i \in DOMAIN sorted : sorted[i] = z => Comes(i, x)
            r == {p \in Nodes \X Nodes : Before(p[1], p[2])}
<1>1. \A x, z \in Nodes : <<x, z>> \in r <=> Before(x, z)
  OBVIOUS
<1>2. r \in SUBSET (Nodes \X Nodes)
  OBVIOUS
<1>. HIDE DEF r
<1>3. Edges \subseteq r
  <2>1. \A x, z \in Nodes : <<x, z>> \in Edges => Before(x, z)
    BY EdgesAre DEF SortOk
  <2>. QED
    BY <1>1, <2>1 DEF Edges
<1>4. Transitive(r)
  <2>. SUFFICES ASSUME NEW x \in Nodes, NEW y \in Nodes, NEW z \in Nodes,
                       Before(x, y), Before(y, z)
                PROVE  Before(x, z)
    BY <1>1 DEF Transitive
  <2>. SUFFICES ASSUME NEW i \in DOMAIN sorted, sorted[i] = z PROVE Comes(i, x)
    OBVIOUS
  <2>1. PICK j \in DOMAIN sorted : j < i /\ sorted[j] = y
    BY DEF Comes
  <2>2. PICK h \in DOMAIN sorted : h < j /\ sorted[h] = x
    BY <2>1 DEF Comes
  <2>3. h < i
    <3>1. h \in Int /\ j \in Int /\ i \in Int
      BY DEF SortOk
    <3>. QED
      BY ONLY <2>1, <2>2, <3>1
  <2>. QED
    BY <2>2, <2>3 DEF Comes
<1>5. <<n, sorted[k]>> \in r
  BY <1>2, <1>3, <1>4, PathCloses
<1>6. Before(n, sorted[k])
  BY <1>1, <1>5, PathSides
<1>. QED
  BY <1>6

(* The steps on a cycle, and those that no cycle leads to.                 *)
Cyclic == {n \in Nodes : <<n, n>> \in Path}
Acyclic == {m \in Nodes : \A n \in Cyclic : n # m /\ <<n, m>> \notin Path}

LEMMA NoneBefore ==
    ASSUME SortOk, NEW j \in DOMAIN sorted, NEW k \in DOMAIN sorted, k <= j
    PROVE  <<sorted[j], sorted[k]>> \notin Path
<1>. SUFFICES ASSUME <<sorted[j], sorted[k]>> \in Path PROVE FALSE
  OBVIOUS
<1>1. PICK i \in DOMAIN sorted : i < k /\ sorted[i] = sorted[j]
  BY PathComes DEF Comes
<1>2. i = j
  BY <1>1 DEF SortOk, Once
<1>3. j \in Int /\ k \in Int
  BY DEF SortOk
<1>. QED
  BY ONLY <1>1, <1>2, <1>3, k <= j

(* A step that is done is on no cycle, and no cycle leads to it.           *)
LEMMA DoneIsAcyclic == SortOk => ToSet(sorted) \subseteq Acyclic
<1>. SUFFICES ASSUME SortOk PROVE ToSet(sorted) \subseteq Acyclic
  OBVIOUS
<1>1. \A k \in DOMAIN sorted : sorted[k] \in Nodes /\ k <= k
  BY DEF SortOk
<1>2. ASSUME NEW k \in DOMAIN sorted PROVE sorted[k] \notin Cyclic
  BY <1>1, NoneBefore DEF Cyclic
<1>3. ASSUME NEW k \in DOMAIN sorted, NEW n \in Cyclic, <<n, sorted[k]>> \in Path PROVE FALSE
  <2>1. PICK i \in DOMAIN sorted : sorted[i] = n
    BY <1>3, PathComes DEF Comes
  <2>. QED
    BY <1>2, <1>3, <2>1
<1>4. \A k \in DOMAIN sorted : sorted[k] \in Acyclic
  BY <1>1, <1>2, <1>3 DEF Acyclic
<1>. QED
  BY <1>4, InToSet

(* When nothing is ready, a step that is not done has such a step before   *)
(* it; so, with finitely many steps, a cycle.                              *)
LEMMA AcyclicIsDone == SortOk /\ ready = <<>> => Acyclic \subseteq ToSet(sorted)
<1>. SUFFICES ASSUME SortOk, ready = <<>>, NEW m \in Acyclic, m \notin ToSet(sorted) PROVE FALSE
  OBVIOUS
<1>. DEFINE A == {a \in Nodes : a \notin ToSet(sorted) /\ (a = m \/ <<a, m>> \in Path)}
            Anc(a) == {n \in Nodes : <<n, a>> \in Path}
            K == {n \in Nat : \A a \in A : Cardinality(Anc(a)) >= n}
<1>1. m \in A
  BY DEF Acyclic
<1>2. ASSUME NEW a \in A PROVE \E b \in A : Edge(b, a)
  <2>1. ToSet(ready) = {}
    BY EmptyToSet
  <2>2. /\ InLeft(ToSet(sorted))[a] # 0 /\ IsGraph /\ a \in Nodes
    BY <2>1 DEF SortOk, IsGraph
  <2>3. PICK b \in Nodes : Edge(b, a) /\ b \notin ToSet(sorted)
    BY <2>2, LeftIs
  <2>4. <<b, m>> \in Path
    BY <2>3, EdgeIsPath, PathOn
  <2>. QED
    BY <2>3, <2>4
<1>3. \A a \in A : a \notin Cyclic
  BY DEF Acyclic
<1>4. \A a : IsFiniteSet(Anc(a)) /\ Cardinality(Anc(a)) \in Nat
  <2>1. \A a : Anc(a) \subseteq Nodes
    OBVIOUS
  <2>. QED
    BY <2>1, FiniteNodes, FS_Subset, FS_CardinalityType
<1>5. ASSUME NEW a \in A, NEW b \in A, Edge(b, a)
      PROVE  Cardinality(Anc(a)) > Cardinality(Anc(b))
  <2>1. Anc(b) \subseteq Anc(a)
    BY <1>5, EdgeIsPath, PathOn
  <2>2. b \in Anc(a) /\ b \notin Anc(b)
    BY <1>3, <1>5, EdgeIsPath DEF Cyclic
  <2>. HIDE DEF Anc, A
  <2>3. Cardinality(Anc(b)) <= Cardinality(Anc(a)) /\ Cardinality(Anc(b)) # Cardinality(Anc(a))
    BY <1>4, <2>1, <2>2, FS_Subset
  <2>. QED
    BY <1>4, <2>3
<1>. HIDE DEF A, Anc
<1>6. 0 \in K
  BY <1>4
<1>7. ASSUME NEW n \in Nat, n \in K PROVE n + 1 \in K
  <2>. SUFFICES ASSUME NEW a \in A PROVE Cardinality(Anc(a)) >= n + 1
    OBVIOUS
  <2>1. PICK b \in A : Edge(b, a)
    BY <1>2
  <2>2. Cardinality(Anc(a)) > Cardinality(Anc(b)) /\ Cardinality(Anc(b)) >= n
    BY <1>5, <1>7, <2>1
  <2>3. Cardinality(Anc(a)) \in Nat /\ Cardinality(Anc(b)) \in Nat
    BY <1>4
  <2>. QED
    BY ONLY <2>2, <2>3, n \in Nat
<1>. HIDE DEF K
<1>8. Nat \subseteq K
  BY <1>6, <1>7, NatSetInduction
<1>9. Cardinality(Anc(m)) + 1 \in K
  BY <1>4, <1>8
<1>10. Cardinality(Anc(m)) >= Cardinality(Anc(m)) + 1
  BY <1>1, <1>9 DEF K
<1>. QED
  BY <1>4, <1>10

(* All that the order promises, whatever the search has come to.           *)
WellOrdered ==
    /\ \A j, k \in DOMAIN sorted : k <= j => <<sorted[j], sorted[k]>> \notin Path
    /\ ToSet(sorted) = Acyclic /\ IsInjective(sorted)
    /\ Len(sorted) # Len(NodeOrder) <=> Cyclic # {}

LEMMA OrderIsRight == SortOk /\ ready = <<>> => WellOrdered
<1>. SUFFICES ASSUME SortOk, ready = <<>> PROVE WellOrdered
  OBVIOUS
<1>1. ToSet(sorted) = Acyclic
  BY DoneIsAcyclic, AcyclicIsDone
<1>2. sorted \in Seq(Nodes) /\ Once(sorted)
  BY DEF SortOk
<1>3. /\ IsFiniteSet(Nodes) /\ Len(NodeOrder) = Cardinality(Nodes)
      /\ Len(sorted) = Cardinality(Acyclic) /\ Acyclic \subseteq Nodes
  BY <1>1, <1>2, FiniteNodes, OnceCardinality DEF Acyclic
<1>4. Len(sorted) = Len(NodeOrder) <=> Acyclic = Nodes
  BY <1>3, FS_Subset
<1>5. Acyclic = Nodes <=> Cyclic = {}
  BY DEF Acyclic, Cyclic
<1>. QED
  BY <1>1, <1>2, <1>4, <1>5, NoneBefore DEF WellOrdered, IsInjective, Once

-----------------------------------------------------------------------------
(* The search.  The calls under way are a path from the target, none but   *)
(* the first of them the step that refers, and every edge that was gone    *)
(* through came to nothing.                                                *)
Frame == [node : Nodes, edge : Nat]
Seen(c, k) == IF k = Len(c) THEN c[k].edge - 1 ELSE c[k].edge - 2
Fruitless(n, e) == edges[n][e] # ref /\ <<edges[n][e], ref>> \notin Path

CallsOk(c) ==
    /\ c \in Seq(Frame) /\ Len(c) >= 1 /\ c[1].node = target
    /\ \A k \in 1 .. Len(c) : /\ c[k].edge >= 1 /\ c[k].edge <= Len(edges[c[k].node]) + 1
                              /\ k >= 2 => c[k].node # ref
                              /\ \A e \in 1 .. Seen(c, k) : Fruitless(c[k].node, e)
    /\ \A k \in 1 .. Len(c) - 1 : /\ c[k].edge >= 2
                                  /\ edges[c[k].node][c[k].edge - 1] = c[k + 1].node
    /\ \A j, k \in 1 .. Len(c) : j < k => <<c[j].node, c[k].node>> \in Path

LEMMA EdgeAt ==
    ASSUME IsGraph, NEW n \in Nodes
    PROVE  /\ Len(edges[n]) \in Nat
           /\ \A e \in 1 .. Len(edges[n]) : edges[n][e] \in Nodes /\ Edge(n, edges[n][e])
           /\ \A b : Edge(n, b) => \E e \in 1 .. Len(edges[n]) : edges[n][e] = b
<1>1. edges[n] \in Seq(Nodes)
  BY DEF IsGraph
<1>. HIDE DEF IsGraph
<1>2. DOMAIN edges[n] = 1 .. Len(edges[n]) /\ Len(edges[n]) \in Nat
  BY <1>1
<1>3. \A e \in 1 .. Len(edges[n]) : edges[n][e] \in Nodes
  BY <1>1
<1>4. \A b : b \in ToSet(edges[n]) <=> \E e \in DOMAIN edges[n] : edges[n][e] = b
  BY InToSet
<1>. QED
  BY <1>2, <1>3, <1>4 DEF Edge

(* A step all of whose edges are fruitless does not lead to ref.           *)
LEMMA NoWay ==
    ASSUME IsGraph, NEW n \in Nodes, \A e \in 1 .. Len(edges[n]) : Fruitless(n, e)
    PROVE  <<n, ref>> \notin Path
<1>. SUFFICES ASSUME <<n, ref>> \in Path PROVE FALSE
  OBVIOUS
<1>1. PICK b \in Nodes : Edge(n, b) /\ (b = ref \/ <<b, ref>> \in Path)
  BY FirstEdge
<1>2. PICK e \in 1 .. Len(edges[n]) : edges[n][e] = b
  BY <1>1, EdgeAt
<1>. QED
  BY <1>1, <1>2 DEF Fruitless

(* The call on top of the stack.                                           *)
LEMMA CallsTop ==
    ASSUME IsGraph, CallsOk(calls)
    PROVE  /\ Len(calls) \in Nat \ {0} /\ Last(calls) = calls[Len(calls)]
           /\ Last(calls).node \in Nodes /\ Last(calls).edge \in Nat
           /\ Last(calls).edge >= 1 /\ Last(calls).edge <= Len(edges[Last(calls).node]) + 1
           /\ \A e \in 1 .. Last(calls).edge - 1 : Fruitless(Last(calls).node, e)
<1>1. calls \in Seq(Frame) /\ Len(calls) >= 1 /\ Len(calls) \in Nat
  BY DEF CallsOk
<1>2. Len(calls) \in 1 .. Len(calls) /\ Last(calls) = calls[Len(calls)] /\ Last(calls) \in Frame
  BY <1>1 DEF Last
<1>3. Seen(calls, Len(calls)) = Last(calls).edge - 1
  BY <1>2 DEF Seen
<1>. QED
  BY <1>1, <1>2, <1>3 DEF CallsOk, Frame

(* A call returns FALSE: the edge that it was made for came to nothing.    *)
LEMMA PopKeeps ==
    ASSUME IsGraph, CallsOk(calls), Len(calls) # 1,
           Last(calls).edge > Len(edges[Last(calls).node])
    PROVE  CallsOk(Front(calls))
<1>. DEFINE n == Len(calls)  c == Front(calls)  top == Last(calls)
<1>1. /\ calls \in Seq(Frame) /\ n \in Nat /\ n >= 2 /\ top = calls[n]
      /\ top.node \in Nodes /\ top.edge \in Nat
      /\ top.edge = Len(edges[top.node]) + 1 /\ Len(edges[top.node]) \in Nat
      /\ \A e \in 1 .. top.edge - 1 : Fruitless(top.node, e)
  <2>1. /\ n \in Nat \ {0} /\ top = calls[n] /\ top.node \in Nodes /\ top.edge \in Nat
        /\ top.edge <= Len(edges[top.node]) + 1
        /\ \A e \in 1 .. top.edge - 1 : Fruitless(top.node, e)
    BY CallsTop
  <2>2. calls \in Seq(Frame)
    BY DEF CallsOk
  <2>. HIDE DEF top, n
  <2>3. Len(edges[top.node]) \in Nat
    BY <2>1, EdgeAt
  <2>4. n # 1 /\ top.edge > Len(edges[top.node])
    BY DEF n, top
  <2>5. n >= 2 /\ top.edge = Len(edges[top.node]) + 1
    BY ONLY <2>1, <2>3, <2>4
  <2>. QED
    BY <2>1, <2>2, <2>3, <2>5
<1>2. top.node # ref
  BY <1>1 DEF CallsOk
<1>3. <<top.node, ref>> \notin Path
  <2>1. 1 .. top.edge - 1 = 1 .. Len(edges[top.node])
    BY <1>1
  <2>. QED
    BY <1>1, <2>1, NoWay
<1>4. c \in Seq(Frame) /\ Len(c) = n - 1 /\ \A k \in 1 .. n - 1 : c[k] = calls[k]
  BY <1>1 DEF Front
<1>. HIDE DEF c, top, n
<1>5. \A k \in 1 .. n - 1 : calls[k].node \in Nodes /\ calls[k].edge \in Nat
  <2>1. \A k \in 1 .. n - 1 : calls[k] \in Frame
    <3>1. \A k \in 1 .. Len(calls) : calls[k] \in Frame
      BY <1>1
    <3>2. \A k \in 1 .. n - 1 : k \in 1 .. n
      BY <1>1
    <3>. QED
      BY <3>1, <3>2 DEF n
  <2>. QED
    BY <2>1 DEF Frame
<1>6. ASSUME NEW k \in 1 .. n - 1
      PROVE  /\ c[k].edge >= 1 /\ c[k].edge <= Len(edges[c[k].node]) + 1
             /\ k >= 2 => c[k].node # ref
             /\ calls[k].edge >= 2 /\ edges[calls[k].node][calls[k].edge - 1] = calls[k + 1].node
             /\ \A e \in 1 .. calls[k].edge - 2 : Fruitless(calls[k].node, e)
  <2>1. k \in 1 .. n /\ k \in 1 .. n - 1 /\ k # n
    BY <1>1
  <2>2. Seen(calls, k) = calls[k].edge - 2
    BY <2>1 DEF Seen, n
  <2>. QED
    BY <1>4, <2>1, <2>2 DEF CallsOk, n
<1>7. ASSUME NEW k \in 1 .. n - 1, NEW e \in 1 .. Seen(c, k)
      PROVE  Fruitless(c[k].node, e)
  <2>1. CASE k = n - 1
    <3>1. Seen(c, k) = calls[k].edge - 1 /\ calls[k].edge \in Nat
      BY <1>4, <1>5, <2>1 DEF Seen
    <3>2. e \in 1 .. calls[k].edge - 2 \/ e = calls[k].edge - 1
      BY ONLY <3>1, e \in 1 .. Seen(c, k)
    <3>3. edges[calls[k].node][calls[k].edge - 1] = top.node
      <4>1. k + 1 = n
        BY <1>1, <2>1
      <4>. QED
        BY <1>1, <1>6, <4>1
    <3>4. Fruitless(calls[k].node, calls[k].edge - 1)
      BY <1>2, <1>3, <3>3 DEF Fruitless
    <3>. QED
      BY <1>4, <1>6, <3>2, <3>4
  <2>2. CASE k # n - 1
    <3>1. Seen(c, k) = calls[k].edge - 2
      BY <1>4, <2>2 DEF Seen
    <3>. QED
      BY <1>4, <1>6, <3>1
  <2>. QED
    BY <2>1, <2>2
<1>8. ASSUME NEW k \in 1 .. Len(c) - 1
      PROVE  c[k].edge >= 2 /\ edges[c[k].node][c[k].edge - 1] = c[k + 1].node
  <2>1. k \in 1 .. n - 1 /\ k + 1 \in 1 .. n - 1
    BY <1>1, <1>4
  <2>. QED
    BY <1>4, <1>6, <2>1
<1>9. ASSUME NEW j \in 1 .. Len(c), NEW k \in 1 .. Len(c), j < k
      PROVE  <<c[j].node, c[k].node>> \in Path
  <2>1. j \in 1 .. n - 1 /\ k \in 1 .. n - 1 /\ j \in 1 .. n /\ k \in 1 .. n
    BY <1>1, <1>4
  <2>. QED
    BY <1>4, <1>9, <2>1 DEF CallsOk, n
<1>10. Len(c) >= 1 /\ c[1].node = target
  <2>1. Len(c) >= 1 /\ 1 \in 1 .. n - 1
    BY <1>1, <1>4
  <2>. QED
    BY <1>4, <2>1 DEF CallsOk
<1>11. CallsOk(c)
  BY <1>4, <1>6, <1>7, <1>8, <1>9, <1>10 DEF CallsOk
<1>. QED
  BY <1>11 DEF c

(* A call is made for the next edge.                                       *)
Pushed(c) == LET top == Last(c)  end == edges[top.node][top.edge] IN
             Append(Append(Front(c), [top EXCEPT !.edge = @ + 1]), Call(end))

LEMMA FrontIs ==
    ASSUME NEW T, NEW c \in Seq(T), c # <<>>
    PROVE  /\ Front(c) \in Seq(T) /\ Len(Front(c)) = Len(c) - 1
           /\ \A k \in 1 .. Len(c) - 1 : Front(c)[k] = c[k]
<1>1. Len(c) \in Nat /\ Len(c) >= 1
  BY EmptySeq
<1>. DEFINE m == Len(c) - 1
<1>2. m \in Nat /\ m <= Len(c)
  BY ONLY <1>1
<1>3. Front(c) = SubSeq(c, 1, m)
  BY DEF Front
<1>. HIDE DEF m
<1>4. SubSeq(c, 1, m) \in Seq(T) /\ Len(SubSeq(c, 1, m)) = m
  BY <1>2
<1>5. \A k \in 1 .. m : SubSeq(c, 1, m)[k] = c[k]
  BY <1>2
<1>. QED
  BY <1>3, <1>4, <1>5 DEF m

LEMMA PushIs ==
    ASSUME NEW c \in Seq(Frame), c # <<>>, NEW b \in Nodes,
           b = edges[Last(c).node][Last(c).edge]
    PROVE  /\ Pushed(c) \in Seq(Frame) /\ Len(Pushed(c)) = Len(c) + 1
           /\ \A k \in 1 .. Len(c) - 1 : Pushed(c)[k] = c[k]
           /\ Pushed(c)[Len(c)].node = Last(c).node
           /\ Pushed(c)[Len(c)].edge = Last(c).edge + 1
           /\ Pushed(c)[Len(c) + 1].node = b /\ Pushed(c)[Len(c) + 1].edge = 1
<1>. DEFINE n == Len(c)  top == Last(c)  p == Front(c)
            t == [top EXCEPT !.edge = @ + 1]
<1>1. /\ n \in Nat \ {0} /\ top = c[n] /\ top \in Frame
      /\ p \in Seq(Frame) /\ Len(p) = n - 1 /\ \A k \in 1 .. n - 1 : p[k] = c[k]
  <2>1. n \in Nat \ {0} /\ n \in 1 .. n
    BY EmptySeq
  <2>2. top = c[n] /\ top \in Frame
    BY <2>1 DEF Last
  <2>4. p \in Seq(Frame) /\ Len(p) = n - 1 /\ \A k \in 1 .. n - 1 : p[k] = c[k]
    BY FrontIs
  <2>. QED
    BY <2>1, <2>2, <2>4
<1>2. t \in Frame /\ t.node = top.node /\ t.edge = top.edge + 1
  BY <1>1 DEF Frame
<1>3. Call(b) \in Frame /\ Call(b).node = b /\ Call(b).edge = 1
  BY DEF Call, Frame
<1>4. Pushed(c) = Append(Append(p, t), Call(b))
  BY DEF Pushed
<1>. HIDE DEF p, t, top
<1>5. /\ Append(p, t) \in Seq(Frame) /\ Len(Append(p, t)) = n
      /\ \A k \in 1 .. n - 1 : Append(p, t)[k] = p[k]
      /\ Append(p, t)[n] = t
  BY <1>1, <1>2
<1>6. /\ Append(Append(p, t), Call(b)) \in Seq(Frame)
      /\ Len(Append(Append(p, t), Call(b))) = n + 1
      /\ \A k \in 1 .. n : Append(Append(p, t), Call(b))[k] = Append(p, t)[k]
      /\ Append(Append(p, t), Call(b))[n + 1] = Call(b)
  BY <1>1, <1>3, <1>5
<1>7. \A k \in 1 .. n - 1 : k \in 1 .. n
  BY <1>1
<1>8. n \in 1 .. n
  BY <1>1
<1>. QED
  BY <1>1, <1>2, <1>3, <1>4, <1>5, <1>6, <1>7, <1>8 DEF top

LEMMA PushKeeps ==
    ASSUME IsGraph, CallsOk(calls),
           Last(calls).edge <= Len(edges[Last(calls).node]),
           edges[Last(calls).node][Last(calls).edge] # ref
    PROVE  CallsOk(Pushed(calls))
<1>. DEFINE n == Len(calls)  c == Pushed(calls)  top == Last(calls)
            b == edges[top.node][top.edge]
<1>1. /\ n \in Nat \ {0} /\ top = calls[n] /\ top.node \in Nodes /\ top.edge \in Nat
      /\ top.edge >= 1 /\ \A e \in 1 .. top.edge - 1 : Fruitless(top.node, e)
  BY CallsTop
<1>2. calls \in Seq(Frame) /\ calls # <<>>
  BY <1>1 DEF CallsOk
<1>3. /\ top.edge \in 1 .. Len(edges[top.node]) /\ Len(edges[top.node]) \in Nat
      /\ top.edge <= Len(edges[top.node])
  BY <1>1, EdgeAt
<1>4. b \in Nodes /\ Edge(top.node, b) /\ b # ref
  BY <1>1, <1>3, EdgeAt
<1>5. /\ c \in Seq(Frame) /\ Len(c) = n + 1
      /\ \A k \in 1 .. n - 1 : c[k] = calls[k]
      /\ c[n].node = top.node /\ c[n].edge = top.edge + 1
      /\ c[n + 1].node = b /\ c[n + 1].edge = 1
  BY <1>2, <1>4, PushIs
<1>. HIDE DEF c, top, n, b
<1>6. \A k \in 1 .. n + 1 : k \in 1 .. n - 1 \/ k = n \/ k = n + 1
  BY <1>1
<1>7. \A k \in 1 .. n - 1 : k \in 1 .. n /\ k # n
  BY <1>1
<1>8. Len(edges[b]) \in Nat
  BY <1>4, EdgeAt
<1>9. ASSUME NEW k \in 1 .. n - 1
      PROVE  /\ c[k].edge >= 1 /\ c[k].edge <= Len(edges[c[k].node]) + 1
             /\ k >= 2 => c[k].node # ref
             /\ c[k].edge >= 2 /\ edges[c[k].node][c[k].edge - 1] = calls[k + 1].node
             /\ Seen(c, k) = Seen(calls, k)
             /\ \A e \in 1 .. Seen(c, k) : Fruitless(c[k].node, e)
  <2>1. k \in 1 .. n /\ k # n /\ k # n + 1
    BY <1>1
  <2>2. c[k] = calls[k] /\ Seen(c, k) = Seen(calls, k)
    BY <1>5, <2>1 DEF Seen, n
  <2>. QED
    BY <2>1, <2>2 DEF CallsOk, n
<1>10. /\ c[n].edge >= 2 /\ c[n].edge <= Len(edges[c[n].node]) + 1
       /\ n >= 2 => c[n].node # ref
       /\ edges[c[n].node][c[n].edge - 1] = c[n + 1].node
       /\ \A e \in 1 .. Seen(c, n) : Fruitless(c[n].node, e)
  <2>1. n \in 1 .. n /\ n # n + 1
    BY <1>1
  <2>2. n >= 2 => top.node # ref
    BY <1>1, <2>1 DEF CallsOk, n
  <2>3. Seen(c, n) = top.edge - 1
    <3>1. Seen(c, n) = c[n].edge - 2
      BY <1>5, <2>1 DEF Seen
    <3>. QED
      BY <1>1, <1>5, <3>1
  <2>4. c[n].edge - 1 = top.edge
    BY <1>1, <1>5
  <2>5. top.edge + 1 >= 2 /\ top.edge + 1 <= Len(edges[top.node]) + 1
    BY ONLY <1>1, <1>3
  <2>. QED
    BY <1>1, <1>5, <2>2, <2>3, <2>4, <2>5 DEF b
<1>11. /\ c[n + 1].edge >= 1 /\ c[n + 1].edge <= Len(edges[c[n + 1].node]) + 1
       /\ c[n + 1].node # ref
       /\ \A e \in 1 .. Seen(c, n + 1) : Fruitless(c[n + 1].node, e)
  <2>1. Seen(c, n + 1) = 0
    BY <1>5 DEF Seen
  <2>. QED
    BY <1>4, <1>5, <1>8, <2>1
<1>12. ASSUME NEW k \in 1 .. Len(c)
       PROVE  /\ c[k].edge >= 1 /\ c[k].edge <= Len(edges[c[k].node]) + 1
              /\ k >= 2 => c[k].node # ref
              /\ \A e \in 1 .. Seen(c, k) : Fruitless(c[k].node, e)
  <2>1. CASE k \in 1 .. n - 1
    BY <1>9, <2>1
  <2>2. CASE k = n
    <3>1. c[n].edge \in Int
      BY <1>1, <1>5
    <3>2. c[n].edge >= 1
      BY ONLY <3>1, <1>10
    <3>. QED
      BY <1>10, <2>2, <3>2
  <2>3. CASE k = n + 1
    BY <1>11, <2>3
  <2>. QED
    BY <1>5, <1>6, <2>1, <2>2, <2>3
<1>13. ASSUME NEW k \in 1 .. Len(c) - 1
       PROVE  c[k].edge >= 2 /\ edges[c[k].node][c[k].edge - 1] = c[k + 1].node
  <2>1. CASE k = n
    BY <1>10, <2>1
  <2>2. CASE k # n
    <3>1. k \in 1 .. n - 1
      BY <1>1, <1>5, <2>2
    <3>2. c[k + 1].node = calls[k + 1].node
      <4>1. k + 1 = n \/ k + 1 \in 1 .. n - 1
        BY <1>1, <3>1
      <4>. QED
        BY <1>1, <1>5, <4>1
    <3>. QED
      BY <1>9, <3>1, <3>2
  <2>. QED
    BY <2>1, <2>2
<1>14. \A k \in 1 .. n : c[k].node = calls[k].node
  <2>1. \A k \in 1 .. n : k \in 1 .. n - 1 \/ k = n
    BY <1>1
  <2>. QED
    BY <1>1, <1>5, <2>1
<1>15. \A k \in 1 .. n : <<c[k].node, b>> \in Path
  <2>1. <<top.node, b>> \in Path
    BY <1>4, EdgeIsPath
  <2>2. ASSUME NEW k \in 1 .. n, k # n PROVE <<calls[k].node, top.node>> \in Path
    <3>1. n \in 1 .. n /\ k < n
      BY <1>1, <2>2
    <3>. QED
      BY <1>1, <3>1 DEF CallsOk, n
  <2>. QED
    BY <1>1, <1>14, <2>1, <2>2, PathOn
<1>16. ASSUME NEW j \in 1 .. Len(c), NEW k \in 1 .. Len(c), j < k
       PROVE  <<c[j].node, c[k].node>> \in Path
  <2>1. j \in 1 .. n /\ (k \in 1 .. n \/ k = n + 1)
    BY <1>1, <1>5, <1>16
  <2>2. CASE k = n + 1
    BY <1>5, <1>15, <2>1, <2>2
  <2>3. CASE k \in 1 .. n
    BY <1>14, <1>16, <2>1, <2>3 DEF CallsOk, n
  <2>. QED
    BY <2>1, <2>2, <2>3
<1>17. Len(c) >= 1 /\ c[1].node = target
  <2>1. 1 \in 1 .. n /\ n + 1 >= 1
    BY <1>1
  <2>. QED
    BY <1>5, <1>14, <2>1 DEF CallsOk
<1>18. CallsOk(c)
  BY <1>5, <1>12, <1>13, <1>16, <1>17 DEF CallsOk
<1>. QED
  BY <1>18 DEF c

-----------------------------------------------------------------------------
(* The inductive invariant: the sort so far; its result, once nothing is   *)
(* ready; and the search.                                                  *)
SearchInv ==
    /\ SortOk /\ cycleFound \in BOOLEAN /\ ref \in Nodes /\ target \in Nodes
    /\ calls \in Seq(Frame)
    /\ answer \in {"sorting", "sorted", "searching", "yes", "no", "overflow"}
    /\ answer # "sorting" => /\ ready = <<>>
                             /\ cycleFound <=> Len(sorted) # Len(NodeOrder)
    /\ answer = "searching" => CallsOk(calls)
    /\ answer \in {"yes", "no"} => (answer = "yes" <=> <<target, ref>> \in Path)
    /\ answer = "overflow" => cycleFound

LEMMA SearchBegins == GraphInit => SearchInv
<1>1. NodeOrder[1] \in Nodes
  BY NodesAre
<1>2. <<>> \in Seq(Frame)
  BY EmptyToSet
<1>. QED
  BY <1>1, <1>2, SortBegins DEF GraphInit, SearchInv

LEMMA SameGraph == edges' = edges => Path' = Path
BY DEF Path, FoldLeft, MapThenFoldSet

LEMMA SameOrder ==
    SortOk /\ UNCHANGED <<edges, inDegree, ready, sorted>> => SortOk'
BY DEF SortOk, Comes, Edge, InLeft, Left

LEMMA SortStep == SearchInv /\ Sort => SearchInv'
<1>. SUFFICES ASSUME SearchInv, Sort PROVE SearchInv'
  OBVIOUS
<1>1. SortOk'
  BY SortKeeps DEF SearchInv
<1>2. /\ answer = "sorting" /\ answer' = answer /\ cycleFound' = cycleFound
      /\ ref' = ref /\ target' = target /\ calls' = calls
  BY DEF Sort
<1>. QED
  BY <1>1, <1>2 DEF SearchInv

LEMMA SortEndsStep == SearchInv /\ SortEnds => SearchInv'
<1>. SUFFICES ASSUME SearchInv, SortEnds PROVE SearchInv'
  OBVIOUS
<1>1. SortOk'
  BY SameOrder DEF SearchInv, SortEnds
<1>2. /\ answer' = "sorted" /\ ready' = <<>> /\ ref' = ref /\ target' = target /\ calls' = calls
      /\ cycleFound' = (Len(sorted') # Len(NodeOrder))
  BY DEF SortEnds
<1>3. cycleFound' \in BOOLEAN /\ (cycleFound' <=> Len(sorted') # Len(NodeOrder))
  BY <1>2
<1>. QED
  BY <1>1, <1>2, <1>3 DEF SearchInv

LEMMA FirstCall ==
    IsGraph /\ target \in Nodes => CallsOk(<<Call(target)>>)
<1>. SUFFICES ASSUME IsGraph, target \in Nodes PROVE CallsOk(<<Call(target)>>)
  OBVIOUS
<1>. DEFINE t == target  c == <<Call(t)>>
<1>1. /\ c \in Seq(Frame) /\ Len(c) = 1 /\ c[1].node = t /\ c[1].edge = 1
  BY DEF Call, Frame
<1>. HIDE DEF c
<1>2. Len(edges[t]) \in Nat
  BY EdgeAt
<1>3. Seen(c, 1) = 0 /\ \A k \in 1 .. Len(c) : k = 1
  BY <1>1 DEF Seen
<1>4. CallsOk(c)
  BY <1>1, <1>2, <1>3 DEF CallsOk
<1>. QED
  BY <1>4 DEF c

LEMMA SearchStep == SearchInv /\ (\E s, t \in Nodes : Search(s, t)) => SearchInv'
<1>. SUFFICES ASSUME SearchInv, NEW s \in Nodes, NEW t \in Nodes, Search(s, t)
              PROVE  SearchInv'
  OBVIOUS
<1>1. SortOk'
  BY SameOrder DEF SearchInv, Search
<1>2. /\ answer = "sorted" /\ ref' = s /\ target' = t /\ calls' = <<Call(t)>>
      /\ answer' = "searching" /\ ready' = ready /\ sorted' = sorted
      /\ cycleFound' = cycleFound
  BY DEF Search
<1>3. IsGraph'
  BY <1>1 DEF SortOk, IsGraph
<1>4. CallsOk(<<Call(target)>>)'
  <2>1. IsGraph' /\ (target \in Nodes)' => CallsOk(<<Call(target)>>)'
    BY FirstCall, PTL
  <2>. QED
    BY <1>2, <1>3, <2>1
<1>5. CallsOk(calls)'
  BY <1>2, <1>4
<1>6. calls' \in Seq(Frame)
  BY <1>5 DEF CallsOk
<1>. QED
  BY <1>1, <1>2, <1>5, <1>6 DEF SearchInv

LEMMA SameCalls ==
    /\ UNCHANGED <<edges, ref, target>> => (CallsOk(calls)' <=> CallsOk(calls'))
    /\ UNCHANGED <<edges, inDegree, ready, sorted, cycleFound, ref, target>> =>
           (SearchInv' <=>
                /\ SortOk /\ cycleFound \in BOOLEAN /\ ref \in Nodes /\ target \in Nodes
                /\ calls' \in Seq(Frame)
                /\ answer' \in {"sorting", "sorted", "searching", "yes", "no", "overflow"}
                /\ answer' # "sorting" => /\ ready = <<>>
                                          /\ cycleFound <=> Len(sorted) # Len(NodeOrder)
                /\ answer' = "searching" => CallsOk(calls')
                /\ answer' \in {"yes", "no"} => (answer' = "yes" <=> <<target, ref>> \in Path)
                /\ answer' = "overflow" => cycleFound)
<1>1. ASSUME UNCHANGED <<edges, ref, target>> PROVE CallsOk(calls)' <=> CallsOk(calls')
  <2>1. Path' = Path
    BY <1>1, SameGraph
  <2>. QED
    BY <1>1, <2>1 DEF CallsOk, Fruitless, Seen
<1>2. ASSUME UNCHANGED <<edges, inDegree, ready, sorted, cycleFound, ref, target>>
      PROVE  SortOk' <=> SortOk
  BY <1>2 DEF SortOk, Comes, Edge, InLeft, Left
<1>3. ASSUME UNCHANGED <<edges, inDegree, ready, sorted, cycleFound, ref, target>>
      PROVE  Path' = Path
  BY <1>3, SameGraph
<1>. QED
  BY <1>1, <1>2, <1>3 DEF SearchInv

LEMMA LookStep == SearchInv /\ Look => SearchInv'
<1>. SUFFICES ASSUME SearchInv, Look PROVE SearchInv'
  OBVIOUS
<1>. DEFINE top == Last(calls)  n == top.node  end == edges[n][top.edge]
<1>1. /\ answer = "searching"
      /\ UNCHANGED <<edges, inDegree, ready, sorted, cycleFound, ref, target>>
  BY DEF Look
<1>2. /\ SortOk /\ cycleFound \in BOOLEAN /\ ref \in Nodes /\ target \in Nodes
      /\ ready = <<>> /\ (cycleFound <=> Len(sorted) # Len(NodeOrder))
      /\ CallsOk(calls) /\ IsGraph
  BY <1>1 DEF SearchInv, SortOk, IsGraph
<1>3. /\ Len(calls) \in Nat \ {0} /\ top = calls[Len(calls)]
      /\ n \in Nodes /\ top.edge \in Nat /\ top.edge >= 1 /\ top.edge <= Len(edges[n]) + 1
      /\ \A e \in 1 .. top.edge - 1 : Fruitless(n, e)
  BY <1>2, CallsTop
<1>4. Len(edges[n]) \in Nat
  BY <1>2, <1>3, EdgeAt
<1>5. calls[1].node = target /\ \A j \in 1 .. Len(calls) : j = Len(calls) \/ <<calls[j].node, n>> \in Path
  <2>1. Len(calls) \in 1 .. Len(calls) /\ \A j \in 1 .. Len(calls) : j = Len(calls) \/ j < Len(calls)
    BY <1>3
  <2>. QED
    BY <1>2, <1>3, <2>1 DEF CallsOk
<1>6. top.edge <= Len(edges[n]) => end \in Nodes /\ Edge(n, end)
  BY <1>2, <1>3, <1>4, EdgeAt
<1>7. calls \in Seq(Frame) /\ calls # <<>>
  BY <1>2, <1>3 DEF CallsOk
<1>8. \/ /\ top.edge > Len(edges[n]) /\ calls' = Front(calls)
         /\ answer' = IF Len(calls) = 1 THEN "no" ELSE answer
      \/ ~(top.edge > Len(edges[n])) /\ end = ref /\ answer' = "yes" /\ calls' = <<>>
      \/ /\ ~(top.edge > Len(edges[n])) /\ UnderWay(end)
         /\ answer' = "overflow" /\ calls' = <<>>
      \/ /\ ~(top.edge > Len(edges[n])) /\ end # ref
         /\ calls' = Pushed(calls) /\ answer' = answer
  BY DEF Look, Pushed
<1>9. ~(top.edge > Len(edges[n])) => top.edge <= Len(edges[n])
  BY <1>3, <1>4
<1>10. <<>> \in Seq(Frame)
  BY EmptyToSet
<1>. HIDE DEF top, n, end
<1>11. CASE top.edge > Len(edges[n]) /\ calls' = Front(calls) /\ Len(calls) = 1 /\ answer' = "no"
  <2>1. calls' \in Seq(Frame)
    BY <1>7, <1>11, FrontIs
  <2>2. n = target
    BY <1>3, <1>5, <1>11 DEF n
  <2>3. \A e \in 1 .. Len(edges[n]) : Fruitless(n, e)
    <3>1. top.edge - 1 = Len(edges[n])
      BY ONLY <1>3, <1>4, <1>11
    <3>. QED
      BY <1>3, <3>1
  <2>4. <<target, ref>> \notin Path
    BY <1>2, <1>3, <2>2, <2>3, NoWay
  <2>. QED
    BY <1>1, <1>2, <1>11, <2>1, <2>4, SameCalls
<1>12. CASE /\ top.edge > Len(edges[n]) /\ calls' = Front(calls)
            /\ Len(calls) # 1 /\ answer' = answer
  <2>1. CallsOk(calls')
    BY <1>2, <1>12, PopKeeps DEF top, n
  <2>2. calls' \in Seq(Frame)
    BY <2>1 DEF CallsOk
  <2>. QED
    BY <1>1, <1>2, <1>12, <2>1, <2>2, SameCalls
<1>13. CASE /\ ~(top.edge > Len(edges[n])) /\ end = ref /\ answer' = "yes" /\ calls' = <<>>
  <2>1. <<n, ref>> \in Path
    BY <1>6, <1>9, <1>13, EdgeIsPath
  <2>2. <<target, ref>> \in Path
    <3>1. 1 \in 1 .. Len(calls)
      BY <1>3
    <3>. QED
      BY <1>3, <1>5, <2>1, <3>1, PathOn DEF n
  <2>. QED
    BY <1>1, <1>2, <1>10, <1>13, <2>2, SameCalls
<1>14. CASE /\ ~(top.edge > Len(edges[n])) /\ UnderWay(end)
            /\ answer' = "overflow" /\ calls' = <<>>
  <2>1. PICK k \in 1 .. Len(calls) : calls[k].node = end
    BY <1>7, <1>14 DEF UnderWay
  <2>2. <<n, end>> \in Path
    BY <1>6, <1>9, <1>14, EdgeIsPath
  <2>3. <<end, end>> \in Path
    BY <1>3, <1>5, <2>1, <2>2, PathOn DEF n
  <2>4. Cyclic # {}
    BY <1>6, <1>9, <1>14, <2>3 DEF Cyclic
  <2>5. cycleFound
    BY <1>2, <2>4, OrderIsRight DEF WellOrdered
  <2>. QED
    BY <1>1, <1>2, <1>10, <1>14, <2>5, SameCalls
<1>15. CASE /\ ~(top.edge > Len(edges[n])) /\ end # ref
            /\ calls' = Pushed(calls) /\ answer' = answer
  <2>1. CallsOk(calls')
    BY <1>2, <1>9, <1>15, PushKeeps DEF top, n, end
  <2>2. calls' \in Seq(Frame)
    BY <2>1 DEF CallsOk
  <2>. QED
    BY <1>1, <1>2, <1>15, <2>1, <2>2, SameCalls
<1>. QED
  BY <1>8, <1>11, <1>12, <1>13, <1>14, <1>15

LEMMA SearchKeeps == SearchInv /\ [GraphNext]_graphVars => SearchInv'
<1>1. SearchInv /\ UNCHANGED graphVars => SearchInv'
  BY SameCalls DEF graphVars, SearchInv
<1>. QED
  BY <1>1, SortStep, SortEndsStep, SearchStep, LookStep DEF GraphNext

LEMMA InvIsAnalysed == SearchInv => GraphIsAnalysed
<1>. SUFFICES ASSUME SearchInv PROVE GraphIsAnalysed
  OBVIOUS
<1>1. GraphTypeOK
  <2>1. \A m \in Nodes : inDegree[m] \in Nat /\ inDegree = InLeft(ToSet(sorted))
    BY LeftIs DEF SearchInv, SortOk, IsGraph
  <2>2. inDegree \in [Nodes -> Nat]
    BY <2>1, NodesAre DEF InLeft, SearchInv, SortOk
  <2>. QED
    BY <2>2 DEF GraphTypeOK, SearchInv, SortOk, Frame
<1>2. OrderIsTopological
  <2>. SUFFICES ASSUME answer = "sorted" PROVE OrderIsTopological
    BY DEF OrderIsTopological
  <2>1. WellOrdered /\ cycleFound \in BOOLEAN /\ (cycleFound <=> Cyclic # {})
    BY OrderIsRight DEF SearchInv, WellOrdered
  <2>2. cycleFound = (Cyclic # {})
    BY <2>1
  <2>. QED
    BY <2>1, <2>2 DEF OrderIsTopological, WellOrdered, Acyclic, Cyclic
<1>3. ReachableIsPath
  BY DEF ReachableIsPath, SearchInv
<1>. QED
  BY <1>1, <1>2, <1>3 DEF GraphIsAnalysed

(* THEOREM.  For every order of the steps and every graph over them, self- *)
(* edges, doubled edges and cycles included: the order that toposort       *)
(* returns holds exactly the steps that no cycle leads to, each once and   *)
(* after all that lead to it; a cycle is reported exactly if there is one; *)
(* and isReachable, which remembers nothing of where it has been, returns  *)
(* TRUE exactly if there is a path, and can recur for ever only on a graph *)
(* for which a cycle was reported.                                         *)
THEOREM GraphAnalysisIsRight == GraphSpec => []GraphIsAnalysed
BY SearchBegins, SearchKeeps, InvIsAnalysed, PTL DEF GraphSpec
=============================================================================
