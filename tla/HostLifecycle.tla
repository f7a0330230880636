--------------------------- MODULE HostLifecycle ----------------------------
(***************************************************************************)
(* One process from its start to its end: the resources it starts in order *)
(* and stops in reverse, the requests it serves, the deliveries its router *)
(* takes in, and the signals that end it.                                  *)
(***************************************************************************)
EXTENDS Naturals, Sequences

CONSTANTS
    MaxWork,     \* requests, and deliveries, at a time
    MaxMishaps   \* hooks that throw

ASSUME BoundsAssumption == MaxWork \in Nat /\ MaxMishaps \in Nat

VARIABLES
    host,        \* its profile and the carrier of its messages, fixed
    process,     \* what main or serveHost has come to
    position,        \* the resource whose start or stop is awaited
    resource,    \* down, up, or half: its hook threw and left it so
    intake,      \* the router's loops: off, on, or in their last read
    requests, claimed,   \* being served; being handled
    projecting,  \* the projection of what was handled is not written yet
    mishaps
hostVars == <<host, process, position, resource, intake, requests, claimed, projecting, mishaps>>

Profiles == {"embedded", "api", "worker"}
Hosts == [profile : Profiles, carrier : {"redis", "in-process"}]
Resources == {"sql", "artifacts", "bus", "sinks", "tap", "engine", "limiter", "router"}
Order == CASE host.profile = "embedded" -> <<"sql", "bus", "sinks", "tap", "engine", "limiter",
                                             "router">>
           [] host.profile = "api" -> <<"sql", "artifacts", "bus", "sinks", "tap", "engine",
                                        "router">>
           [] host.profile = "worker" -> <<"sql", "artifacts", "router">>
Final == Len(Order)
Serves == host.profile # "worker"
Redis == host.carrier = "redis"

HostTypeOK ==
    /\ host \in Hosts
    /\ process \in {"starting", "rollingBack", "failed", "building", "serving", "closing",
                    "stopping", "giving up", "stopped", "exited", "killed"}
    /\ position \in 0 .. Final /\ resource \in [Resources -> {"down", "up", "half"}]
    /\ intake \in {"off", "on", "last"}
    /\ requests \in 0 .. MaxWork /\ claimed \in 0 .. MaxWork /\ projecting \in BOOLEAN
    /\ mishaps \in 0 .. MaxMishaps

(* Only the embedded host may carry its messages within the process.       *)
HostInit ==
    /\ host \in Hosts
    /\ host.carrier = "in-process" => host.profile = "embedded"
    /\ process = "starting" /\ position = 1 /\ resource = [r \in Resources |-> "down"]
    /\ intake = "off" /\ requests = 0 /\ claimed = 0 /\ projecting = FALSE
    /\ mishaps = 0

Work == <<requests, claimed, projecting>>
HookThrows == mishaps < MaxMishaps /\ mishaps' = mishaps + 1
Becomes(r, state) == resource' = [resource EXCEPT ![r] = state]

-----------------------------------------------------------------------------
(* startAll.  The loops of the Redis router start when all else is done.   *)
Starts ==
    /\ process = "starting" /\ Becomes(Order[position], "up")
    /\ IF position < Final THEN position' = position + 1 /\ UNCHANGED <<process, intake>>
       ELSE /\ process' = IF Serves THEN "building" ELSE "serving"
            /\ intake' = IF Redis THEN "on" ELSE intake
            /\ UNCHANGED position
    /\ UNCHANGED <<host, Work, mishaps>>

(* A start that throws may have connected before.  The router of the       *)
(* process and the bus have nothing to start.                              *)
StartThrows ==
    /\ process = "starting" /\ HookThrows
    /\ Order[position] # "bus" /\ (Order[position] = "router" => Redis)
    /\ \/ UNCHANGED resource
       \/ Order[position] \in {"sql", "router"} /\ Becomes(Order[position], "half")
    /\ process' = "rollingBack" /\ position' = position - 1
    /\ UNCHANGED <<host, intake, Work>>

(* serveHost exits when the start failed, the worker's main goes on.       *)
AfterStops == CASE process = "rollingBack" -> IF Serves THEN "exited" ELSE "failed"
                [] process = "giving up" -> "exited"
                [] process = "stopping" -> "stopped"
Stopping == process \in {"rollingBack", "giving up", "stopping"}

(* stopAll: from the last to the first, whatever throws.  The stop of the  *)
(* Redis router does nothing unless its loops run; it lets them end, awaits*)
(* what they have claimed, and swallows what goes wrong in closing.        *)
StopsIntake ==
    /\ Stopping /\ position > 0 /\ Order[position] = "router" /\ intake = "on"
    /\ intake' = "last"
    /\ UNCHANGED <<host, process, position, resource, Work, mishaps>>

(* Mutant: the router does not wait for what its loops have claimed.       *)
MutLoopsEnded == TRUE
LoopsEnded == intake = "off" /\ claimed = 0
RouterLeft == resource["router"] # "up"

Stops ==
    /\ Stopping /\ position > 0 /\ position' = position - 1
    /\ LET r == Order[position] IN
       /\ r = "router" /\ Redis /\ ~RouterLeft => intake # "on" /\ LoopsEnded
       /\ \/ /\ Becomes(r, IF r = "router" /\ RouterLeft THEN resource[r] ELSE "down")
             /\ UNCHANGED mishaps
          \/ /\ r \notin {"router", "artifacts"} /\ HookThrows
             /\ Becomes(r, "half")
    /\ UNCHANGED <<host, process, intake, Work>>

StopsAreDone ==
    /\ Stopping /\ position = 0 /\ process' = AfterStops
    /\ UNCHANGED <<host, position, resource, intake, Work, mishaps>>

-----------------------------------------------------------------------------
(* What ends at once: nothing is stopped, and work in hand is lost.        *)
Killed ==
    /\ process' = "killed" /\ requests' = 0 /\ claimed' = 0 /\ projecting' = FALSE
    /\ UNCHANGED <<host, position, resource, intake, mishaps>>

(* buildServer or a registration throws: nobody catches it.                *)
BuildThrows == process = "building" /\ mishaps < MaxMishaps /\ Killed

Listens ==
    /\ process = "building"
    /\ \/ process' = "serving" /\ UNCHANGED mishaps
       \/ process' = "giving up" /\ HookThrows
    /\ UNCHANGED <<host, position, resource, intake, Work>>

(* The handlers of the signals are registered last; before, a signal kills,*)
(* and of two signals the second is ignored.                               *)
Signal ==
    \/ process \in {"starting", "rollingBack", "building", "giving up"} /\ Killed
    \/ /\ process \in {"serving", "failed"}
       /\ process' = IF Serves THEN "closing" ELSE "stopping"
       /\ position' = Final
       /\ UNCHANGED <<host, resource, intake, Work, mishaps>>

(* server.close ends when the requests have; should it throw, nobody       *)
(* catches it.                                                             *)
CloseIsDone == requests = 0
Closes ==
    /\ process = "closing"
    /\ \/ /\ CloseIsDone /\ process' = "stopping"
          /\ UNCHANGED <<host, position, resource, intake, Work, mishaps>>
       \/ mishaps < MaxMishaps /\ Killed

(* Nothing else than the router's connections and work in hand keeps a     *)
(* process alive that has no more to do.                                   *)
LoopIsEmpty ==
    /\ process \in {"failed", "stopped"} /\ resource["router"] = "down"
    /\ claimed = 0 /\ ~projecting
    /\ process' = "exited"
    /\ UNCHANGED <<host, position, resource, intake, Work, mishaps>>

-----------------------------------------------------------------------------
Alive == process \notin {"exited", "killed"}
Stays == UNCHANGED <<host, process, position, resource, mishaps>>

Request ==
    /\ Serves /\ process = "serving" /\ requests < MaxWork
    /\ requests' = requests + 1 /\ Stays /\ UNCHANGED <<intake, claimed, projecting>>

Responds ==
    /\ Alive /\ requests > 0 /\ requests' = requests - 1
    /\ projecting' \in {projecting, TRUE} /\ Stays /\ UNCHANGED <<intake, claimed>>

(* A loop takes a batch when the last is done; the read it is in when it   *)
(* is to end may still take one.  Within a process whoever publishes       *)
(* delivers, be the process about to end or not.                           *)
Claims ==
    /\ Alive /\ claimed = 0 /\ Stays /\ UNCHANGED <<requests, projecting>>
    /\ \/ /\ intake = "on" /\ claimed' \in 1 .. MaxWork /\ UNCHANGED intake
       \/ /\ intake = "last" /\ claimed' \in 0 .. MaxWork /\ intake' = "off"
       \/ /\ ~Redis /\ requests > 0 /\ claimed' = 1 /\ UNCHANGED intake

(* What a handler publishes within the process is delivered in turn.  The  *)
(* engine's handler leaves events to project.                              *)
Handles ==
    /\ Alive /\ claimed > 0 /\ Stays /\ UNCHANGED <<requests, intake>>
    /\ claimed' \in {claimed - 1} \cup IF Redis THEN {} ELSE {claimed}
    /\ projecting' \in {projecting, Serves}

(* The sink of the projection writes on its own; nothing awaits it.        *)
Projected ==
    /\ Alive /\ projecting /\ projecting' = FALSE
    /\ Stays /\ UNCHANGED <<requests, intake, claimed>>

-----------------------------------------------------------------------------
HostNext ==
    \/ Starts \/ StartThrows \/ StopsIntake \/ Stops \/ StopsAreDone
    \/ BuildThrows \/ Listens \/ Signal \/ Closes \/ LoopIsEmpty
    \/ Request \/ Responds \/ Claims \/ Handles \/ Projected

HostSpec == HostInit /\ [][HostNext]_hostVars

-----------------------------------------------------------------------------
(* Whatever throws and whenever the signal comes: nothing runs without all *)
(* that it stands on; a request is served, and a message of Redis handled, *)
(* only while every resource is up, to the last one claimed                *)
(* (assemble-api-host.ts:45-50, serve.ts:87-97); and a start that failed,  *)
(* or a stop, leaves nothing running (lifecycle.ts:38-41).                 *)
UpFromTheBase ==
    \A k \in 2 .. Final : resource[Order[k]] = "up" => resource[Order[k - 1]] = "up"
ServedWhole ==
    requests > 0 \/ (Redis /\ claimed > 0) => \A k \in 1 .. Final : resource[Order[k]] = "up"
NothingLeft ==
    process \in {"failed", "stopped", "exited"} => \A k \in 1 .. Final : resource[Order[k]] # "up"

(* Whatever fails, and whatever work there is when the end comes.          *)
Orderly == HostTypeOK /\ UpFromTheBase /\ ServedWhole /\ NothingLeft

(* assemble-api-host.ts:48-50: "a terminal already claimed is still        *)
(* projected, and the client those projections write through is still      *)
(* connected when they do".  Nothing awaits the sink that projects: it is  *)
(* none of the resources, and its events are written in calls of its own.  *)
ProjectedWhileConnected == projecting /\ Alive => resource["sql"] = "up"
=============================================================================
