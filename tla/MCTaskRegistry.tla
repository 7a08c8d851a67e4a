--------------------------- MODULE MCTaskRegistry ---------------------------
(* Who ends the tasks: the registry of an owner, the handlers and the      *)
(* health check of the TCP service under fairness, and main() itself.  A   *)
(* behaviour is one of one kind, chosen at the start; the others rest.     *)
EXTENDS Program

CONSTANTS r1, h1, Client, Remote, Plain, Host, Direct, None

VARIABLES
  part,
  algorithm, rserver, alive, up, connections, pc, via, clientW, remoteW, chan, abrupt, checker, passed

service == <<algorithm, rserver, alive, up, connections, pc, via, clientW, remoteW, chan, abrupt, checker, passed>>

P == INSTANCE StreamProxy WITH Rule <- [r \in Remote |-> IF r = r1 THEN {h1} ELSE Host]

MCInit ==
  /\ part \in {"registry", "service", "program"} /\ Init /\ P!Init /\ L!Init
  /\ part # "service" => algorithm = "fa" /\ (\A r \in Remote : up[r])
                         /\ rserver = CHOOSE s \in [1..Cardinality(Remote) -> Remote] : P!Members(s) = Remote

MCNext ==
  /\ UNCHANGED part
  /\ \/ part = "registry" /\ Next /\ UNCHANGED <<service, program>>
     \/ part = "service" /\ P!Next /\ UNCHANGED <<vars, program>>
     \/ part = "program" /\ L!Next /\ UNCHANGED <<vars, service>>

(* The timer of the health check is due from the start, so that its        *)
(* fairness is asked for only where it runs.                               *)
ServiceFairness ==
  /\ WF_service(part = "service" /\ P!Wake) /\ WF_service(part = "service" /\ P!Probed)
  /\ \A c \in Client : WF_service(P!Unwind(c))

MCSpec == MCInit /\ [][MCNext]_<<part, vars, service, program>> /\ ServiceFairness /\ L!Fairness

(* The properties of the service, named for the run.                       *)
HealthFollowsReality == P!HealthFollowsReality
StopEndsHandler      == P!StopEndsHandler
=============================================================================
