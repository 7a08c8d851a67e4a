---------------------------- MODULE SharedFuture ----------------------------
(***************************************************************************)
(* What the shared sessions of the adapters have in common: several        *)
(* requests await one asyncio future, and each of them may settle it.      *)
(***************************************************************************)
CONSTANTS
  Conn,     \* the connections, each with the future that was made for it
  None

ASSUME NoneAssumption == None \notin Conn

FutureStates == {"none", "pending", "result", "error", "cancelled"}

(* The first to settle a future decides; a cancellation settles it too.    *)
Settled(future, g, st) == [future EXCEPT ![g] = IF @ = "pending" THEN st ELSE @]
=============================================================================
