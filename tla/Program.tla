------------------------------ MODULE Program ------------------------------
(* main() above the tasks of its listeners: Lifecycle, as L, beside        *)
(* TaskRegistry.  They share no state.                                     *)
EXTENDS TaskRegistry

CONSTANTS Tcp, Udp, Request, MaxLoads

VARIABLES main, load, untried, servers, reload, asked, owner, loop, link, task

program == <<main, load, untried, servers, reload, asked, owner, loop, link, task>>

L == INSTANCE Lifecycle WITH pc <- main

(* The properties of L, named for the runs and the proofs: the shutdown    *)
(* reaches every open connection, and an interrupt is answered.            *)
ShutdownReachesAll  == L!ShutdownReachesAll
InterruptIsAnswered == L!InterruptIsAnswered
=============================================================================
