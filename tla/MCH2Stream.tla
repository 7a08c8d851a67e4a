----------------------------- MODULE MCH2Stream -----------------------------
(* H2Stream with the history of its buffers: what was written when.        *)
EXTENDS H2Stream

VARIABLE late          \* streams that were written to after they were closed

MCInit == Init /\ late = {}
MCNext == Next /\ late' = late \cup {s \in closed : buf'[s] > buf[s]}
MCSpec == MCInit /\ [][MCNext]_<<vars, late>>

(* StreamWriter.write: "Buffer data until the peer grants flow-control     *)
(* credit": what was written before close() is not thrown away.            *)
WrittenIsSent == \A s \in Stream : job[s] = "ended" /\ s \notin late => buf[s] = 0
=============================================================================
