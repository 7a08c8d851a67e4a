----------------------------- MODULE MCSessions -----------------------------
(* The shared sessions and what runs on them, for model checking.  A       *)
(* behaviour is of one adapter, chosen at the start; the others rest.      *)
EXTENDS Sessions

VARIABLE adapter

MCInit ==
  /\ adapter \in {"quic", "ssh", "h2", "h3", "cfp"}
  /\ Init /\ S!Init /\ H!Init /\ T!Init /\ C!Init
  /\ adapter # "h3" => ~server_side

MCNext ==
  /\ UNCHANGED adapter
  /\ \/ adapter = "quic" /\ Next /\ UNCHANGED <<ssh, h2, h3, cfp>>
     \/ adapter = "ssh" /\ S!Next /\ UNCHANGED <<vars, h2, h3, cfp>>
     \/ adapter = "h2" /\ H!Next /\ UNCHANGED <<vars, ssh, h3, cfp>>
     \/ adapter = "h3" /\ T!Next /\ UNCHANGED <<vars, ssh, h2, cfp>>
     \/ adapter = "cfp" /\ C!Next /\ UNCHANGED <<vars, ssh, h2, h3>>

MCSpec == /\ MCInit /\ [][MCNext]_<<adapter, vars, ssh, h2, h3, cfp>>
          /\ Fairness /\ S!Fairness /\ H!Fairness /\ T!Fairness /\ C!Fairness
=============================================================================
