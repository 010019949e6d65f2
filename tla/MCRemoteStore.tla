---------------------------- MODULE MCRemoteStore ----------------------------
(***************************************************************************)
(* RemoteStore on small instances: how many writes and reads a run makes,  *)
(* and whether the user changes, is chosen at the start, so that the runs  *)
(* of the two halves add up instead of multiplying.                        *)
(***************************************************************************)
EXTENDS RemoteStore

CONSTANTS u1, u2, t1, t2

VARIABLE mix  \* what this run is made of

TwoUsers == {u1, u2}
TwoTargets == {t1, t2}

Mixes == {[writes |-> 3, reads |-> 0, users |-> {u1}, targets |-> {},
            breaks |-> TRUE],
          [writes |-> 2, reads |-> 0, users |-> {u1, u2}, targets |-> {},
            breaks |-> TRUE],
          [writes |-> 0, reads |-> 2, users |-> {u1}, targets |-> {t1},
            breaks |-> TRUE],
          [writes |-> 0, reads |-> 2, users |-> {u1}, targets |-> {t1, t2},
            breaks |-> FALSE],
          [writes |-> 1, reads |-> 1, users |-> {u1, u2}, targets |-> {t1},
            breaks |-> FALSE]}

Within(m) ==
    /\ user \in m.users
    /\ \A b \in Batches : result[b] # "none" => b <= m.writes
    /\ \A r \in Reads : reads[r] # "none" => r <= m.reads
    /\ Listened \subseteq m.targets
    /\ m.breaks \/ (call.status = "none" /\ ~listen.ended)

MCInit == Init /\ mix \in Mixes /\ Within(mix)
MCNext == Next /\ UNCHANGED mix /\ Within(mix)'
MCSpec == MCInit /\ [][MCNext]_<<vars, mix>>
MCFairSpec == MCSpec /\ ClientFairness /\ NetworkFairness
=============================================================================
