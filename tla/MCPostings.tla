----------------------------- MODULE MCPostings -----------------------------
(***************************************************************************)
(* Small instances of Postings.                                            *)
(***************************************************************************)
EXTENDS Postings, TLC

CONSTANTS u1, u2, v1, v2

OneUser == [v \in Devices |-> u1]
TwoUsers == [v \in Devices |-> IF v = v1 THEN u1 ELSE u2]

(* Who does what.  With two devices one adds and the other one works on    *)
(* what it finds.                                                          *)
Everything == [v \in Devices |-> AllHabits]
WriterEditor ==
    [v \in Devices |-> IF v = v1 THEN {"upload"}
                       ELSE {"manage", "select", "edit", "delete"}]
WriterOwner ==
    [v \in Devices |-> IF v = v1 THEN {"upload"}
                       ELSE {"upload", "manage", "select", "edit"}]

Perms == Permutations(Docs) \cup Permutations(Tasks)
=============================================================================
