----------------------------- MODULE WriteQueue ------------------------------
(***************************************************************************)
(* What the Firestore client promises about the writes of its users: they  *)
(* are kept until the backend has answered, they reach it in the order     *)
(* they were made, and none is skipped.  A broken call makes it forget     *)
(* what the backend has applied without an answer, so a write may be       *)
(* applied twice, and one that was applied may be reported as refused.     *)
(* Module WritePipeline is shown to implement it; the write streams of     *)
(* Postings and Profile take these steps.                                  *)
(***************************************************************************)
EXTENDS Naturals, Sequences

CONSTANTS Users, Batches

VARIABLES
    user,    \* the current user
    queue,   \* the writes of each user without an answer, on disk
    sent,    \* how many of them this call has brought to the backend
    landed   \* the writes the backend has applied

queueVars == <<user, queue, sent, landed>>

QueueInit ==
    /\ user \in Users
    /\ queue = [u \in Users |-> <<>>]
    /\ sent = 0 /\ landed = {}

Add(b) ==
    /\ b \notin landed
    /\ queue' = [queue EXCEPT ![user] = Append(@, b)]
    /\ UNCHANGED <<user, sent, landed>>

(* The backend applies the oldest write it has not got in this call.       *)
Deliver ==
    /\ sent < Len(queue[user])
    /\ landed' = landed \cup {queue[user][sent + 1]}
    /\ sent' = sent + 1
    /\ UNCHANGED <<user, queue>>

Acknowledge ==
    /\ sent > 0
    /\ queue' = [queue EXCEPT ![user] = Tail(@)]
    /\ sent' = sent - 1
    /\ UNCHANGED <<user, landed>>

(* The backend has refused a write: the oldest one is given up, which is   *)
(* another one if its answer was lost.                                     *)
Refuse ==
    /\ sent < Len(queue[user])
    /\ queue' = [queue EXCEPT ![user] = Tail(@)]
    /\ sent' = 0
    /\ UNCHANGED <<user, landed>>

(* Answers are lost with a call that ends, and maybe the user changes.     *)
Forget(u) ==
    /\ user' = u
    /\ sent' \in 0..sent /\ (u # user => sent' = 0)
    /\ UNCHANGED <<queue, landed>>

QueueNext ==
    \/ \E b \in Batches : Add(b)
    \/ Deliver \/ Acknowledge \/ Refuse
    \/ \E u \in Users : Forget(u)

QueueSpec == QueueInit /\ [][QueueNext]_queueVars
=============================================================================
