---------------------------- MODULE FirestoreOps ----------------------------
(***************************************************************************)
(* The part of the Firestore client the app relies on, as pure operators.  *)
(*                                                                         *)
(* A document is a function from its field names to values; a field that   *)
(* is not there is Absent, and a document with no field is no document:    *)
(* every write of the app sets at least one field.  The three mutations    *)
(* the app issues (addDocument, setData with merge, delete) are patches: a *)
(* patch gives each field its new value, Absent to clear it, or Keep to    *)
(* leave it alone.  A client keeps its unacknowledged mutations in a FIFO  *)
(* queue and reads the collection with that queue laid over it.            *)
(***************************************************************************)
EXTENDS Naturals, Sequences

CONSTANTS Absent, Keep

ASSUME MarkersDiffer == Absent # Keep

(* The document (or non-document) all of whose fields are absent.          *)
Missing(fields) == [f \in fields |-> Absent]

(* setData(.., merge: true): a patch of one field, over any base document, *)
(* existing or not (Precondition::None).                                   *)
Merge(fields, f, v) == [g \in fields |-> IF g = f THEN v ELSE Keep]

(* delete(): no precondition either.                                       *)
Delete(fields) == [f \in fields |-> Absent]

(* What a mutation does to a document.                                     *)
Apply(doc, patch) ==
    [f \in DOMAIN doc |-> IF patch[f] = Keep THEN doc[f] ELSE patch[f]]

(* The i-th queued mutation writes field f of document d.                  *)
Touches(q, i, d, f) == q[i].doc = d /\ q[i].patch[f] # Keep

(* ... and no later one does.                                              *)
LastTouch(q, i, d, f) ==
    /\ Touches(q, i, d, f)
    /\ \A j \in DOMAIN q : j > i => ~Touches(q, j, d, f)

(***************************************************************************)
(* The local view: the documents with the queued mutations applied in      *)
(* order.  Patches overwrite field by field, so the value of a field is    *)
(* that of the last queued mutation touching it, if there is one.          *)
(***************************************************************************)
FieldView(docs, q, d, f) ==
    IF \E i \in DOMAIN q : Touches(q, i, d, f)
    THEN q[CHOOSE i \in DOMAIN q : LastTouch(q, i, d, f)].patch[f]
    ELSE docs[d][f]

LocalView(docs, q) ==
    [d \in DOMAIN docs |-> [f \in DOMAIN docs[d] |-> FieldView(docs, q, d, f)]]

(* The backend's collection after it has applied mutation m.               *)
Commit(docs, m) == [docs EXCEPT ![m.doc] = Apply(@, m.patch)]

(* The documents with the queued mutations applied one by one, oldest      *)
(* first: the loop by which the SDK computes a local view.                 *)
Replay(docs, q) ==
    LET after[n \in 0..Len(q)] ==
            IF n = 0 THEN docs ELSE Commit(after[n - 1], q[n])
    IN  after[Len(q)]
=============================================================================
