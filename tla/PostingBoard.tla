---------------------------- MODULE PostingBoard ----------------------------
(***************************************************************************)
(* What the marketplace promises to whoever reads the collection "Upload", *)
(* whatever the devices, queues, screens and failures behind it do: the    *)
(* steps by which the stored postings may change.  Module Postings is      *)
(* shown to implement it; module MarketPlace reads a board that changes    *)
(* this way.                                                               *)
(***************************************************************************)
EXTENDS FirestoreOps

CONSTANTS Users, Docs, Forms

VARIABLES
    board,    \* the collection
    author,   \* who drew the id of a posting (Absent: nobody yet)
    photos    \* the ids with an object in Storage

boardVars == <<board, author, photos>>

PostingFields == {"form", "user", "ref", "image"}
Nothing == Missing(PostingFields)

(* A posting that names its user also says how to find it again.           *)
Tagged(d) == board[d]["user"] # Absent => board[d]["ref"] # Absent

BoardInit ==
    /\ board = [d \in Docs |-> Nothing]
    /\ author = [d \in Docs |-> Absent]
    /\ photos = {}

(* An id is drawn for a user, once.                                        *)
Draw(d, u) ==
    /\ author[d] = Absent
    /\ author' = [author EXCEPT ![d] = u]
    /\ UNCHANGED <<board, photos>>

(* A posting appears with its form and its author, and nothing else.       *)
Publish(d, form) ==
    /\ author[d] # Absent /\ board[d] = Nothing
    /\ board' = [board EXCEPT ![d] = [Nothing EXCEPT !["form"] = form,
                                                     !["user"] = author[d]]]
    /\ UNCHANGED <<author, photos>>

(* Its Ref is its own id.                                                  *)
Tag(d) ==
    /\ author[d] # Absent
    /\ board' = [board EXCEPT ![d]["ref"] = d]
    /\ UNCHANGED <<author, photos>>

StorePhoto(d) ==
    /\ author[d] # Absent
    /\ photos' = photos \cup {d}
    /\ UNCHANGED <<board, author>>

(* The Image points to a stored photo, and comes after the Ref.            *)
Attach(d) ==
    /\ d \in photos /\ Tagged(d)
    /\ board' = [board EXCEPT ![d]["image"] = d]
    /\ UNCHANGED <<author, photos>>

(* A change of the form; it says nothing about whether the posting still   *)
(* exists, so it may bring back a part of a removed one.                   *)
Edit(d, form) ==
    /\ author[d] # Absent /\ Tagged(d)
    /\ board' = [board EXCEPT ![d]["form"] = form]
    /\ UNCHANGED <<author, photos>>

Remove(d) ==
    /\ author[d] # Absent /\ Tagged(d)
    /\ board' = [board EXCEPT ![d] = Nothing]
    /\ UNCHANGED <<author, photos>>

BoardNext ==
    \E d \in Docs :
        \/ \E u \in Users : Draw(d, u)
        \/ \E form \in Forms : Publish(d, form) \/ Edit(d, form)
        \/ Tag(d) \/ StorePhoto(d) \/ Attach(d) \/ Remove(d)

BoardSpec == BoardInit /\ [][BoardNext]_boardVars
=============================================================================
