--------------------------- MODULE InfoBoardProofs ---------------------------
(***************************************************************************)
(* The photos of the information board, for any infos, forms and picks,    *)
(* whatever fails: an info gets no photo but one of its own form, every    *)
(* Image has its photo, and the picture shown beside an info is one of     *)
(* this list.                                                              *)
(***************************************************************************)
EXTENDS InfoBoard, FiniteSetTheorems, SequenceTheorems, TLAPS

AdminTypes ==
    /\ form \in 1..MaxForms
    /\ photo \in [1..MaxForms -> Nat]
    /\ chain \in [Docs -> [stage : Stages \cup {"none"}, form : Nat, photo : Nat]]
    /\ queue \in Seq([info : Docs, kind : {"text", "image"}])
    /\ board \in [Docs -> SUBSET {"text", "image"}]
    /\ storage \in [Docs -> Nat]
    /\ tap \in [Docs -> [form : Nat, photo : Nat]]

ListRows == [info : Docs, image : BOOLEAN]

ReaderTypes ==
    /\ reading \in BOOLEAN
    /\ infoArray \in Seq(ListRows)
    /\ drawn \in 0..Len(infoArray)
    /\ loads \subseteq Docs /\ infoImage \in Nat

(* Photos are numbered as they are picked: some form has the last one, a   *)
(* form not opened yet has none, a later form has later ones.              *)
PhotosInv ==
    /\ \E m \in 1..MaxForms : \A f \in 1..MaxForms : photo[f] <= photo[m]
    /\ \A f \in 1..MaxForms : f > form => photo[f] = 0
    /\ \A f, g \in 1..MaxForms : f < g /\ photo[g] # 0 => photo[f] < photo[g]

(* Photo n is of the form info d was submitted from, and was not replaced  *)
(* before that.                                                            *)
Its(d, n) ==
    /\ n \in tap[d].photo..photo[tap[d].form]
    /\ \A f \in 1..(tap[d].form - 1) : n > photo[f]

TapsInv ==
    \A d \in Docs :
        /\ tap[d] # NoTap => /\ tap[d].form \in 1..form
                             /\ tap[d].photo \in 0..photo[tap[d].form]
        /\ tap[d] = NoTap => storage[d] = 0 /\ chain[d].stage = "none"

(* A chain has the form of its tap; its photo is stored from the answer of *)
(* putData on.                                                             *)
ChainsInv ==
    \A d \in Docs :
        /\ chain[d].stage # "none" => chain[d].form = tap[d].form
        /\ chain[d].stage \in {"add", "put"} => storage[d] = 0
        /\ chain[d].stage \in {"put", "link"} =>
              chain[d].photo # 0 /\ Its(d, chain[d].photo)
        /\ chain[d].stage = "link" => storage[d] # 0

(* Every Image, stored or queued, has its photo.                           *)
ImagesInv ==
    /\ \A d \in Docs : "image" \in board[d] => storage[d] # 0
    /\ \A i \in DOMAIN queue : queue[i].kind = "image" => storage[queue[i].info] # 0

(* What is drawn, being loaded and shown comes from rows with an Image.    *)
RowsInv ==
    /\ \A i \in DOMAIN infoArray : infoArray[i].image => storage[infoArray[i].info] # 0
    /\ \A i \in 1..drawn : infoArray[i].image
    /\ reading => drawn = 0 /\ loads = {} /\ infoImage = 0
    /\ \A d \in loads : \E i \in 1..drawn : infoArray[i].info = d
    /\ reader = "down" => loads = {}
    /\ reader # "down" /\ infoImage # 0 =>
          \E i \in 1..drawn : infoImage = storage[infoArray[i].info]
    /\ reader # "detail" => detail.picture = 0
    /\ PictureOfThisList

AdminInv == AdminTypes /\ PhotosInv /\ TapsInv /\ ChainsInv /\ ImagesInv
            /\ PhotoOfItsForm
BoardInv == AdminInv /\ ReaderTypes /\ RowsInv
-----------------------------------------------------------------------------
(* The administrator.                                                      *)

(* What a step may do that touches no form: photos in Storage stay, chains *)
(* go on as they were or end, taps stay.                                   *)
StorageStays == \A d \in Docs : storage[d] # 0 => storage'[d] = storage[d]

ChainsDrop ==
    \A d \in Docs : chain'[d] = chain[d] \/ chain'[d] = NoChain

LEMMA InfoBegins ==
  ASSUME InfoInit
  PROVE  BoardInv
  <1>1. AdminTypes /\ ReaderTypes
    BY InfoAssumption DEF InfoInit, AdminTypes, ReaderTypes, NoChain, NoTap, Stages
  <1>2. PhotosInv
    BY InfoAssumption DEF InfoInit, PhotosInv
  <1>3. TapsInv /\ ChainsInv /\ ImagesInv /\ PhotoOfItsForm
    BY InfoAssumption DEF InfoInit, TapsInv, ChainsInv, ImagesInv, PhotoOfItsForm,
           NoChain, NoTap
  <1>4. RowsInv
    BY InfoAssumption DEF InfoInit, RowsInv, NoDetail, PictureOfThisList
  <1> QED
    BY <1>1, <1>2, <1>3, <1>4 DEF BoardInv, AdminInv

(* Chains that end, and nothing else about photos: all but the types and   *)
(* the queue is as before.                                                 *)
LEMMA DropKeeps ==
  ASSUME AdminInv, AdminTypes', ChainsDrop, UNCHANGED <<form, photo, storage, tap>>
  PROVE  PhotosInv' /\ TapsInv' /\ ChainsInv' /\ PhotoOfItsForm'
  <1>1. PhotosInv'
    BY DEF AdminInv, PhotosInv
  <1>2. TapsInv'
    BY DEF AdminInv, TapsInv, ChainsDrop, NoChain
  <1>3. ChainsInv'
    BY DEF AdminInv, ChainsInv, ChainsDrop, NoChain, Its
  <1>4. PhotoOfItsForm'
    BY DEF AdminInv, PhotoOfItsForm
  <1> QED  BY <1>1, <1>2, <1>3, <1>4

LEMMA ImagesStay ==
  ASSUME AdminInv, UNCHANGED <<queue, board>>, StorageStays
  PROVE  ImagesInv'
  <1> USE DEF AdminInv
  <1>1. ASSUME NEW i \in DOMAIN queue
        PROVE  queue[i].info \in Docs
    <2> DEFINE W == [info : Docs, kind : {"text", "image"}]
    <2>1. queue \in Seq(W)
      BY DEF AdminTypes
    <2>2. queue[i] \in W
      <3> HIDE DEF W
      <3> QED  BY <2>1, <1>1
    <2> QED  BY <2>2
  <1> QED
    BY <1>1 DEF ImagesInv, StorageStays

(* The steps that change neither a form, a chain, a queue nor Storage.     *)
LEMMA AdminFrame ==
  ASSUME AdminInv,
         UNCHANGED <<form, photo, chain, queue, board, storage, tap>>
  PROVE  AdminInv' /\ StorageStays
  BY DEF AdminInv, AdminTypes, PhotosInv, TapsInv, ChainsInv, ImagesInv,
         PhotoOfItsForm, Its, StorageStays

LEMMA PickKeeps ==
  ASSUME AdminInv, imagePickerController
  PROVE  AdminInv' /\ StorageStays
  <1>1. CASE UNCHANGED photo
    BY <1>1, AdminFrame DEF imagePickerController
  <1>2. CASE photo' = [photo EXCEPT ![form] = Picked + 1]
    <2> USE DEF AdminInv
    <2>1. /\ form \in 1..MaxForms /\ photo \in [1..MaxForms -> Nat]
          /\ UNCHANGED <<form, chain, queue, board, storage, tap>>
      BY DEF imagePickerController, AdminTypes
    <2>2. Picked \in Nat /\ \A f \in 1..MaxForms : photo[f] <= Picked
      <3>1. PICK m \in 1..MaxForms : \A f \in 1..MaxForms : photo[f] <= photo[m]
        BY DEF PhotosInv
      <3> DEFINE S == {photo[f] : f \in 1..MaxForms}
      <3>2. \E x \in S : \A y \in S : x >= y
        BY <2>1, <3>1
      <3>3. Max(S) \in S /\ \A y \in S : Max(S) >= y
        BY <3>2 DEF Max
      <3> QED  BY <2>1, <3>3 DEF Picked
    <2>3. /\ photo'[form] = Picked + 1
          /\ \A f \in 1..MaxForms : f # form => photo'[f] = photo[f]
          /\ \A f \in 1..MaxForms : photo'[f] >= photo[f]
          /\ photo' \in [1..MaxForms -> Nat]
      BY <1>2, <2>1, <2>2
    <2>4. AdminTypes'
      BY <2>1, <2>3 DEF AdminTypes
    <2>5. PhotosInv'
      <3>1. \A f \in 1..MaxForms : photo'[f] <= photo'[form]
        BY <2>1, <2>2, <2>3
      <3>2. \A f \in 1..MaxForms : f > form => photo'[f] = 0
        BY <2>1, <2>3 DEF PhotosInv
      <3>3. ASSUME NEW f \in 1..MaxForms, NEW g \in 1..MaxForms,
                   f < g, photo'[g] # 0
            PROVE  photo'[f] < photo'[g]
        <4>1. CASE g = form
          BY <3>3, <4>1, <2>1, <2>2, <2>3
        <4>2. CASE g # form
          <5>1. photo[g] # 0 /\ g < form
            BY <3>3, <4>2, <2>1, <2>3 DEF PhotosInv
          <5> QED  BY <5>1, <3>3, <2>1, <2>3 DEF PhotosInv
        <4> QED  BY <4>1, <4>2
      <3> QED  BY <2>1, <3>1, <3>2, <3>3 DEF PhotosInv
    <2>6. TapsInv'
      <3> SUFFICES ASSUME NEW d \in Docs, tap[d] # NoTap
                   PROVE  /\ tap[d].form \in 1..form
                          /\ tap[d].photo \in 0..photo'[tap[d].form]
        BY <2>1 DEF TapsInv
      <3>1. tap[d].form \in 1..form /\ tap[d].photo \in 0..photo[tap[d].form]
        BY DEF TapsInv
      <3>2. tap[d].form \in 1..MaxForms
        BY <2>1, <3>1, InfoAssumption
      <3> QED  BY <2>1, <2>3, <3>1, <3>2
    <2>7. ASSUME NEW d \in Docs, NEW n \in Nat, tap[d] # NoTap, Its(d, n)
          PROVE  Its(d, n)'
      <3>1. tap[d].form \in 1..form
        BY <2>7 DEF TapsInv
      <3>2. /\ tap[d].form \in 1..MaxForms
            /\ \A f \in 1..(tap[d].form - 1) : f \in 1..MaxForms /\ f # form
        BY <2>1, <3>1, InfoAssumption
      <3>3. tap[d].photo \in Nat
        BY <2>7 DEF AdminTypes
      <3> QED  BY <2>1, <2>3, <2>7, <3>2, <3>3 DEF Its
    <2>8. ChainsInv'
      <3> SUFFICES ASSUME NEW d \in Docs, chain[d].stage \in {"put", "link"}
                   PROVE  Its(d, chain[d].photo)'
        BY <2>1 DEF ChainsInv
      <3>1. tap[d] # NoTap
        BY DEF TapsInv
      <3>2. chain[d].photo \in Nat /\ Its(d, chain[d].photo)
        BY DEF ChainsInv, AdminTypes
      <3> QED  BY <2>1, <2>7, <3>1, <3>2 DEF Its
    <2>9. ImagesInv' /\ StorageStays
      BY <2>1, ImagesStay DEF StorageStays
    <2>10. PhotoOfItsForm'
      <3> SUFFICES ASSUME NEW d \in Docs, storage[d] # 0
                   PROVE  Its(d, storage[d])'
        BY <2>1 DEF PhotoOfItsForm, Its
      <3>1. tap[d] # NoTap
        BY DEF TapsInv
      <3>2. storage[d] \in Nat /\ Its(d, storage[d])
        BY DEF PhotoOfItsForm, AdminTypes, Its
      <3> QED  BY <2>1, <2>7, <3>1, <3>2 DEF Its
    <2> QED  BY <2>4, <2>5, <2>6, <2>8, <2>9, <2>10
  <1> QED  BY <1>1, <1>2 DEF imagePickerController

LEMMA SubmitKeeps ==
  ASSUME AdminInv, NEW d \in Docs, submitInfoButton(d)
  PROVE  AdminInv' /\ StorageStays
  <1> USE DEF AdminInv
  <1>1. /\ tap[d] = NoTap /\ storage[d] = 0 /\ form \in 1..MaxForms
        /\ UNCHANGED <<form, photo, board, storage>> /\ form \in Nat
        /\ photo[form] \in Nat
    BY InfoAssumption DEF submitInfoButton, TapsInv, AdminTypes
  <1> DEFINE w == [info |-> d, kind |-> "text"]
  <1>2. /\ tap' = [tap EXCEPT ![d] = [form |-> form, photo |-> photo[form]]]
        /\ chain' = [chain EXCEPT ![d] = [stage |-> "add", form |-> form, photo |-> 0]]
        /\ queue' = Append(queue, w)
    BY DEF submitInfoButton
  <1>3. /\ tap'[d] = [form |-> form, photo |-> photo[form]]
        /\ chain'[d] = [stage |-> "add", form |-> form, photo |-> 0]
        /\ \A e \in Docs : e # d => tap'[e] = tap[e] /\ chain'[e] = chain[e]
    BY <1>2 DEF AdminTypes
  <1>4. AdminTypes'
    BY <1>1, <1>2 DEF AdminTypes, Stages
  <1>5. PhotosInv'
    BY <1>1 DEF PhotosInv
  <1>6. TapsInv'
    BY <1>1, <1>3 DEF TapsInv, NoTap
  <1>7. ChainsInv'
    BY <1>1, <1>3 DEF ChainsInv, Its
  <1>8. ImagesInv'
    <2> SUFFICES ASSUME NEW i \in DOMAIN queue', queue'[i].kind = "image"
                 PROVE  storage[queue'[i].info] # 0
      BY <1>1 DEF ImagesInv
    <2>1. queue \in Seq([info : Docs, kind : {"text", "image"}])
          /\ w \in [info : Docs, kind : {"text", "image"}]
      BY DEF AdminTypes
    <2>2. w.kind # "image"
      OBVIOUS
    <2> HIDE DEF w
    <2>3. CASE i = Len(queue) + 1
      BY <1>2, <2>1, <2>2, <2>3
    <2>4. CASE i \in DOMAIN queue
      <3>1. queue'[i] = queue[i]
        BY <1>2, <2>1, <2>4
      <3> QED  BY <2>4, <3>1 DEF ImagesInv
    <2> QED
      BY <1>2, <2>1, <2>3, <2>4
  <1>9. PhotoOfItsForm'
    BY <1>1, <1>3 DEF PhotoOfItsForm
  <1>10. StorageStays
    BY <1>1 DEF StorageStays
  <1> QED  BY <1>4, <1>5, <1>6, <1>7, <1>8, <1>9, <1>10

LEMMA OpenFormKeeps ==
  ASSUME AdminInv, OpenForm
  PROVE  AdminInv' /\ StorageStays
  <1> USE DEF AdminInv
  <1>1. /\ form \in 1..MaxForms /\ form' = form + 1 /\ form' \in 1..MaxForms
        /\ UNCHANGED <<photo, chain, queue, board, storage, tap>>
    BY InfoAssumption DEF OpenForm, AdminTypes
  <1>2. AdminTypes' /\ PhotosInv'
    BY <1>1, InfoAssumption DEF AdminTypes, PhotosInv
  <1>3. TapsInv'
    BY <1>1, InfoAssumption DEF TapsInv
  <1>4. ChainsInv' /\ ImagesInv' /\ PhotoOfItsForm' /\ StorageStays
    BY <1>1 DEF ChainsInv, ImagesInv, PhotoOfItsForm, Its, StorageStays
  <1> QED  BY <1>2, <1>3, <1>4

(* The chains of a process that ends are dropped.                          *)
LEMMA DiedDrops ==
  ASSUME Died
  PROVE  /\ ChainsDrop
         /\ chain' \in [Docs -> [stage : Stages \cup {"none"}, form : Nat,
                                 photo : Nat]]
  BY DEF Died, ChainsDrop, NoChain, Stages

LEMMA KillKeeps ==
  ASSUME AdminInv, Died, UNCHANGED <<form, photo, queue, board, storage, tap>>
  PROVE  AdminInv' /\ StorageStays
  <1>1. StorageStays
    BY DEF StorageStays
  <1>2. AdminTypes'
    BY DiedDrops DEF AdminInv, AdminTypes
  <1> QED  BY <1>1, <1>2, DiedDrops, DropKeeps, ImagesStay DEF AdminInv

(* The oldest write of a queue, and what is left without it.               *)
LEMMA HeadTail ==
  ASSUME AdminTypes, queue # <<>>
  PROVE  /\ Head(queue) \in [info : Docs, kind : {"text", "image"}]
         /\ 1 \in DOMAIN queue /\ Head(queue) = queue[1]
         /\ Tail(queue) \in Seq([info : Docs, kind : {"text", "image"}])
         /\ \A i \in DOMAIN Tail(queue) :
               i + 1 \in DOMAIN queue /\ Tail(queue)[i] = queue[i + 1]
  <1> DEFINE W == [info : Docs, kind : {"text", "image"}]
  <1>1. queue \in Seq(W)
    BY DEF AdminTypes
  <1> HIDE DEF W
  <1>2. /\ Head(queue) \in W /\ 1 \in DOMAIN queue /\ Head(queue) = queue[1]
        /\ Tail(queue) \in Seq(W)
        /\ \A i \in DOMAIN Tail(queue) :
              i + 1 \in DOMAIN queue /\ Tail(queue)[i] = queue[i + 1]
    BY <1>1
  <1> QED  BY <1>2 DEF W

LEMMA AcknowledgedKeeps ==
  ASSUME AdminInv, WriteAcknowledged
  PROVE  AdminInv' /\ StorageStays
  <1> USE DEF AdminInv
  <1> DEFINE w == Head(queue)
             d == w.info
             uploads == /\ w.kind = "text" /\ chain[d].stage = "add"
                        /\ photo[chain[d].form] # 0
  <1>1. /\ queue # <<>> /\ queue' = Tail(queue)
        /\ board' = [board EXCEPT ![d] = @ \cup {w.kind}]
        /\ UNCHANGED <<form, photo, storage, tap>>
    BY DEF WriteAcknowledged
  <1>2. /\ w \in [info : Docs, kind : {"text", "image"}]
        /\ queue' \in Seq([info : Docs, kind : {"text", "image"}])
        /\ \A i \in DOMAIN queue' :
              i + 1 \in DOMAIN queue /\ queue'[i] = queue[i + 1]
        /\ 1 \in DOMAIN queue /\ w = queue[1]
    BY <1>1, HeadTail
  <1>3. d \in Docs /\ w.kind \in {"text", "image"}
    BY <1>2
  <1> HIDE DEF w, d
  <1>4. StorageStays
    BY <1>1 DEF StorageStays
  <1>5. board' \in [Docs -> SUBSET {"text", "image"}]
    BY <1>1, <1>3 DEF AdminTypes
  <1>6. ImagesInv'
    <2>1. w.kind = "image" => storage[d] # 0
      BY <1>2 DEF ImagesInv, d
    <2>2. ASSUME NEW e \in Docs, "image" \in board'[e]
          PROVE  storage[e] # 0
      BY <1>1, <1>3, <2>1, <2>2 DEF ImagesInv, AdminTypes
    <2>3. ASSUME NEW i \in DOMAIN queue', queue'[i].kind = "image"
          PROVE  storage[queue'[i].info] # 0
      BY <1>2, <2>3 DEF ImagesInv
    <2> QED  BY <1>1, <2>2, <2>3 DEF ImagesInv
  <1>7. CASE uploads
    <2>1. chain' = uploadImage(d)
      BY <1>7 DEF WriteAcknowledged, w, d
    <2>2. /\ chain'[d] = [stage |-> "put", form |-> chain[d].form,
                          photo |-> photo[chain[d].form]]
          /\ \A e \in Docs : e # d => chain'[e] = chain[e]
      BY <1>3, <1>7, <2>1 DEF uploadImage, AdminTypes
    <2>3. /\ tap[d] # NoTap /\ chain[d].form = tap[d].form
          /\ tap[d].form \in 1..form /\ tap[d].form \in 1..MaxForms
          /\ tap[d].photo \in 0..photo[tap[d].form]
      BY <1>3, <1>7, InfoAssumption DEF TapsInv, ChainsInv, AdminTypes
    <2>4. photo[chain[d].form] \in Nat \ {0} /\ chain[d].form \in Nat
      BY <1>7, <2>3 DEF AdminTypes
    <2>5. AdminTypes'
      <3>1. chain' \in [Docs -> [stage : Stages \cup {"none"}, form : Nat,
                                 photo : Nat]]
        <4>1. chain'[d] \in [stage : Stages \cup {"none"}, form : Nat,
                             photo : Nat]
          BY <2>2, <2>4 DEF Stages
        <4>2. chain' = [chain EXCEPT ![d] = chain'[d]]
          BY <1>3, <2>1 DEF uploadImage, AdminTypes
        <4> QED  BY <4>1, <4>2, <1>3 DEF AdminTypes
      <3> QED  BY <3>1, <1>1, <1>2, <1>5 DEF AdminTypes
    <2>6. Its(d, photo[chain[d].form])
      <3>1. \A f \in 1..(tap[d].form - 1) :
               f \in 1..MaxForms /\ f < tap[d].form
        BY <2>3, <1>1, InfoAssumption
      <3> QED  BY <2>3, <2>4, <3>1 DEF Its, PhotosInv, AdminTypes
    <2>7. PhotosInv' /\ TapsInv' /\ PhotoOfItsForm'
      BY <1>1, <1>7, <2>2, <2>3 DEF PhotosInv, TapsInv, PhotoOfItsForm
    <2>8. ChainsInv'
      <3> SUFFICES ASSUME NEW e \in Docs
                   PROVE  /\ chain'[e].stage # "none" =>
                                chain'[e].form = tap[e].form
                          /\ chain'[e].stage \in {"add", "put"} => storage[e] = 0
                          /\ chain'[e].stage \in {"put", "link"} =>
                                chain'[e].photo # 0 /\ Its(e, chain'[e].photo)
                          /\ chain'[e].stage = "link" => storage[e] # 0
        BY <1>1 DEF ChainsInv, Its
      <3>1. CASE e = d
        BY <3>1, <1>7, <2>2, <2>3, <2>4, <2>6, <1>3 DEF ChainsInv
      <3>2. CASE e # d
        BY <3>2, <2>2 DEF ChainsInv
      <3> QED  BY <3>1, <3>2
    <2> QED  BY <1>4, <1>6, <2>5, <2>7, <2>8
  <1>8. CASE ~uploads
    <2>1. ChainsDrop /\ chain' \in [Docs -> [stage : Stages \cup {"none"},
                                             form : Nat, photo : Nat]]
      BY <1>8, DiedDrops DEF WriteAcknowledged, ChainsDrop, AdminTypes, w, d
    <2>2. AdminTypes'
      BY <1>1, <1>2, <1>5, <2>1 DEF AdminTypes
    <2> QED  BY <1>1, <1>4, <1>6, <2>1, <2>2, DropKeeps
  <1> QED  BY <1>7, <1>8

LEMMA RefusedKeeps ==
  ASSUME AdminInv, WriteRefused
  PROVE  AdminInv' /\ StorageStays
  <1> USE DEF AdminInv
  <1>1. /\ queue # <<>> /\ queue' = Tail(queue)
        /\ UNCHANGED <<form, photo, board, storage, tap>>
    BY DEF WriteRefused
  <1>2. /\ queue' \in Seq([info : Docs, kind : {"text", "image"}])
        /\ \A i \in DOMAIN queue' :
              i + 1 \in DOMAIN queue /\ queue'[i] = queue[i + 1]
    BY <1>1, HeadTail
  <1>3. ChainsDrop /\ chain' \in [Docs -> [stage : Stages \cup {"none"},
                                           form : Nat, photo : Nat]]
    BY DEF WriteRefused, ChainsDrop, AdminTypes, NoChain, Stages
  <1>4. AdminTypes'
    BY <1>1, <1>2, <1>3 DEF AdminTypes
  <1>5. ImagesInv' /\ StorageStays
    BY <1>1, <1>2 DEF ImagesInv, StorageStays
  <1> QED  BY <1>1, <1>3, <1>4, <1>5, DropKeeps

LEMMA PutKeeps ==
  ASSUME AdminInv, NEW d \in Docs, PutCompleted(d)
  PROVE  AdminInv' /\ StorageStays
  <1> USE DEF AdminInv
  <1> DEFINE n == chain[d].photo
  <1>1. /\ chain[d].stage = "put"
        /\ storage' = [storage EXCEPT ![d] = n]
        /\ chain' = [chain EXCEPT ![d].stage = "link"]
        /\ UNCHANGED <<form, photo, queue, board, tap>>
    BY DEF PutCompleted
  <1>2. /\ tap[d] # NoTap /\ storage[d] = 0 /\ n # 0 /\ n \in Nat
        /\ Its(d, n) /\ chain[d].form = tap[d].form
    BY <1>1 DEF TapsInv, ChainsInv, AdminTypes
  <1>3. /\ storage'[d] = n /\ chain'[d].stage = "link"
        /\ chain'[d].photo = n /\ chain'[d].form = tap[d].form
        /\ \A e \in Docs : e # d => storage'[e] = storage[e] /\ chain'[e] = chain[e]
    BY <1>1, <1>2 DEF AdminTypes
  <1>4. StorageStays
    BY <1>2, <1>3 DEF StorageStays
  <1>5. AdminTypes'
    BY <1>1, <1>2 DEF AdminTypes, Stages
  <1>6. PhotosInv' /\ ImagesInv'
    BY <1>1, <1>4, ImagesStay DEF PhotosInv
  <1>7. TapsInv'
    BY <1>1, <1>2, <1>3 DEF TapsInv
  <1>8. ChainsInv'
    <2> SUFFICES ASSUME NEW e \in Docs
                 PROVE  /\ chain'[e].stage # "none" => chain'[e].form = tap[e].form
                        /\ chain'[e].stage \in {"add", "put"} => storage'[e] = 0
                        /\ chain'[e].stage \in {"put", "link"} =>
                              chain'[e].photo # 0 /\ Its(e, chain'[e].photo)
                        /\ chain'[e].stage = "link" => storage'[e] # 0
      BY <1>1 DEF ChainsInv, Its
    <2>1. CASE e = d
      BY <2>1, <1>2, <1>3
    <2>2. CASE e # d
      BY <2>2, <1>3 DEF ChainsInv
    <2> QED  BY <2>1, <2>2
  <1>9. PhotoOfItsForm'
    <2> SUFFICES ASSUME NEW e \in Docs, storage'[e] # 0
                 PROVE  Its(e, storage'[e])
      BY <1>1 DEF PhotoOfItsForm, Its
    <2>1. CASE e = d
      BY <2>1, <1>2, <1>3
    <2>2. CASE e # d
      BY <2>2, <1>3 DEF PhotoOfItsForm, Its
    <2> QED  BY <2>1, <2>2
  <1> QED  BY <1>4, <1>5, <1>6, <1>7, <1>8, <1>9

LEMMA UrlKeeps ==
  ASSUME AdminInv, NEW d \in Docs, UrlCompleted(d)
  PROVE  AdminInv' /\ StorageStays
  <1> USE DEF AdminInv
  <1> DEFINE w == [info |-> d, kind |-> "image"]
             W == [info : Docs, kind : {"text", "image"}]
  <1>1. /\ chain[d].stage = "link" /\ queue' = Append(queue, w)
        /\ chain' = [chain EXCEPT ![d] = NoChain]
        /\ UNCHANGED <<form, photo, board, storage, tap>>
    BY DEF UrlCompleted
  <1>2. storage[w.info] # 0 /\ w \in W /\ queue \in Seq(W)
    BY <1>1 DEF ChainsInv, AdminTypes
  <1> HIDE DEF w, W
  <1>3. queue' \in Seq(W)
    BY <1>1, <1>2
  <1>4. \A i \in DOMAIN queue' :
           \/ queue'[i] = w
           \/ i \in DOMAIN queue /\ queue'[i] = queue[i]
    BY <1>1, <1>2
  <1>5. ChainsDrop /\ chain' \in [Docs -> [stage : Stages \cup {"none"},
                                           form : Nat, photo : Nat]]
    BY <1>1 DEF ChainsDrop, AdminTypes, NoChain, Stages
  <1>6. AdminTypes'
    BY <1>1, <1>3, <1>5 DEF AdminTypes, W
  <1>7. ImagesInv' /\ StorageStays
    BY <1>1, <1>2, <1>4 DEF ImagesInv, StorageStays
  <1> QED  BY <1>1, <1>5, <1>6, <1>7, DropKeeps

LEMMA PutFailedKeeps ==
  ASSUME AdminInv, NEW d \in Docs, PutFailed(d)
  PROVE  AdminInv' /\ StorageStays
  <1> USE DEF AdminInv
  <1>1. /\ chain' = [chain EXCEPT ![d] = NoChain]
        /\ UNCHANGED <<form, photo, queue, board, storage, tap>>
    BY DEF PutFailed
  <1>2. ChainsDrop /\ AdminTypes' /\ StorageStays
    BY <1>1 DEF ChainsDrop, AdminTypes, NoChain, Stages, StorageStays
  <1> QED  BY <1>1, <1>2, DropKeeps, ImagesStay

(* Every step of the administrator, one by one.                            *)
LEMMA AdminKeeps ==
  ASSUME AdminInv, AdminStep
  PROVE  AdminInv' /\ StorageStays
  <1>1. CASE TypeTitle \/ imagePickerButton \/ AlertOk \/ InvalidDetails
    BY <1>1, AdminFrame
    DEF TypeTitle, imagePickerButton, AlertOk, InvalidDetails
  <1>2. CASE imagePickerController
    BY <1>2, PickKeeps
  <1>3. CASE \E d \in Docs : submitInfoButton(d)
    BY <1>3, SubmitKeeps
  <1>4. CASE OpenForm
    BY <1>4, OpenFormKeeps
  <1>5. CASE Kill
    BY <1>5, KillKeeps DEF Kill
  <1>6. CASE WriteAcknowledged
    BY <1>6, AcknowledgedKeeps
  <1>7. CASE WriteRefused
    BY <1>7, RefusedKeeps
  <1>8. ASSUME NEW d \in Docs,
               PutCompleted(d) \/ PutFailed(d) \/ UrlCompleted(d) \/ UrlFailed(d)
        PROVE  AdminInv' /\ StorageStays
    BY <1>8, PutKeeps, PutFailedKeeps, UrlKeeps, KillKeeps DEF UrlFailed
  <1> QED
    BY <1>1, <1>2, <1>3, <1>4, <1>5, <1>6, <1>7, <1>8 DEF AdminStep

-----------------------------------------------------------------------------
(* The reader.                                                             *)

LEMMA RowTypes ==
  ASSUME NEW rows \in Seq(ListRows), NEW i \in DOMAIN rows
  PROVE  rows[i].info \in Docs
  <1>1. rows[i] \in ListRows
    OBVIOUS
  <1> QED  BY <1>1 DEF ListRows

(* Nothing the administrator does takes a photo from a row.                *)
LEMMA ReaderUnderAdmin ==
  ASSUME ReaderTypes, RowsInv, UNCHANGED readerVars, StorageStays
  PROVE  ReaderTypes' /\ RowsInv'
  <1>1. ReaderTypes' /\ UNCHANGED <<reader, reading, infoArray, drawn, loads,
                                    infoImage, detail>>
    BY DEF readerVars, ReaderTypes
  <1>2. \A i \in DOMAIN infoArray : infoArray[i].info \in Docs
    BY RowTypes DEF ReaderTypes
  <1>3. \A i \in 1..drawn : i \in DOMAIN infoArray
    BY DEF ReaderTypes
  <1>4. \A i \in DOMAIN infoArray : infoArray[i].image =>
           /\ storage[infoArray[i].info] # 0
           /\ storage'[infoArray[i].info] = storage[infoArray[i].info]
    BY <1>2 DEF RowsInv, StorageStays
  <1>5. \A i \in 1..drawn :
           storage'[infoArray[i].info] = storage[infoArray[i].info]
    BY <1>3, <1>4 DEF RowsInv
  <1> QED
    BY <1>1, <1>4, <1>5 DEF RowsInv, PictureOfThisList

(* Drawing rows up to the n-th.                                            *)
LEMMA DrawKeeps ==
  ASSUME NEW rows \in Seq(ListRows), NEW n \in 0..Len(rows),
         drawn \in 0..n, loads \subseteq Docs, Draw(rows, n)
  PROVE  /\ drawn' \in 0..Len(rows) /\ loads' \subseteq Docs
         /\ \/ reader' = "down" /\ loads' = {} /\ drawn' = 0
            \/ /\ reader' = reader /\ drawn' = n
               /\ \A i \in 1..n : rows[i].image
               /\ \A d \in loads' : d \in loads \/ \E i \in 1..n : rows[i].info = d
  <1>1. \A i \in 1..n : rows[i].info \in Docs
    BY RowTypes
  <1>2. CASE \E i \in 1..n : ~rows[i].image
    BY <1>2 DEF Draw
  <1>3. CASE ~\E i \in 1..n : ~rows[i].image
    <2>1. /\ reader' = reader /\ drawn' = n
          /\ loads' = loads \cup {rows[i].info : i \in (drawn + 1)..n}
      BY <1>3 DEF Draw
    <2>2. \A i \in (drawn + 1)..n : i \in 1..n
      OBVIOUS
    <2> QED  BY <1>1, <1>3, <2>1, <2>2
  <1> QED  BY <1>2, <1>3

LEMMA LoadKeeps ==
  ASSUME BoardInv, loadInfos
  PROVE  ReaderTypes' /\ RowsInv'
  <1> USE DEF BoardInv, AdminInv
  <1> DEFINE ids == {d \in Docs : board[d] # {}}
  <1>1. PICK rows \in Rows :
           /\ infoArray' = rows
           /\ Draw(rows, IF Len(rows) < Visible THEN Len(rows) ELSE Visible)
    BY DEF loadInfos
  <1>2. PICK s \in [1..Cardinality(ids) -> ids] :
           rows = [i \in DOMAIN s |-> [info |-> s[i],
                                       image |-> "image" \in board[s[i]]]]
    BY DEF Rows
  <1>3. Cardinality(ids) \in Nat
    BY FS_Subset, FS_CardinalityType, InfoAssumption
  <1>4. /\ rows \in Seq(ListRows)
        /\ \A i \in DOMAIN rows : rows[i].image => storage[rows[i].info] # 0
    <2> DEFINE m == Cardinality(ids)
    <2> HIDE DEF m
    <2>1. m \in Nat /\ s \in [1..m -> ids]
      BY <1>3 DEF m
    <2>2. ASSUME NEW i \in 1..m
          PROVE  rows[i] \in ListRows /\ (rows[i].image => storage[rows[i].info] # 0)
      <3>1. s[i] \in Docs /\ rows[i] = [info |-> s[i], image |-> "image" \in board[s[i]]]
        BY <1>2, <2>1
      <3>2. /\ rows[i].info = s[i]
            /\ rows[i].image => "image" \in board[s[i]]
        <4>1. CASE "image" \in board[s[i]]
          BY <3>1, <4>1
        <4>2. CASE "image" \notin board[s[i]]
          <5>1. ("image" \in board[s[i]]) = FALSE
            BY <4>2
          <5>2. rows[i].image = ("image" \in board[s[i]])
            <6> DEFINE b == "image" \in board[s[i]]
            <6>1. rows[i] = [info |-> s[i], image |-> b]
              BY <3>1
            <6> HIDE DEF b
            <6>2. rows[i].image = b
              BY <6>1
            <6> QED  BY <6>2 DEF b
          <5>3. rows[i].image = FALSE
            BY <5>1, <5>2, Zenon
          <5> QED  BY <3>1, <5>3
        <4> QED  BY <4>1, <4>2
      <3>3. rows[i] \in ListRows
        BY <3>1 DEF ListRows
      <3> QED  BY <3>1, <3>2, <3>3 DEF ImagesInv
    <2>3. rows = [i \in 1..m |-> rows[i]]
      BY <1>2, <2>1
    <2> HIDE <1>2
    <2>4. rows \in Seq(ListRows) /\ DOMAIN rows = 1..m
      BY <2>1, <2>2, <2>3
    <2> QED  BY <2>2, <2>4
  <1> DEFINE n == IF Len(rows) < Visible THEN Len(rows) ELSE Visible
  <1>5. n \in 0..Len(rows)
    BY <1>4, InfoAssumption
  <1>6. /\ reader = "list" /\ reading /\ drawn = 0 /\ loads = {} /\ infoImage = 0
        /\ detail.picture = 0 /\ reading' = FALSE
        /\ UNCHANGED <<storage, infoImage, detail>>
    BY DEF loadInfos, adminVars, RowsInv
  <1> HIDE DEF n
  <1>7. /\ drawn' \in 0..Len(rows) /\ loads' \subseteq Docs
        /\ \/ reader' = "down" /\ loads' = {} /\ drawn' = 0
           \/ /\ reader' = reader /\ drawn' = n
              /\ \A i \in 1..n : rows[i].image
              /\ \A d \in loads' : \E i \in 1..n : rows[i].info = d
    BY <1>1, <1>4, <1>5, <1>6, DrawKeeps DEF n
  <1>8. ReaderTypes'
    BY <1>1, <1>4, <1>6, <1>7 DEF ReaderTypes
  <1>9. RowsInv'
    BY <1>1, <1>4, <1>6, <1>7 DEF RowsInv, PictureOfThisList
  <1> QED  BY <1>8, <1>9

LEMMA ScrollKeeps ==
  ASSUME BoardInv, Scroll
  PROVE  ReaderTypes' /\ RowsInv'
  <1> USE DEF BoardInv, AdminInv
  <1>1. /\ reader = "list" /\ drawn > 0 /\ drawn < Len(infoArray)
        /\ Draw(infoArray, drawn + 1) /\ ~reading
        /\ UNCHANGED <<storage, reading, infoArray, infoImage, detail>>
    BY DEF Scroll, adminVars, RowsInv, ReaderTypes
  <1>2. /\ drawn' \in 0..Len(infoArray) /\ loads' \subseteq Docs
        /\ \/ reader' = "down" /\ loads' = {} /\ drawn' = 0
           \/ /\ reader' = reader /\ drawn' = drawn + 1
              /\ \A i \in 1..(drawn + 1) : infoArray[i].image
              /\ \A d \in loads' :
                    d \in loads \/ \E i \in 1..(drawn + 1) : infoArray[i].info = d
    BY <1>1, DrawKeeps DEF ReaderTypes
  <1>3. \A i \in 1..drawn : i \in 1..(drawn + 1)
    BY DEF ReaderTypes
  <1>4. detail.picture = 0
    BY <1>1 DEF RowsInv
  <1>5. ReaderTypes'
    BY <1>1, <1>2 DEF ReaderTypes
  <1>6. CASE reader' = "down" /\ loads' = {} /\ drawn' = 0
    BY <1>1, <1>4, <1>5, <1>6 DEF RowsInv, PictureOfThisList
  <1>7. CASE /\ reader' = reader /\ drawn' = drawn + 1
             /\ \A i \in 1..(drawn + 1) : infoArray[i].image
             /\ \A d \in loads' :
                   d \in loads \/ \E i \in 1..(drawn + 1) : infoArray[i].info = d
    <2>1. \A d \in loads' : \E i \in 1..drawn' : infoArray[i].info = d
      BY <1>3, <1>7 DEF RowsInv
    <2>2. infoImage # 0 =>
             \E i \in 1..drawn' : infoImage = storage[infoArray[i].info]
      BY <1>1, <1>3, <1>7 DEF RowsInv
    <2> QED
      BY <1>1, <1>4, <1>5, <1>7, <2>1, <2>2 DEF RowsInv, PictureOfThisList
  <1> QED  BY <1>2, <1>5, <1>6, <1>7

LEMMA ScrollBackKeeps ==
  ASSUME BoardInv, NEW i \in 1..drawn, ScrollBack(i)
  PROVE  ReaderTypes' /\ RowsInv'
  <1> USE DEF BoardInv, AdminInv
  <1>1. /\ reader = "list" /\ i \in 1..drawn
        /\ loads' = loads \cup {infoArray[i].info}
        /\ UNCHANGED <<storage, reader, reading, infoArray, drawn, infoImage,
                       detail>>
    BY DEF ScrollBack, adminVars
  <1>2. ~reading
    BY <1>1 DEF RowsInv, ReaderTypes
  <1>3. infoArray[i].info \in Docs
    <2>1. i \in DOMAIN infoArray /\ infoArray[i] \in ListRows
      BY <1>1 DEF ReaderTypes
    <2> QED  BY <2>1 DEF ListRows
  <1>4. ReaderTypes'
    BY <1>1, <1>3 DEF ReaderTypes
  <1>5. \A d \in loads' : \E j \in 1..drawn' : infoArray'[j].info = d
    BY <1>1 DEF RowsInv
  <1> QED  BY <1>1, <1>2, <1>4, <1>5 DEF RowsInv, PictureOfThisList

LEMMA ImageLoadedKeeps ==
  ASSUME BoardInv, NEW d \in Docs, ImageLoaded(d)
  PROVE  ReaderTypes' /\ RowsInv'
  <1> USE DEF BoardInv, AdminInv
  <1>1. /\ d \in loads /\ loads' = loads \ {d}
        /\ infoImage' = storage[d] \/ infoImage' = 0
        /\ UNCHANGED <<storage, reader, reading, infoArray, drawn, detail>>
    BY DEF ImageLoaded, adminVars
  <1>2. reader # "down" /\ ~reading
    BY <1>1 DEF RowsInv
  <1>3. PICK i \in 1..drawn : infoArray[i].info = d
    BY <1>1 DEF RowsInv
  <1>4. ReaderTypes'
    BY <1>1 DEF ReaderTypes, AdminTypes
  <1>5. infoImage' # 0 => \E j \in 1..drawn : infoImage' = storage[infoArray[j].info]
    BY <1>1, <1>3
  <1> QED  BY <1>1, <1>2, <1>4, <1>5 DEF RowsInv, PictureOfThisList

(* Every step of the reader, one by one.                                   *)
LEMMA ReaderKeeps ==
  ASSUME BoardInv, ReaderStep
  PROVE  ReaderTypes' /\ RowsInv' /\ UNCHANGED adminVars
  <1>1. UNCHANGED adminVars
    BY DEF ReaderStep, loadInfos, LoadError, Scroll, Back, OpenList,
           ImageLoaded, ScrollBack, didSelectInfo
  <1>2. UNCHANGED storage
    BY <1>1 DEF adminVars
  <1>3. CASE loadInfos
    BY <1>1, <1>3, LoadKeeps
  <1>4. CASE LoadError
    BY <1>2, <1>4 DEF BoardInv, LoadError, ReaderTypes, RowsInv,
                      PictureOfThisList
  <1>5. CASE Scroll
    BY <1>1, <1>5, ScrollKeeps
  <1>6. CASE Back
    BY <1>2, <1>6 DEF BoardInv, Back, ReaderTypes, RowsInv,
                      PictureOfThisList, NoDetail
  <1>7. CASE OpenList
    BY <1>2, <1>7 DEF BoardInv, OpenList, ListOpened, ReaderTypes, RowsInv,
                      PictureOfThisList, NoDetail
  <1>8. ASSUME NEW d \in Docs, ImageLoaded(d)
        PROVE  ReaderTypes' /\ RowsInv'
    BY <1>8, ImageLoadedKeeps
  <1>9. ASSUME NEW i \in 1..drawn, didSelectInfo(i)
        PROVE  ReaderTypes' /\ RowsInv'
    BY <1>2, <1>9 DEF BoardInv, didSelectInfo, ReaderTypes, RowsInv,
                      PictureOfThisList
  <1>10. ASSUME NEW i \in 1..drawn, ScrollBack(i)
         PROVE  ReaderTypes' /\ RowsInv'
    BY <1>10, ScrollBackKeeps
  <1> QED
    BY <1>1, <1>3, <1>4, <1>5, <1>6, <1>7, <1>8, <1>9, <1>10 DEF ReaderStep

LEMMA BoardStepKeeps ==
  ASSUME BoardInv, [InfoNext]_infoVars
  PROVE  BoardInv'
  <1>1. CASE AdminStep
    <2>1. AdminInv' /\ StorageStays
      BY <1>1, AdminKeeps DEF BoardInv
    <2>2. UNCHANGED readerVars
      BY <1>1 DEF AdminStep, TypeTitle, imagePickerButton,
                  imagePickerController, AlertOk, InvalidDetails,
                  submitInfoButton, OpenForm, Kill, WriteAcknowledged,
                  WriteRefused, PutCompleted, PutFailed, UrlCompleted,
                  UrlFailed
    <2> QED  BY <2>1, <2>2, ReaderUnderAdmin DEF BoardInv
  <1>2. CASE ReaderStep
    BY <1>2, ReaderKeeps, AdminFrame DEF BoardInv, adminVars
  <1>3. CASE UNCHANGED infoVars
    <2>1. UNCHANGED <<form, photo, chain, queue, board, storage, tap, readerVars>>
      BY <1>3 DEF infoVars, adminVars
    <2> QED  BY <2>1, AdminFrame, ReaderUnderAdmin DEF BoardInv
  <1> QED  BY <1>1, <1>2, <1>3 DEF InfoNext

THEOREM BoardInvariant == InfoSpec => []BoardInv
  <1>1. InfoInit => BoardInv
    BY InfoBegins
  <1>2. BoardInv /\ [InfoNext]_infoVars => BoardInv'
    BY BoardStepKeeps
  <1> QED  BY <1>1, <1>2, PTL DEF InfoSpec

(* However late addDocument is acknowledged and however often the form is  *)
(* submitted, left and filled again, no info gets the photo of another     *)
(* form or one replaced before its tap.                                    *)
THEOREM PhotosAreOfTheirForms == InfoSpec => []PhotoOfItsForm
  <1>1. BoardInv => PhotoOfItsForm
    BY DEF BoardInv, AdminInv
  <1> QED  BY <1>1, BoardInvariant, PTL

(* An Image is written only when its photo is stored, so the rows of a     *)
(* list that has not trapped have theirs.                                  *)
THEOREM ImagesHavePictures == InfoSpec => []PicturesExist
  <1>1. BoardInv => PicturesExist
    BY DEF BoardInv, AdminInv, ImagesInv, RowsInv, ReaderTypes, PicturesExist
  <1> QED  BY <1>1, BoardInvariant, PTL

(* infoImage is at least the picture of an info this list has drawn.       *)
THEOREM PicturesAreOfTheList == InfoSpec => []PictureOfThisList
  <1>1. BoardInv => PictureOfThisList
    BY DEF BoardInv, RowsInv
  <1> QED  BY <1>1, BoardInvariant, PTL
=============================================================================
