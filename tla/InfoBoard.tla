------------------------------ MODULE InfoBoard ------------------------------
(***************************************************************************)
(* The information board: addInfoViewController on the administrator's     *)
(* phone, InformationViewController and detailedInfoViewController on a    *)
(* reader's, and the collection "infoUpload" between them.                 *)
(*                                                                         *)
(* An info is known by its document id; its texts never change once it is  *)
(* added, so they are not in the model.  Photos are numbered in the order  *)
(* they are picked; 0 is none.  The administrator's writes wait in a queue *)
(* that outlives the app.  A resent write changes nothing here (no write   *)
(* of another kind comes between), so the backend applies and acknowledges *)
(* the oldest write in one step.                                           *)
(***************************************************************************)
EXTENDS Naturals, Sequences, FiniteSetsExt

CONSTANTS
    Docs,       \* the ids addDocument draws, numbers
    MaxPicks,   \* photos picked (a bound)
    MaxForms,   \* times the form is opened (a bound)
    Visible,    \* rows of the list that fit on the screen
    Faults      \* what goes wrong: "refuse", "put", "url", "load", "kill"

ASSUME InfoAssumption ==
    /\ IsFiniteSet(Docs) /\ Docs \subseteq Nat
    /\ MaxForms \in Nat \ {0} /\ Visible \in Nat

VARIABLES
    form,       \* forms opened so far; the last one is on the screen
    up,         \* the administrator's app runs
    filled,     \* titleInfo and infoView are not empty
    dialog,     \* what covers the form: "none", "picker" or "alert"
    photo,      \* Image.image of each form
    chain,      \* the uploads, by info
    queue,      \* writes the backend has not acknowledged
    board,      \* the fields of each stored info
    storage,    \* the photo stored under Uploads/<id>
    tap,        \* history: the form of each submit and the photo it had
    reader,     \* the reader's screen: "list", "detail" or "down"
    reading,    \* its getDocuments has not answered
    infoArray,  \* the rows: an id, and whether it had an Image
    drawn,      \* how many of them have been drawn
    loads,      \* the infos whose pictures are being loaded
    infoImage,  \* the picture loaded last
    detail      \* the row and the picture of the detail screen

adminVars == <<form, up, filled, dialog, photo, chain, queue, board, storage,
               tap>>
readerVars == <<reader, reading, infoArray, drawn, loads, infoImage, detail>>
infoVars == <<adminVars, readerVars>>

Stages == {"add", "put", "link"}
NoChain == [stage |-> "none", form |-> 0, photo |-> 0]
NoTap == [form |-> 0, photo |-> 0]
NoDetail == [info |-> 0, picture |-> 0]

(* Mutant: pictures asked for by a former list reach the new one.         *)
MutLoadsKept ==
    /\ reader' = "list" /\ reading' = TRUE /\ infoArray' = <<>> /\ drawn' = 0
    /\ loads' = loads /\ infoImage' = 0 /\ detail' = NoDetail

(* A new InformationViewController.                                        *)
ListOpened ==
    /\ reader' = "list" /\ reading' = TRUE /\ infoArray' = <<>> /\ drawn' = 0
    /\ loads' = {} /\ infoImage' = 0 /\ detail' = NoDetail

InfoInit ==
    /\ form = 1 /\ up = TRUE /\ filled = FALSE /\ dialog = "none"
    /\ photo = [n \in 1..MaxForms |-> 0]
    /\ chain = [d \in Docs |-> NoChain]
    /\ queue = <<>>
    /\ board = [d \in Docs |-> {}]
    /\ storage = [d \in Docs |-> 0]
    /\ tap = [d \in Docs |-> NoTap]
    /\ reader = "list" /\ reading = TRUE /\ infoArray = <<>> /\ drawn = 0
    /\ loads = {} /\ infoImage = 0 /\ detail = NoDetail

Touchable == up /\ dialog = "none"

Picked == Max({photo[f] : f \in 1..MaxForms})

(* Every closure of the process is gone; the queue is not.                 *)
Died ==
    /\ up' = FALSE /\ dialog' = "none"
    /\ chain' = [d \in Docs |-> NoChain]

-----------------------------------------------------------------------------
(* The administrator.                                                      *)

TypeTitle ==
    /\ Touchable /\ filled' = ~filled
    /\ UNCHANGED <<form, up, dialog, photo, chain, queue, board, storage,
                   tap, readerVars>>

imagePickerButton ==
    /\ Touchable /\ dialog' = "picker"
    /\ UNCHANGED <<form, up, filled, photo, chain, queue, board, storage,
                   tap, readerVars>>

(* The photo picked is a new one; the picker can be left without any.      *)
imagePickerController ==
    /\ dialog = "picker" /\ dialog' = "none"
    /\ \/ Picked < MaxPicks /\ photo' = [photo EXCEPT ![form] = Picked + 1]
       \/ UNCHANGED photo
    /\ UNCHANGED <<form, up, filled, chain, queue, board, storage, tap,
                   readerVars>>

AlertOk ==
    /\ dialog = "alert" /\ dialog' = "none"
    /\ UNCHANGED <<form, up, filled, photo, chain, queue, board, storage,
                   tap, readerVars>>

InvalidDetails ==
    /\ Touchable /\ ~filled /\ dialog' = "alert"
    /\ UNCHANGED <<form, up, filled, photo, chain, queue, board, storage,
                   tap, readerVars>>

(* addDocument.  Nothing looks at the photo yet, nothing clears the form,  *)
(* nothing disables the button.                                            *)
submitInfoButton(d) ==
    /\ Touchable /\ filled /\ tap[d] = NoTap
    /\ tap' = [tap EXCEPT ![d] = [form |-> form, photo |-> photo[form]]]
    /\ chain' = [chain EXCEPT ![d] = [stage |-> "add", form |-> form, photo |-> 0]]
    /\ queue' = Append(queue, [info |-> d, kind |-> "text"])
    /\ UNCHANGED <<form, up, filled, dialog, photo, board, storage, readerVars>>

(* The app is started, or the form left and opened again: a new controller *)
(* with an empty title and no photo.  Chains of a running app go on, with  *)
(* the controller that began them.                                         *)
OpenForm ==
    /\ ~up \/ Touchable
    /\ form < MaxForms
    /\ form' = form + 1 /\ up' = TRUE /\ filled' = FALSE /\ dialog' = "none"
    /\ UNCHANGED <<photo, chain, queue, board, storage, tap, readerVars>>

Kill ==
    /\ "kill" \in Faults /\ up /\ Died
    /\ UNCHANGED <<form, filled, photo, queue, board, storage, tap,
                   readerVars>>

(* Mutant: the reference is a property of the controller: the photo goes   *)
(* to the info submitted last.                                             *)
MutSharedRef(d) ==
    LET last == CHOOSE e \in Docs : /\ chain[e].stage = "add"
                                    /\ \A g \in Docs : chain[g].stage = "add" => g <= e
    IN  [chain EXCEPT ![d] = NoChain,
                      ![last] = [stage |-> "put", form |-> chain[d].form,
                                 photo |-> photo[chain[d].form]]]

(* uploadImage takes the photo that is in the form now.                    *)
uploadImage(d) ==
    [chain EXCEPT ![d].stage = "put", ![d].photo = photo[chain[d].form]]

(* The oldest write is applied, and its completion runs if its process is  *)
(* still the one that wrote it.  addDocument's unwraps the photo.          *)
WriteAcknowledged ==
    /\ up /\ queue # <<>>
    /\ LET w == Head(queue)
       IN  /\ queue' = Tail(queue)
           /\ board' = [board EXCEPT ![w.info] = @ \cup {w.kind}]
           /\ IF w.kind = "text" /\ chain[w.info].stage = "add"
              THEN IF photo[chain[w.info].form] = 0
                   THEN Died
                   ELSE chain' = uploadImage(w.info) /\ UNCHANGED <<up, dialog>>
              ELSE UNCHANGED <<up, dialog, chain>>
    /\ UNCHANGED <<form, filled, photo, storage, tap, readerVars>>

(* The backend refuses a write: a line in the log, or not even that.       *)
WriteRefused ==
    /\ "refuse" \in Faults /\ up /\ queue # <<>>
    /\ queue' = Tail(queue)
    /\ chain' = IF Head(queue).kind = "text"
                THEN [chain EXCEPT ![Head(queue).info] = NoChain] ELSE chain
    /\ UNCHANGED <<form, up, filled, dialog, photo, board, storage, tap,
                   readerVars>>

PutCompleted(d) ==
    /\ chain[d].stage = "put"
    /\ storage' = [storage EXCEPT ![d] = chain[d].photo]
    /\ chain' = [chain EXCEPT ![d].stage = "link"]
    /\ UNCHANGED <<form, up, filled, dialog, photo, queue, board, tap,
                   readerVars>>

(* Mutant: the error of putData is ignored.                                *)
MutPutErrorIgnored(d) ==
    /\ "put" \in Faults /\ chain[d].stage = "put"
    /\ chain' = [chain EXCEPT ![d].stage = "link"]
    /\ UNCHANGED <<form, up, filled, dialog, photo, queue, board, storage,
                   tap, readerVars>>

(* No JPEG data, or an error of putData: the chain ends without a word.    *)
PutFailed(d) ==
    /\ "put" \in Faults /\ chain[d].stage = "put"
    /\ chain' = [chain EXCEPT ![d] = NoChain]
    /\ UNCHANGED <<form, up, filled, dialog, photo, queue, board, storage,
                   tap, readerVars>>

(* downloadURL's completion: the merge and "Upload Sucessfull".            *)
UrlCompleted(d) ==
    /\ chain[d].stage = "link"
    /\ queue' = Append(queue, [info |-> d, kind |-> "image"])
    /\ dialog' = IF Touchable /\ chain[d].form = form THEN "alert" ELSE dialog
    /\ chain' = [chain EXCEPT ![d] = NoChain]
    /\ UNCHANGED <<form, up, filled, photo, board, storage, tap, readerVars>>

(* It unwraps the URL it did not get.                                      *)
UrlFailed(d) ==
    /\ "url" \in Faults /\ chain[d].stage = "link"
    /\ Died
    /\ UNCHANGED <<form, filled, photo, queue, board, storage, tap,
                   readerVars>>
-----------------------------------------------------------------------------
(* The reader.                                                             *)

(* cellForRowAt of the rows up to the n-th: URL(string: "") is nil, and    *)
(* unwrapping it ends the app; otherwise the picture is asked for.         *)
Draw(rows, n) ==
    IF \E i \in 1..n : ~rows[i].image
    THEN reader' = "down" /\ loads' = {} /\ drawn' = 0
    ELSE /\ reader' = reader
         /\ drawn' = n
         /\ loads' = loads \cup {rows[i].info : i \in (drawn + 1)..n}

(* The one list of the infos in the order of their ids.                    *)
Rows ==
    LET ids == {d \in Docs : board[d] # {}}
        InOrder(s) == \A i, j \in DOMAIN s : i < j => s[i] < s[j]
    IN  {[i \in DOMAIN s |-> [info |-> s[i], image |-> "image" \in board[s[i]]]] :
            s \in {s \in [1..Cardinality(ids) -> ids] : InOrder(s)}}

(* viewDidLoad reads once; nothing reads again.                            *)
loadInfos ==
    /\ reader = "list" /\ reading
    /\ reading' = FALSE
    /\ \E rows \in Rows :
          /\ infoArray' = rows
          /\ Draw(rows, IF Len(rows) < Visible THEN Len(rows) ELSE Visible)
    /\ UNCHANGED <<adminVars, infoImage, detail>>

LoadError ==
    /\ reader = "list" /\ reading /\ "load" \in Faults
    /\ reading' = FALSE
    /\ UNCHANGED <<adminVars, reader, infoArray, drawn, loads, infoImage, detail>>

Scroll ==
    /\ reader = "list" /\ drawn > 0 /\ drawn < Len(infoArray)
    /\ Draw(infoArray, drawn + 1)
    /\ UNCHANGED <<adminVars, reading, infoArray, infoImage, detail>>

(* A row that had left the screen is drawn again, and asks for its picture *)
(* once more.                                                              *)
ScrollBack(i) ==
    /\ reader = "list" /\ drawn > Visible /\ i \in 1..drawn
    /\ loads' = loads \cup {infoArray[i].info}
    /\ UNCHANGED <<adminVars, reader, reading, infoArray, drawn, infoImage,
                   detail>>

(* Whichever picture comes last is infoImage; nil if it cannot be loaded.  *)
ImageLoaded(d) ==
    /\ d \in loads
    /\ loads' = loads \ {d}
    /\ \/ infoImage' = storage[d]
       \/ "load" \in Faults /\ infoImage' = 0
    /\ UNCHANGED <<adminVars, reader, reading, infoArray, drawn, detail>>

(* The texts of the row tapped, and infoImage.                             *)
didSelectInfo(i) ==
    /\ reader = "list" /\ i \in 1..drawn
    /\ reader' = "detail"
    /\ detail' = [info |-> infoArray[i].info, picture |-> infoImage]
    /\ UNCHANGED <<adminVars, reading, infoArray, drawn, loads, infoImage>>

Back ==
    /\ reader = "detail" /\ reader' = "list" /\ detail' = NoDetail
    /\ UNCHANGED <<adminVars, reading, infoArray, drawn, loads, infoImage>>

(* The app is started, or another user logs in: a new controller.          *)
OpenList ==
    /\ ListOpened
    /\ UNCHANGED adminVars
-----------------------------------------------------------------------------
AdminStep ==
    \/ TypeTitle \/ imagePickerButton \/ imagePickerController \/ AlertOk
    \/ InvalidDetails \/ \E d \in Docs : submitInfoButton(d)
    \/ OpenForm \/ Kill
    \/ WriteAcknowledged \/ WriteRefused
    \/ \E d \in Docs : \/ PutCompleted(d) \/ PutFailed(d)
                       \/ UrlCompleted(d) \/ UrlFailed(d)

ReaderStep ==
    \/ loadInfos \/ LoadError \/ Scroll \/ Back \/ OpenList
    \/ \E d \in Docs : ImageLoaded(d)
    \/ \E i \in 1..drawn : ScrollBack(i) \/ didSelectInfo(i)

InfoNext == AdminStep \/ ReaderStep

InfoSpec == InfoInit /\ [][InfoNext]_infoVars
-----------------------------------------------------------------------------
(* The photo stored for an info was picked in the form it was submitted    *)
(* from, and is not one replaced before the tap: however late addDocument  *)
(* is acknowledged, no info gets the photo of an earlier one or of another *)
(* form.  (It may get one picked after the tap: the image view is read in  *)
(* the completion.)                                                        *)
PhotoOfItsForm ==
    \A d \in Docs :
        storage[d] # 0 =>
            /\ storage[d] \in tap[d].photo..photo[tap[d].form]
            /\ \A f \in 1..(tap[d].form - 1) : storage[d] > photo[f]

(* Wherever an Image is, on the backend or on its way to it, its photo is  *)
(* stored; so is that of every row a running list has drawn, although      *)
(* infos are on the board before they have a photo.                        *)
PicturesExist ==
    /\ \A d \in Docs : "image" \in board[d] => storage[d] # 0
    /\ \A i \in DOMAIN queue : queue[i].kind = "image" => storage[queue[i].info] # 0
    /\ \A i \in 1..drawn : storage[infoArray[i].info] # 0

(* The detail screen shows the picture that happened to be loaded last;    *)
(* it is at least that of an info this list has drawn, or none.            *)
PictureOfThisList ==
    detail.picture # 0 =>
        \E i \in 1..drawn : detail.picture = storage[infoArray[i].info]
=============================================================================
