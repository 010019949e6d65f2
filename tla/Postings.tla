------------------------------ MODULE Postings ------------------------------
(***************************************************************************)
(* The life of marketplace postings: the documents of the Firestore        *)
(* collection "Upload", the photos under "Uploads/" in Storage, and the    *)
(* screens of each device that write and read them:                        *)
(*   market  MarketPlaceViewController        (the list of all postings)   *)
(*   upload  UploadMarketPlaceViewController  (add a posting)              *)
(*   manage  ManagePostingsViewController     (the user's own postings)    *)
(*   update  UpdatePostingsViewController     (edit or delete one)         *)
(* A device is one running copy of the app with one signed-in user.        *)
(*                                                                         *)
(* A posting is published by a chain of asynchronous steps, and every link *)
(* of it can be the last one: addDocument, its acknowledgement, the Ref    *)
(* merge, the photo upload, its download URL, the Image merge.  A task is  *)
(* one such chain: the closures waiting for the next completion.  All      *)
(* closures run on the main queue, one at a time; they die with the app,   *)
(* while the queue of unacknowledged writes is on disk and survives.       *)
(***************************************************************************)
EXTENDS FirestoreOps, FiniteSets

CONSTANTS
    Devices,      \* running copies of the app
    Users,        \* Firebase accounts
    UserOf,       \* the account signed in on each device
    Habits,       \* what the user of each device ever does
    Docs,         \* document ids CreateAutoId can return
    Forms,        \* contents of the six text fields and the title
    Tasks,        \* slots for pending chains of closures (a bound)
    MaxQueue,     \* writes a user's tap may add to (a bound)
    MaxFetch,     \* getDocuments calls a screen has outstanding (a bound)
    Rejectable,   \* kinds of write the backend may refuse
    Faults        \* failures that may happen

Kinds == {"add", "ref", "image", "form", "delete"}
AllHabits == {"upload", "manage", "select", "edit", "delete", "tab", "pick",
              "mistype"}
AllFaults == {"kill", "put", "url", "encode", "fetch", "load"}

ASSUME ConstantsAssumption ==
    /\ UserOf \in [Devices -> Users]
    /\ {Absent, Keep} \cap (Devices \cup Users \cup Docs \cup Forms) = {}
    /\ Habits \in [Devices -> SUBSET AllHabits]
    /\ MaxQueue \in Nat /\ MaxFetch \in Nat \ {0}
    /\ Rejectable \subseteq Kinds /\ Faults \subseteq AllFaults

VARIABLES
    server,   \* the collection as the backend holds it
    queue,    \* per device, the writes not acknowledged yet, oldest first
    sent,     \* per device, how many of them the backend has applied
    storage,  \* the ids d for which the object Uploads/d exists
    task,     \* the pending chains
    ui,       \* per device, what is on the screen
    owner,    \* history: whose tap drew the id (Absent: not drawn yet)
    deleted   \* history: ids whose deletion a user has confirmed

vars == <<server, queue, sent, storage, task, ui, owner, deleted>>

(* The document's fields; "form" stands for the seven the user fills in.   *)
Fields == {"form", "user", "ref", "image"}
Content(f) == IF f = "form" THEN Forms ELSE IF f = "user" THEN Users ELSE Docs
Values == Forms \cup Users \cup Docs
Posting == {x \in [Fields -> Values \cup {Absent}] :
                \A f \in Fields : x[f] \in Content(f) \cup {Absent}}
NoPosting == Missing(Fields)

(* The data of addDocument: it replaces whatever the id held before.       *)
AddPatch(form, user) ==
    [NoPosting EXCEPT !["form"] = form, !["user"] = user]

Write(kind, d, patch) == [kind |-> kind, doc |-> d, patch |-> patch]
Patches == {p \in [Fields -> Values \cup {Absent, Keep}] :
                \A f \in Fields : p[f] \in Content(f) \cup {Absent, Keep}}
Writes == [kind : Kinds, doc : Docs, patch : Patches]

(* A task's stage names the completion it waits for: "add" and "acked" are *)
(* the completion of addDocument before and after it is due, "put" that of *)
(* putData, "url" that of downloadURL.  vc is the screen whose controller  *)
(* the closures hold, "gone" once it has been popped.                      *)
NoTask == [stage |-> "idle", dev |-> Absent, doc |-> Absent, vc |-> "gone"]
ActiveTasks == [stage : {"add", "acked", "put", "url"}, dev : Devices,
                doc : Docs, vc : {"upload", "update", "gone"}]

Tables == {"market", "manage"}
Loads == Tables \cup {"update"}
Screens == {"down", "market", "upload", "manage", "update"}
Alerts == {"none", "invalid", "picker", "uploaded", "updated", "confirm",
           "deleted"}
(* The arrays behind the two lists hold Upload objects, which have no      *)
(* document id but the field Ref.  What the screens do with them depends   *)
(* on whether every row has an Image, and for manage on the rows' Refs.    *)
UIs == [screen : Screens, alert : Alerts,
        fetch : [Loads -> 0..MaxFetch],  \* outstanding getDocuments
        drawable : [Tables -> BOOLEAN],  \* every row of the array has an Image
        refs : SUBSET (Docs \cup {Absent}),  \* refNo of manaageArray's rows
        docPath : Docs \cup {Absent},    \* DocPath of the update screen
        picture : BOOLEAN,               \* its imageView.image is not nil
        loading : BOOLEAN]               \* a loadFrom is under way there

Closed == [screen |-> "down", alert |-> "none",
           fetch |-> [l \in Loads |-> 0],
           drawable |-> [l \in Tables |-> TRUE], refs |-> {},
           docPath |-> Absent, picture |-> TRUE, loading |-> FALSE]

Init ==
    /\ server = [d \in Docs |-> NoPosting]
    /\ queue = [v \in Devices |-> <<>>]
    /\ sent = [v \in Devices |-> 0]
    /\ storage = {}
    /\ task = [t \in Tasks |-> NoTask]
    /\ ui = [v \in Devices |-> Closed]
    /\ owner = [d \in Docs |-> Absent]
    /\ deleted = {}

(* The two getDocuments calls of a list that is shown for the first time.  *)
FirstLoads == IF MaxFetch = 1 THEN 1 ELSE 2

Up(v) == ui[v].screen # "down"
(* The user can touch the screen: no alert or picker covers it.            *)
Touchable(v, scr) == ui[v].screen = scr /\ ui[v].alert = "none"

Enqueue(v, w) == queue' = [queue EXCEPT ![v] = Append(@, w)]
Room(v) == Len(queue[v]) < MaxQueue

View(v) == LocalView(server, queue[v])

(* The app ends: by a Swift trap (a force-unwrapped nil), by a failed      *)
(* assertion of the SDK or because the system or the user stops it.        *)
Trap(v) ==
    /\ ui' = [ui EXCEPT ![v] = Closed]
    /\ task' = [t \in Tasks |-> IF task[t].dev = v THEN NoTask ELSE task[t]]
    /\ sent' = [sent EXCEPT ![v] = 0]

(***************************************************************************)
(* Navigation.  A list screen fetches in viewDidLoad and again every time  *)
(* it appears.                                                             *)
(***************************************************************************)
Launch(v) ==
    /\ ui[v].screen = "down"
    /\ ui' = [ui EXCEPT ![v] = [Closed EXCEPT !.screen = "market",
                                              !.fetch["market"] = FirstLoads]]
    /\ UNCHANGED <<server, queue, sent, storage, task, owner, deleted>>

(* Another tab and back.                                                   *)
SwitchTab(v) ==
    /\ Touchable(v, "market")
    /\ ui[v].fetch["market"] < MaxFetch
    /\ ui' = [ui EXCEPT ![v].fetch["market"] = @ + 1]
    /\ UNCHANGED <<server, queue, sent, storage, task, owner, deleted>>

OpenUpload(v) ==
    /\ Touchable(v, "market")
    /\ ui' = [ui EXCEPT ![v].screen = "upload"]
    /\ UNCHANGED <<server, queue, sent, storage, task, owner, deleted>>

OpenManage(v) ==
    /\ Touchable(v, "market")
    /\ ui' = [ui EXCEPT ![v] = [@ EXCEPT
                    !.screen = "manage", !.fetch["manage"] = FirstLoads,
                    !.drawable["manage"] = TRUE, !.refs = {}]]
    /\ UNCHANGED <<server, queue, sent, storage, task, owner, deleted>>

(* didSelectRowAt and prepare: DocPath is the row's Ref, "" if it has none. *)
SelectRow(v, refNo) ==
    /\ Touchable(v, "manage")
    /\ refNo \in ui[v].refs
    /\ ui' = [ui EXCEPT ![v] = [@ EXCEPT
                    !.screen = "update", !.docPath = refNo,
                    !.fetch["update"] = 1, !.picture = TRUE, !.loading = FALSE]]
    /\ UNCHANGED <<server, queue, sent, storage, task, owner, deleted>>

(* The list below the screen that is popped.                               *)
Below(scr) == IF scr = "update" THEN "manage" ELSE "market"

(* popViewController: the controller is gone for the user, but pending     *)
(* closures keep it; the list below reappears, draws and fetches again.    *)
(* What the popped screen still had to read is not followed any further.   *)
Pop(v) ==
    LET scr == ui[v].screen
        list == Below(scr)
    IN  /\ ui[v].fetch[list] < MaxFetch
        /\ IF ui[v].drawable[list]
           THEN /\ ui' = [ui EXCEPT ![v] = [Closed EXCEPT
                        !.screen = list,
                        !.fetch = [l \in Loads |->
                            IF l = scr THEN 0
                            ELSE ui[v].fetch[l] + (IF l = list THEN 1 ELSE 0)],
                        !.drawable = [l \in Tables |->
                            l = scr \/ ui[v].drawable[l]],
                        !.refs = IF scr = "manage" THEN {} ELSE ui[v].refs]]
                /\ task' = [t \in Tasks |->
                        IF task[t].dev = v /\ task[t].vc = scr
                        THEN [task[t] EXCEPT !.vc = "gone"] ELSE task[t]]
                /\ UNCHANGED sent
           ELSE Trap(v)

Back(v) ==
    /\ ui[v].screen \in {"upload", "manage", "update"}
    /\ ui[v].alert = "none"
    /\ Pop(v)
    /\ UNCHANGED <<server, queue, storage, owner, deleted>>

(* The button of an alert: "Invalid Details" stays, the others pop.        *)
AlertOk(v) ==
    /\ \/ /\ ui[v].alert = "invalid"
          /\ ui' = [ui EXCEPT ![v].alert = "none"]
          /\ UNCHANGED <<task, sent>>
       \/ /\ ui[v].alert \in {"uploaded", "updated", "deleted"}
          /\ Pop(v)
    /\ UNCHANGED <<server, queue, storage, owner, deleted>>

(***************************************************************************)
(* The lists.  Both read the whole collection; manage keeps the postings   *)
(* whose User is the signed-in one.  Drawing a row (cellForRowAt) unwraps  *)
(* URL(string: Uimage)!, which is nil for the empty string that a missing  *)
(* Image reads as.  A list that is covered is not drawn until it is shown. *)
(***************************************************************************)

(* Mutant: the manage list forgets to compare User.                       *)
MutListedOfAll(v, list) == {d \in Docs : View(v)[d] # NoPosting}

Listed(v, list) ==
    {d \in Docs : /\ View(v)[d] # NoPosting
                  /\ list = "manage" => View(v)[d]["user"] = UserOf[v]}

Drawable(v, list) == \A d \in Listed(v, list) : View(v)[d]["image"] # Absent

Refs(v) == {View(v)[d]["ref"] : d \in Listed(v, "manage")}

loadFireBaseData(v, list) ==
    /\ ui[v].fetch[list] > 0
    /\ IF ui[v].screen = list /\ ~Drawable(v, list)
       THEN Trap(v)
       ELSE /\ ui' = [ui EXCEPT ![v] = [@ EXCEPT
                        !.fetch[list] = ui[v].fetch[list] - 1,
                        !.drawable[list] = Drawable(v, list),
                        !.refs = IF list = "manage" THEN Refs(v)
                                                    ELSE ui[v].refs]]
            /\ UNCHANGED <<task, sent>>
    /\ UNCHANGED <<server, queue, storage, owner, deleted>>

(* The error branch of any of the three getDocuments calls prints.         *)
LoadError(v, l) ==
    /\ "fetch" \in Faults
    /\ ui[v].fetch[l] > 0
    /\ ui' = [ui EXCEPT ![v].fetch[l] = @ - 1]
    /\ UNCHANGED <<server, queue, sent, storage, task, owner, deleted>>

(***************************************************************************)
(* The update screen fills itself from the documents whose Ref is DocPath; *)
(* it unwraps their Image and starts loading the photo.                    *)
(***************************************************************************)
Matching(v) ==
    {d \in Docs : /\ View(v)[d] # NoPosting
                  /\ View(v)[d]["ref"] = ui[v].docPath}

loadPosting(v) ==
    /\ ui[v].fetch["update"] > 0
    /\ IF \E d \in Matching(v) : View(v)[d]["image"] = Absent
       THEN Trap(v)
       ELSE /\ ui' = [ui EXCEPT ![v].fetch["update"] = @ - 1,
                                ![v].loading = @ \/ Matching(v) # {}]
            /\ UNCHANGED <<task, sent>>
    /\ UNCHANGED <<server, queue, storage, owner, deleted>>

(* loadFrom hands its completion the image, or nil if it got no data.      *)
ImageLoaded(v, ok) ==
    /\ ui[v].loading
    /\ ok \/ "load" \in Faults
    /\ ui' = [ui EXCEPT ![v].loading = FALSE, ![v].picture = ok]
    /\ UNCHANGED <<server, queue, sent, storage, task, owner, deleted>>

imageTapped(v) ==
    /\ Touchable(v, "upload") \/ Touchable(v, "update")
    /\ ui' = [ui EXCEPT ![v].alert = "picker"]
    /\ UNCHANGED <<server, queue, sent, storage, task, owner, deleted>>

imagePickerController(v, picked) ==
    /\ ui[v].alert = "picker"
    /\ ui' = [ui EXCEPT ![v].alert = "none", ![v].picture = @ \/ picked]
    /\ UNCHANGED <<server, queue, sent, storage, task, owner, deleted>>

(***************************************************************************)
(* uploadButton and updateButton: an empty field raises "Invalid Details". *)
(* Nothing keeps the user from tapping again while a chain is pending.     *)
(***************************************************************************)
InvalidDetails(v) ==
    /\ Touchable(v, "upload") \/ Touchable(v, "update")
    /\ ui' = [ui EXCEPT ![v].alert = "invalid"]
    /\ UNCHANGED <<server, queue, sent, storage, task, owner, deleted>>

(* Mutant: the id is not a fresh one.                                     *)
MutIdsReused(v, d, form, t) ==
    /\ Touchable(v, "upload")
    /\ task[t] = NoTask /\ Room(v)
    /\ Enqueue(v, Write("add", d, AddPatch(form, UserOf[v])))
    /\ task' = [task EXCEPT ![t] =
            [stage |-> "add", dev |-> v, doc |-> d, vc |-> "upload"]]
    /\ owner' = [owner EXCEPT ![d] = UserOf[v]]
    /\ UNCHANGED <<server, sent, storage, ui, deleted>>

uploadButton(v, d, form, t) ==
    /\ Touchable(v, "upload")
    /\ owner[d] = Absent /\ task[t] = NoTask /\ Room(v)
    /\ Enqueue(v, Write("add", d, AddPatch(form, UserOf[v])))
    /\ task' = [task EXCEPT ![t] =
            [stage |-> "add", dev |-> v, doc |-> d, vc |-> "upload"]]
    /\ owner' = [owner EXCEPT ![d] = UserOf[v]]
    /\ UNCHANGED <<server, sent, storage, ui, deleted>>

(* uploadImage starts putData unless the image has no JPEG form.           *)
uploadImage(t, next) ==
    \/ task' = [task EXCEPT ![t] = [next EXCEPT !.stage = "put"]]
    \/ "encode" \in Faults /\ task' = [task EXCEPT ![t] = NoTask]

(* Mutant: the Ref merge is forgotten.                                    *)
MutNoRefMerge(t) ==
    /\ task[t].stage = "acked"
    /\ uploadImage(t, task[t])
    /\ UNCHANGED <<server, queue, sent, storage, ui, owner, deleted>>

(* Mutant: uploadImage is not called.                                     *)
MutNoPhotoUpload(t) ==
    /\ task[t].stage = "acked"
    /\ task' = [task EXCEPT ![t] = NoTask]
    /\ Enqueue(task[t].dev,
               Write("ref", task[t].doc, Merge(Fields, "ref", task[t].doc)))
    /\ UNCHANGED <<server, sent, storage, ui, owner, deleted>>

(* The completion of addDocument: the photo's upload, then the Ref merge.  *)
AddCompleted(t) ==
    /\ task[t].stage = "acked"
    /\ uploadImage(t, task[t])
    /\ Enqueue(task[t].dev,
               Write("ref", task[t].doc, Merge(Fields, "ref", task[t].doc)))
    /\ UNCHANGED <<server, sent, storage, ui, owner, deleted>>

(* document("") is an assertion failure of the SDK; a nil image traps      *)
(* right after setData, whose write may or may not have reached the disk.  *)
updateButton(v, form, t) ==
    /\ Touchable(v, "update")
    /\ task[t] = NoTask /\ Room(v)
    /\ LET edit == Write("form", ui[v].docPath, Merge(Fields, "form", form))
           next == [stage |-> "put", dev |-> v, doc |-> ui[v].docPath,
                    vc |-> "update"]
       IN  \/ /\ ui[v].docPath = Absent
              /\ Trap(v)
              /\ UNCHANGED queue
           \/ /\ ui[v].docPath # Absent /\ ~ui[v].picture
              /\ Enqueue(v, edit) \/ UNCHANGED queue
              /\ Trap(v)
           \/ /\ ui[v].docPath # Absent /\ ui[v].picture
              /\ Enqueue(v, edit)
              /\ uploadImage(t, next)
              /\ UNCHANGED <<ui, sent>>
    /\ UNCHANGED <<server, storage, owner, deleted>>

(* deleteButton asks first.                                                *)
deleteButton(v) ==
    /\ Touchable(v, "update")
    /\ ui' = [ui EXCEPT ![v].alert = "confirm"]
    /\ UNCHANGED <<server, queue, sent, storage, task, owner, deleted>>

CancelDelete(v) ==
    /\ ui[v].alert = "confirm"
    /\ ui' = [ui EXCEPT ![v].alert = "none"]
    /\ UNCHANGED <<server, queue, sent, storage, task, owner, deleted>>

ConfirmDelete(v) ==
    /\ ui[v].alert = "confirm" /\ Room(v)
    /\ \/ /\ ui[v].docPath = Absent
          /\ Trap(v)
          /\ UNCHANGED <<queue, deleted>>
       \/ /\ ui[v].docPath # Absent
          /\ Enqueue(v, Write("delete", ui[v].docPath, Delete(Fields)))
          /\ deleted' = deleted \cup {ui[v].docPath}
          /\ ui' = [ui EXCEPT ![v].alert = "deleted"]
          /\ UNCHANGED <<task, sent>>
    /\ UNCHANGED <<server, storage, owner>>

(***************************************************************************)
(* Storage.  putData's completion asks for the download URL; on an error   *)
(* it does nothing.  downloadURL's completion unwraps the URL, merges the  *)
(* Image and presents an alert, which UIKit drops when the controller has  *)
(* left the screen or already presents something.                          *)
(***************************************************************************)
PutCompleted(t) ==
    /\ task[t].stage = "put"
    /\ storage' = storage \cup {task[t].doc}
    /\ task' = [task EXCEPT ![t].stage = "url"]
    /\ UNCHANGED <<server, queue, sent, ui, owner, deleted>>

(* Mutant: the error branch of putData falls through.                     *)
MutPutErrorIgnored(t) ==
    /\ "put" \in Faults
    /\ task[t].stage = "put"
    /\ task' = [task EXCEPT ![t].stage = "url"]
    /\ UNCHANGED <<server, queue, sent, storage, ui, owner, deleted>>

PutFailed(t) ==
    /\ "put" \in Faults
    /\ task[t].stage = "put"
    /\ task' = [task EXCEPT ![t] = NoTask]
    /\ UNCHANGED <<server, queue, sent, storage, ui, owner, deleted>>

SuccessAlert(vc) == IF vc = "upload" THEN "uploaded" ELSE "updated"

UrlCompleted(t) ==
    LET v == task[t].dev
        d == task[t].doc
    IN  /\ task[t].stage = "url"
        /\ Enqueue(v, Write("image", d, Merge(Fields, "image", d)))
        /\ ui' = IF Touchable(v, task[t].vc)
                 THEN [ui EXCEPT ![v].alert = SuccessAlert(task[t].vc)]
                 ELSE ui
        /\ task' = [task EXCEPT ![t] = NoTask]
        /\ UNCHANGED <<server, sent, storage, owner, deleted>>

UrlFailed(t) ==
    /\ "url" \in Faults
    /\ task[t].stage = "url"
    /\ Trap(task[t].dev)
    /\ UNCHANGED <<server, queue, storage, owner, deleted>>

(***************************************************************************)
(* The write stream sends the queued writes in order, without waiting for  *)
(* the acknowledgement of the ones before.  A stream that breaks, or an    *)
(* app that restarts, sends all of them again, the applied ones too.  A    *)
(* permanent error drops the oldest one.  Completions exist only in the    *)
(* process that issued the write.                                          *)
(***************************************************************************)

(* Mutant: the stream sends the newest write first.                       *)
MutNewestFirst(v) ==
    /\ Up(v) /\ sent[v] < Len(queue[v])
    /\ server' = Commit(server, queue[v][Len(queue[v]) - sent[v]])
    /\ sent' = [sent EXCEPT ![v] = @ + 1]
    /\ UNCHANGED <<queue, storage, task, ui, owner, deleted>>

WriteApplied(v) ==
    /\ Up(v) /\ sent[v] < Len(queue[v])
    /\ server' = Commit(server, queue[v][sent[v] + 1])
    /\ sent' = [sent EXCEPT ![v] = @ + 1]
    /\ UNCHANGED <<queue, storage, task, ui, owner, deleted>>

(* Mutant: a new stream takes what was queued for sent.                   *)
MutQueuedTakenForSent(v) ==
    /\ Up(v) /\ sent[v] > 0
    /\ sent' = [sent EXCEPT ![v] = Len(queue[v])]
    /\ UNCHANGED <<server, queue, storage, task, ui, owner, deleted>>

StreamBroken(v) ==
    /\ Up(v) /\ sent[v] > 0
    /\ sent' = [sent EXCEPT ![v] = 0]
    /\ UNCHANGED <<server, queue, storage, task, ui, owner, deleted>>

(* The task, if the process still has it, that waits for write w of v.     *)
Awaits(t, v, w) ==
    /\ w.kind = "add"
    /\ task[t].stage = "add" /\ task[t].dev = v /\ task[t].doc = w.doc

(* Mutant: a result leaves the pipeline position as it was.               *)
MutResultCountedTwice(v) ==
    /\ Up(v) /\ queue[v] # <<>> /\ sent[v] > 0
    /\ queue' = [queue EXCEPT ![v] = Tail(@)]
    /\ task' = [t \in Tasks |-> IF Awaits(t, v, Head(queue[v]))
                                THEN [task[t] EXCEPT !.stage = "acked"]
                                ELSE task[t]]
    /\ UNCHANGED <<server, sent, storage, ui, owner, deleted>>

(* Mutant: an answer of a stream that has broken is taken for a result.   *)
MutLateAnswerTaken(v) ==
    /\ Up(v) /\ queue[v] # <<>>
    /\ queue' = [queue EXCEPT ![v] = Tail(@)]
    /\ sent' = [sent EXCEPT ![v] = @ - 1]
    /\ task' = [t \in Tasks |-> IF Awaits(t, v, Head(queue[v]))
                                THEN [task[t] EXCEPT !.stage = "acked"]
                                ELSE task[t]]
    /\ UNCHANGED <<server, storage, ui, owner, deleted>>

WriteAcknowledged(v) ==
    /\ Up(v) /\ queue[v] # <<>> /\ sent[v] > 0
    /\ queue' = [queue EXCEPT ![v] = Tail(@)]
    /\ sent' = [sent EXCEPT ![v] = @ - 1]
    /\ task' = [t \in Tasks |-> IF Awaits(t, v, Head(queue[v]))
                                THEN [task[t] EXCEPT !.stage = "acked"]
                                ELSE task[t]]
    /\ UNCHANGED <<server, storage, ui, owner, deleted>>

(* Mutant: an error does not reach the completion.                        *)
MutErrorDropped(v) ==
    /\ Up(v) /\ sent[v] < Len(queue[v])
    /\ queue[v][sent[v] + 1].kind \in Rejectable
    /\ sent[v] = 0 \/ sent[v] + 1 < Len(queue[v])
    /\ queue' = [queue EXCEPT ![v] = Tail(@)]
    /\ sent' = [sent EXCEPT ![v] = 0]
    /\ UNCHANGED <<server, storage, task, ui, owner, deleted>>

(* The backend refuses the write after the ones it has applied and ends    *)
(* the stream.  The answers to these have been read by then, or they were  *)
(* dropped: a send that fails finishes the call before its reads.  The     *)
(* client takes the oldest write it still has for the refused one.         *)
WriteRejected(v) ==
    /\ Up(v) /\ sent[v] < Len(queue[v])
    /\ queue[v][sent[v] + 1].kind \in Rejectable
    /\ sent[v] = 0 \/ sent[v] + 1 < Len(queue[v])
    /\ queue' = [queue EXCEPT ![v] = Tail(@)]
    /\ sent' = [sent EXCEPT ![v] = 0]
    /\ task' = [t \in Tasks |-> IF Awaits(t, v, Head(queue[v]))
                                THEN NoTask ELSE task[t]]
    /\ UNCHANGED <<server, storage, ui, owner, deleted>>

(* The user or the system ends the app at any moment.                      *)
Kill(v) ==
    /\ "kill" \in Faults
    /\ Up(v)
    /\ Trap(v)
    /\ UNCHANGED <<server, queue, storage, owner, deleted>>

-----------------------------------------------------------------------------
Does(v, habit) == habit \in Habits[v]

UserStep(v) ==
    \/ Launch(v) \/ Back(v) \/ AlertOk(v) \/ CancelDelete(v)
    \/ Does(v, "tab") /\ SwitchTab(v)
    \/ Does(v, "mistype") /\ InvalidDetails(v)
    \/ Does(v, "pick") /\ imageTapped(v)
    \/ \E picked \in BOOLEAN : imagePickerController(v, picked)
    \/ Does(v, "upload") /\ OpenUpload(v)
    \/ \E d \in Docs, form \in Forms, t \in Tasks : uploadButton(v, d, form, t)
    \/ Does(v, "manage") /\ OpenManage(v)
    \/ Does(v, "select") /\ \E refNo \in ui[v].refs : SelectRow(v, refNo)
    \/ /\ Does(v, "edit")
       /\ \E form \in Forms, t \in Tasks : updateButton(v, form, t)
    \/ Does(v, "delete") /\ deleteButton(v)
    \/ ConfirmDelete(v)

ReadStep(v) ==
    \/ \E list \in Tables : loadFireBaseData(v, list)
    \/ loadPosting(v)
    \/ \E l \in Loads : LoadError(v, l)
    \/ \E ok \in BOOLEAN : ImageLoaded(v, ok)

StreamStep(v) ==
    \/ WriteApplied(v) \/ StreamBroken(v)
    \/ WriteAcknowledged(v) \/ WriteRejected(v)

TaskStep(t) ==
    \/ AddCompleted(t)
    \/ PutCompleted(t) \/ PutFailed(t)
    \/ UrlCompleted(t) \/ UrlFailed(t)

Next ==
    \/ \E v \in Devices :
          UserStep(v) \/ ReadStep(v) \/ StreamStep(v) \/ Kill(v)
    \/ \E t \in Tasks : TaskStep(t)

Spec == Init /\ [][Next]_vars
-----------------------------------------------------------------------------
(***************************************************************************)
(* Fairness.  The SDK calls every completion of a running process and the  *)
(* main queue runs it; a closed app is opened again some day.  The write   *)
(* stream retries for ever, but only while the app runs, so its progress   *)
(* is strong fairness: an app that is opened again and again is some time  *)
(* open long enough.  Users, faults and refusals are never assumed.        *)
(***************************************************************************)
Fairness ==
    /\ \A v \in Devices : /\ WF_vars(Launch(v))
                          /\ SF_vars(WriteApplied(v))
                          /\ SF_vars(WriteAcknowledged(v))
    /\ \A t \in Tasks : WF_vars(TaskStep(t))

FairSpec == Spec /\ Fairness

-----------------------------------------------------------------------------
(* Types: the shape of every variable in every reachable state.            *)
TypeOK ==
    /\ server \in [Docs -> Posting]
    /\ queue \in [Devices -> Seq(Writes)]
    /\ sent \in [Devices -> Nat]
    /\ storage \subseteq Docs
    /\ task \in [Tasks -> ActiveTasks \cup {NoTask}]
    /\ ui \in [Devices -> UIs]
    /\ owner \in [Docs -> Users \cup {Absent}]
    /\ deleted \subseteq Docs

(* A device writes only to postings its own user has created, and opens    *)
(* only those for editing: nothing but the comparison of User in the       *)
(* manage list and the Ref written at upload stands between the users.     *)
OwnPostingsOnly ==
    \A v \in Devices :
        /\ \A i \in DOMAIN queue[v] : owner[queue[v][i].doc] = UserOf[v]
        /\ ui[v].docPath # Absent => owner[ui[v].docPath] = UserOf[v]

(* A stored posting names its author or nobody, never somebody else: edits *)
(* and photos merged late, by whatever device, do not change hands.        *)
AuthorKept ==
    \A d \in Docs : server[d]["user"] \in {Absent, owner[d]}

(* A stored Image link always has its photo in Storage, through lost       *)
(* uploads, restarts and resent writes: the link is written after the put. *)
LinkHasPhoto ==
    \A d \in Docs : server[d]["image"] # Absent => d \in storage

(* On the update screen DocPath is never "" (document("") would end the    *)
(* app), and the cast of Image to String never fails for a posting nobody  *)
(* has deleted, as long as the backend refuses no Ref and no Image: a row  *)
(* that can be tapped has both.                                            *)
UpdateScreenSafe ==
    \A v \in Devices : ui[v].screen = "update" =>
        /\ ui[v].docPath # Absent
        /\ ui[v].fetch["update"] > 0 =>
              \A d \in Matching(v) \ deleted : View(v)[d]["image"] # Absent

(* A posting that has its Image has everything else, its Ref, its author   *)
(* and its form, until its deletion is confirmed, as long as the backend   *)
(* refuses no Ref: no refusal, restart or repeated write leaves a picture  *)
(* without its posting in the lists.                                       *)
Complete(d) == \A f \in Fields : server[d][f] # Absent

ShownComplete ==
    \A d \in Docs \ deleted : server[d]["image"] # Absent => Complete(d)

(* A pending chain waits for something that can still come: its process    *)
(* runs, and while it waits for addDocument, that write is queued on its   *)
(* own device, however many writes were refused for another one's sake.    *)
ChainsAwaited ==
    \A t \in Tasks : task[t] # NoTask =>
        LET v == task[t].dev
        IN  /\ Up(v)
            /\ task[t].stage = "add" => \E i \in DOMAIN queue[v] :
                  queue[v][i].kind = "add" /\ queue[v][i].doc = task[t].doc

(* The collection changes only by the steps of PostingBoard, as long as    *)
(* the backend refuses no Ref: the Image, an edit or a deletion reach a    *)
(* listed posting only after its Ref.                                      *)
Board == INSTANCE PostingBoard
            WITH board <- server, author <- owner, photos <- storage

ImplementsBoard == Board!BoardSpec

(* Whenever "Upload Sucessfull" or "Update Sucessful" is due, that is, the *)
(* Image merge is queued, the stored posting gets its Image in the end,    *)
(* even if the app dies first; unless the user deletes the posting.        *)
ImageQueued(d) ==
    \E v \in Devices : \E i \in DOMAIN queue[v] :
        queue[v][i].doc = d /\ queue[v][i].kind = "image"

AnnouncedLands ==
    \A d \in Docs : ImageQueued(d) ~> server[d]["image"] = d \/ d \in deleted

(* Until then it is never lost: once its Image is queued, a posting has it *)
(* stored or queued after every step, whatever restarts, resends and other *)
(* devices' writes do, as long as the backend refuses no Ref and no Image  *)
(* and no user confirms its deletion.  (A refused write is taken for the   *)
(* oldest one, which may be an Image that was applied.)                    *)
Promised(d) == server[d]["image"] = d \/ ImageQueued(d)

AnnouncedKept ==
    [][\A d \in Docs : Promised(d) => Promised(d)' \/ d \in deleted']_vars

(* A tap on Upload leads to a complete posting on the server, unless the   *)
(* app ends on the way or the user deletes the posting.                    *)
Uploading(v, d) ==
    \E t \in Tasks :
        task[t].stage = "add" /\ task[t].dev = v /\ task[t].doc = d

PublishedOrDied ==
    \A v \in Devices, d \in Docs :
        Uploading(v, d) ~> Complete(d) \/ ~Up(v) \/ d \in deleted

-----------------------------------------------------------------------------
(* What the app says of itself and does not keep.                          *)

(* deleteButton's alert: "This data will be no longer displayed."  Once a  *)
(* posting whose deletion was confirmed is gone, no photo that was still   *)
(* under way brings it back.                                               *)
DeletedStaysGone ==
    [][\A d \in deleted :
         server[d] = NoPosting => server'[d]["image"] = Absent]_vars

(* URL(string: ...Uimage)! asserts that every posting a list shows has an  *)
(* Image.                                                                  *)
ListsDrawable ==
    \A v \in Devices, list \in Tables :
        ui[v].screen = list /\ ui[v].fetch[list] > 0 => Drawable(v, list)

-----------------------------------------------------------------------------
(***************************************************************************)
(* The inductive invariant behind OwnPostingsOnly, AuthorKept,             *)
(* LinkHasPhoto and ImplementsBoard.                                       *)
(***************************************************************************)

(* Every stored field is the document's own.                               *)
FieldsOwn ==
    \A d \in Docs :
        /\ server[d]["user"] \in {Absent, owner[d]}
        /\ server[d]["ref"] \in {Absent, d}
        /\ server[d]["image"] \in {Absent, d}
        /\ server[d]["image"] # Absent => d \in storage
        /\ owner[d] = Absent => server[d] = NoPosting

(* A queued write has the patch of its kind, by the posting's owner; a     *)
(* queued Image has its photo.                                             *)
WriteOwn(v, w, own, photos) ==
    /\ own[w.doc] = UserOf[v]
    /\ w.kind = "add" =>
          \E form \in Forms : w.patch = AddPatch(form, UserOf[v])
    /\ w.kind = "ref" => w.patch = Merge(Fields, "ref", w.doc)
    /\ w.kind = "image" =>
          w.patch = Merge(Fields, "image", w.doc) /\ w.doc \in photos
    /\ w.kind = "form" =>
          \E form \in Forms : w.patch = Merge(Fields, "form", form)
    /\ w.kind = "delete" => w.patch = Delete(Fields)

QueuesOwn == \A v \in Devices : \A i \in DOMAIN queue[v] :
                WriteOwn(v, queue[v][i], owner, storage)

TasksOwn ==
    \A t \in Tasks : task[t] # NoTask =>
        /\ owner[task[t].doc] = UserOf[task[t].dev]
        /\ task[t].stage = "url" => task[t].doc \in storage

(* The posting ids a device's screens hold.                                *)
OnScreen(v) == (ui[v].refs \cup {ui[v].docPath}) \ {Absent}

ScreensOwn ==
    \A v \in Devices : \A d \in OnScreen(v) :
        d \in Docs /\ owner[d] = UserOf[v]

OwnInv == FieldsOwn /\ QueuesOwn /\ TasksOwn /\ ScreensOwn

(* As long as the add of a posting is queued, nobody knows its id.         *)
AddAlone ==
    \A v \in Devices : \A i \in DOMAIN queue[v] :
        LET w == queue[v][i]
        IN  w.kind = "add" =>
            /\ server[w.doc] \in {NoPosting, Apply(NoPosting, w.patch)}
            /\ \A u \in Devices : \A j \in DOMAIN queue[u] :
                  queue[u][j].doc = w.doc => u = v /\ j = i
            /\ \A t \in Tasks : task[t].doc = w.doc => task[t].stage = "add"
            /\ \A u \in Devices : w.doc \notin OnScreen(u)

(* The Ref of posting d is stored, or among the first n writes of device   *)
(* v, unless the posting is not listed under its user at all.              *)
RefBefore(v, d, n) ==
    \/ server[d]["user"] = Absent
    \/ server[d]["ref"] # Absent
    \/ \E i \in DOMAIN queue[v] :
          i <= n /\ queue[v][i].kind = "ref" /\ queue[v][i].doc = d

RefFirst ==
    /\ \A v \in Devices : \A i \in DOMAIN queue[v] :
          queue[v][i].kind \in {"image", "form", "delete"} =>
              RefBefore(v, queue[v][i].doc, i)
    /\ \A t \in Tasks : task[t].stage \in {"put", "url"} =>
          RefBefore(task[t].dev, task[t].doc, Len(queue[task[t].dev]))
    /\ \A v \in Devices : \A d \in OnScreen(v) :
          RefBefore(v, d, Len(queue[v]))

(* Only queued writes count as applied (the stream asserts that a result   *)
(* finds a write), and a Ref among them is stored.                         *)
SentApplied ==
    \A v \in Devices :
        /\ sent[v] <= Len(queue[v])
        /\ \A i \in 1..sent[v] :
              queue[v][i].kind = "ref" => RefBefore(v, queue[v][i].doc, 0)

OrderInv == AddAlone /\ RefFirst /\ SentApplied

(* What UpdateScreenSafe needs besides, as long as no Image is refused     *)
(* either: the posting d is complete on device v, or it has been deleted.  *)
Illustrated(v, d) ==
    \/ d \in deleted
    \/ server[d]["image"] # Absent
    \/ \E i \in DOMAIN queue[v] :
          queue[v][i].kind = "image" /\ queue[v][i].doc = d

(* Only confirmed deletions are queued; an Image that counts as applied is *)
(* stored, and never without a Ref.                                        *)
ImagesStored ==
    /\ \A v \in Devices : \A i \in DOMAIN queue[v] :
          queue[v][i].kind = "delete" => queue[v][i].doc \in deleted
    /\ \A v \in Devices : \A i \in 1..sent[v] :
          queue[v][i].kind = "image" =>
              \/ queue[v][i].doc \in deleted
              \/ server[queue[v][i].doc]["image"] # Absent
    /\ \A d \in Docs :
          server[d]["image"] # Absent =>
              server[d]["user"] = Absent \/ server[d]["ref"] # Absent

(* The rows and the posting that screens x of device v show can be opened. *)
Openable(v, x) ==
    /\ x.screen \notin {"manage", "update"} =>
          x.refs = {} /\ x.fetch["manage"] = 0
    /\ x.screen = "manage" => x.drawable["manage"]
    /\ x.drawable["manage"] => \A d \in x.refs : d # Absent /\ Illustrated(v, d)
    /\ x.screen = "update" => x.docPath # Absent /\ Illustrated(v, x.docPath)

RowsOpen == \A v \in Devices : Openable(v, ui[v])

PictureInv == ImagesStored /\ RowsOpen

(* What ShownComplete needs besides.  The posting d is stored with its     *)
(* author, unless its deletion has been confirmed.                         *)
Posted(d) == d \in deleted \/ server[d]["user"] # Absent

(* An author is stored with a form; and everything a device does to a      *)
(* posting comes after its addDocument has been applied: a stored Image,   *)
(* an add that counts as applied, any other write, a chain that goes on    *)
(* and a row or a DocPath are of a Posted one.                             *)
PostedInv ==
    /\ \A d \in Docs :
          /\ server[d]["user"] # Absent => server[d]["form"] # Absent
          /\ server[d]["image"] # Absent =>
                /\ Posted(d)
                /\ server[d]["user"] = Absent \/ server[d]["ref"] # Absent
    /\ \A v \in Devices : \A i \in DOMAIN queue[v] :
          /\ i <= sent[v] \/ queue[v][i].kind # "add" => Posted(queue[v][i].doc)
          /\ queue[v][i].kind = "delete" => queue[v][i].doc \in deleted
    /\ \A t \in Tasks :
          task[t].stage \in {"acked", "put", "url"} => Posted(task[t].doc)
    /\ \A v \in Devices : \A d \in OnScreen(v) : Posted(d)
=============================================================================
