--------------------------- MODULE PostingsProofs ---------------------------
(***************************************************************************)
(* Invariants of module Postings, for every number of devices, users,      *)
(* documents, forms and pending chains, and every choice of what users do  *)
(* and what fails.                                                         *)
(***************************************************************************)
EXTENDS Postings, FirestoreOpsProofs, TLAPS

-----------------------------------------------------------------------------
(* Types of the constants the actions build from.                          *)

LEMMA ClosedType == Closed \in UIs
  BY ConstantsAssumption DEF Closed, UIs, Screens, Alerts, Tables, Loads

LEMMA NoPostingType == NoPosting \in Posting
  BY DEF NoPosting, Missing, Posting

LEMMA WriteTypes ==
  ASSUME NEW d \in Docs, NEW form \in Forms, NEW u \in Users
  PROVE  /\ Write("add", d, AddPatch(form, u)) \in Writes
         /\ Write("ref", d, Merge(Fields, "ref", d)) \in Writes
         /\ Write("image", d, Merge(Fields, "image", d)) \in Writes
         /\ Write("form", d, Merge(Fields, "form", form)) \in Writes
         /\ Write("delete", d, Delete(Fields)) \in Writes
  <1>1. AddPatch(form, u) \in Patches
    BY DEF AddPatch, NoPosting, Missing, Fields, Values, Content, Patches
  <1>2. /\ Merge(Fields, "ref", d) \in Patches
        /\ Merge(Fields, "image", d) \in Patches
        /\ Merge(Fields, "form", form) \in Patches
    BY DEF Merge, Fields, Values, Content, Patches
  <1>3. Delete(Fields) \in Patches
    BY DEF Delete, Fields, Patches
  <1> QED
    BY <1>1, <1>2, <1>3 DEF Write, Writes, Kinds

(* The operations that several actions share keep the types.               *)

LEMMA EnqueueType ==
  ASSUME TypeOK, NEW v \in Devices, NEW w \in Writes, Enqueue(v, w)
  PROVE  queue' \in [Devices -> Seq(Writes)]
  BY DEF TypeOK, Enqueue

LEMMA CommitType ==
  ASSUME server \in [Docs -> Posting], NEW w \in Writes
  PROVE  Commit(server, w) \in [Docs -> Posting]
  <1>1. w.doc \in Docs /\ w.patch \in Patches /\ server[w.doc] \in Posting
    BY DEF Writes
  <1>2. Apply(server[w.doc], w.patch) \in Posting
    BY <1>1 DEF Apply, Posting, Patches
  <1> QED
    BY <1>1, <1>2 DEF Commit

LEMMA HeadTailType ==
  ASSUME TypeOK, NEW v \in Devices, queue[v] # <<>>
  PROVE  /\ Head(queue[v]) \in Writes
         /\ Tail(queue[v]) \in Seq(Writes)
  BY DEF TypeOK

LEMMA NextWriteType ==
  ASSUME TypeOK, NEW v \in Devices, WriteApplied(v)
  PROVE  /\ sent[v] + 1 \in DOMAIN queue[v]
         /\ queue[v][sent[v] + 1] \in Writes
  <1>1. queue[v] \in Seq(Writes) /\ sent[v] \in Nat
    BY DEF TypeOK
  <1>2. sent[v] < Len(queue[v])
    BY DEF WriteApplied
  <1>3. sent[v] + 1 \in 1..Len(queue[v])
    BY <1>1, <1>2
  <1> QED
    BY <1>1, <1>3

LEMMA TrapType ==
  ASSUME TypeOK, NEW v \in Devices, Trap(v)
  PROVE  /\ ui' \in [Devices -> UIs]
         /\ task' \in [Tasks -> ActiveTasks \cup {NoTask}]
         /\ sent' \in [Devices -> Nat]
  BY ClosedType DEF TypeOK, Trap

LEMMA PopType ==
  ASSUME TypeOK, NEW v \in Devices, Pop(v)
  PROVE  /\ ui' \in [Devices -> UIs]
         /\ task' \in [Tasks -> ActiveTasks \cup {NoTask}]
         /\ sent' \in [Devices -> Nat]
  <1> DEFINE list == Below(ui[v].screen)
  <1>1. CASE ~ui[v].drawable[list]
    BY <1>1, TrapType DEF Pop
  <1>2. CASE ui[v].drawable[list]
    <2>1. ui[v] \in UIs
      BY DEF TypeOK
    <2>2. list \in Tables
      BY DEF Below, Tables
    <2>3. sent' \in [Devices -> Nat]
      BY <1>2 DEF Pop, TypeOK
    <2>4. task' \in [Tasks -> ActiveTasks \cup {NoTask}]
      <3> SUFFICES ASSUME NEW t \in Tasks
                   PROVE  task'[t] \in ActiveTasks \cup {NoTask}
        BY <1>2 DEF Pop
      <3>1. task[t] \in ActiveTasks \cup {NoTask}
        BY DEF TypeOK
      <3> QED
        BY <1>2, <3>1 DEF Pop, ActiveTasks, NoTask
    <2>5. ui' \in [Devices -> UIs]
      <3> DEFINE nf == [l \in Loads |-> IF l = ui[v].screen THEN 0
                            ELSE ui[v].fetch[l] + (IF l = list THEN 1 ELSE 0)]
                 nd == [l \in Tables |-> l = ui[v].screen \/ ui[v].drawable[l]]
                 nr == IF ui[v].screen = "manage" THEN {} ELSE ui[v].refs
      <3>1. nf \in [Loads -> 0..MaxFetch]
        <4> SUFFICES ASSUME NEW l \in Loads PROVE nf[l] \in 0..MaxFetch
          OBVIOUS
        <4>1. ui[v].fetch[l] \in 0..MaxFetch
          BY <2>1 DEF UIs
        <4>2. ui[v].fetch[list] < MaxFetch
          BY DEF Pop
        <4> QED
          BY <4>1, <4>2, ConstantsAssumption
      <3>2. nr \in SUBSET (Docs \cup {Absent})
        BY <2>1 DEF UIs
      <3>3. nd \in [Tables -> BOOLEAN]
        BY <2>1 DEF UIs
      <3>4. ui' = [ui EXCEPT ![v] =
                [Closed EXCEPT !.screen = list, !.fetch = nf, !.drawable = nd,
                               !.refs = nr]]
        BY <1>2 DEF Pop
      <3> HIDE DEF nf, nd, nr
      <3>5. [Closed EXCEPT !.screen = list, !.fetch = nf, !.drawable = nd,
                           !.refs = nr] \in UIs
        BY <3>1, <3>2, <3>3, <2>2, ClosedType DEF UIs, Screens, Tables, Closed
      <3> QED
        BY <3>4, <3>5 DEF TypeOK
    <2> QED
      BY <2>3, <2>4, <2>5
  <1> QED
    BY <1>1, <1>2

(* One field of a screen's record at a time.                               *)
LEMMA AlertType ==
  ASSUME TypeOK, NEW v \in Devices, NEW a \in Alerts
  PROVE  [ui EXCEPT ![v].alert = a] \in [Devices -> UIs]
  <1>1. ui \in [Devices -> UIs] /\ ui[v] \in UIs
    BY DEF TypeOK
  <1>2. [ui[v] EXCEPT !.alert = a] \in UIs
    BY <1>1 DEF UIs
  <1> QED
    BY <1>1, <1>2

LEMMA FetchType ==
  ASSUME TypeOK, NEW v \in Devices, NEW l \in Loads, NEW n \in 0..MaxFetch
  PROVE  [ui EXCEPT ![v].fetch[l] = n] \in [Devices -> UIs]
  <1>1. ui \in [Devices -> UIs] /\ ui[v] \in UIs
    BY DEF TypeOK
  <1>2. [ui[v].fetch EXCEPT ![l] = n] \in [Loads -> 0..MaxFetch]
    BY <1>1 DEF UIs
  <1> DEFINE nf == [ui[v].fetch EXCEPT ![l] = n]
  <1>3. [ui[v] EXCEPT !.fetch = nf] \in UIs
    <2> HIDE DEF nf
    <2> QED BY <1>1, <1>2 DEF UIs, nf
  <1> QED
    BY <1>1, <1>3

(* What a device reads is a posting: a field is the stored one or that of  *)
(* a queued write.                                                         *)
LEMMA ViewSource ==
  ASSUME TypeOK, NEW v \in Devices, NEW d \in Docs, NEW f \in Fields
  PROVE  \/ View(v)[d][f] = server[d][f]
         \/ \E i \in DOMAIN queue[v] :
               /\ queue[v][i].doc = d
               /\ queue[v][i].patch[f] # Keep
               /\ View(v)[d][f] = queue[v][i].patch[f]
  <1> DEFINE q == queue[v]
  <1>1. q \in Seq(Writes)
    BY DEF TypeOK
  <1>2. View(v)[d][f] = FieldView(server, q, d, f)
    BY DEF View, LocalView, TypeOK, Posting
  <1>3. \/ FieldView(server, q, d, f) = server[d][f]
        \/ \E i \in DOMAIN q :
              /\ LastTouch(q, i, d, f)
              /\ FieldView(server, q, d, f) = q[i].patch[f]
    BY <1>1, FieldViewSource
  <1> QED
    BY <1>2, <1>3 DEF LastTouch, Touches

LEMMA ViewType ==
  ASSUME TypeOK, NEW v \in Devices, NEW d \in Docs, NEW f \in Fields
  PROVE  View(v)[d][f] \in Content(f) \cup {Absent}
  <1>1. server[d][f] \in Content(f) \cup {Absent}
    BY DEF TypeOK, Posting
  <1>2. \A i \in DOMAIN queue[v] :
           queue[v][i].patch[f] \in Content(f) \cup {Absent, Keep}
    <2> SUFFICES ASSUME NEW i \in DOMAIN queue[v]
                 PROVE  queue[v][i].patch \in Patches
      BY DEF Patches
    <2>1. queue[v] \in Seq(Writes)
      BY DEF TypeOK
    <2>2. queue[v][i] \in Writes
      BY <2>1
    <2> QED
      BY <2>2 DEF Writes
  <1> QED
    BY <1>1, <1>2, ViewSource
-----------------------------------------------------------------------------
(* Every step keeps the types.                                             *)

LEMMA TypeInit == Init => TypeOK
  <1> SUFFICES ASSUME Init PROVE TypeOK
    OBVIOUS
  <1>1. server \in [Docs -> Posting]
    BY NoPostingType DEF Init
  <1>2. queue \in [Devices -> Seq(Writes)]
    BY DEF Init
  <1>3. ui \in [Devices -> UIs]
    BY ClosedType DEF Init
  <1> QED
    BY <1>1, <1>2, <1>3 DEF Init, TypeOK

LEMMA UserTypes ==
  ASSUME TypeOK, NEW v \in Devices, UserStep(v)
  PROVE  TypeOK'
  <1>1. ui[v] \in UIs
    BY DEF TypeOK
  <1>a. FirstLoads \in 0..MaxFetch /\ (0 < MaxFetch => 1 \in 0..MaxFetch)
    BY ConstantsAssumption DEF FirstLoads
  <1>2. CASE Launch(v)
    BY <1>2, <1>a, ClosedType DEF Launch, TypeOK, UIs, Screens, Loads, Tables, Closed
  <1>3. CASE Back(v)
    BY <1>3, PopType DEF Back, TypeOK
  <1>4. CASE AlertOk(v)
    <2>1. CASE ui[v].alert = "invalid"
      <3>1. "none" \in Alerts /\ ui' = [ui EXCEPT ![v].alert = "none"]
            /\ UNCHANGED <<task, sent, server, queue, storage, owner, deleted>>
        BY <1>4, <2>1 DEF AlertOk, Alerts
      <3> QED
        BY <3>1, AlertType DEF TypeOK
    <2>2. CASE Pop(v)
      BY <1>4, <2>2, PopType DEF AlertOk, TypeOK
    <2> QED
      BY <1>4, <2>1, <2>2 DEF AlertOk
  <1>5. CASE \/ CancelDelete(v) \/ InvalidDetails(v) \/ imageTapped(v)
             \/ deleteButton(v)
    <2>1. PICK a \in Alerts : ui' = [ui EXCEPT ![v].alert = a]
      BY <1>5 DEF CancelDelete, InvalidDetails, imageTapped, deleteButton, Alerts
    <2>2. UNCHANGED <<server, queue, sent, storage, task, owner, deleted>>
      BY <1>5 DEF CancelDelete, InvalidDetails, imageTapped, deleteButton
    <2> QED
      BY <2>1, <2>2, AlertType DEF TypeOK
  <1>6. CASE SwitchTab(v)
    <2>1. /\ "market" \in Loads
          /\ ui[v].fetch["market"] + 1 \in 0..MaxFetch
      BY <1>1, <1>6, ConstantsAssumption DEF SwitchTab, UIs, Loads, Tables
    <2>2. ui' = [ui EXCEPT ![v].fetch["market"] = ui[v].fetch["market"] + 1]
      BY <1>6 DEF SwitchTab, TypeOK
    <2>3. ui' \in [Devices -> UIs]
      BY <2>1, <2>2, FetchType
    <2> QED
      BY <1>6, <2>3 DEF SwitchTab, TypeOK
  <1>7. CASE \E picked \in BOOLEAN : imagePickerController(v, picked)
    <2>1. PICK p \in BOOLEAN : imagePickerController(v, p)
      BY <1>7
    <2>2. (ui[v].picture \/ p) \in BOOLEAN /\ "none" \in Alerts
      BY DEF Alerts
    <2>3. [ui[v] EXCEPT !.alert = "none", !.picture = ui[v].picture \/ p] \in UIs
      BY <1>1, <2>2 DEF UIs
    <2>4. ui' = [ui EXCEPT ![v] = [ui[v] EXCEPT !.alert = "none",
                                      !.picture = ui[v].picture \/ p]]
      BY <2>1 DEF imagePickerController, TypeOK
    <2>5. ui' \in [Devices -> UIs]
      BY <2>3, <2>4 DEF TypeOK
    <2> QED
      BY <2>1, <2>5 DEF imagePickerController, TypeOK
  <1>8. CASE OpenUpload(v)
    BY <1>1, <1>8 DEF OpenUpload, TypeOK, UIs, Screens
  <1>9. ASSUME NEW d \in Docs, NEW form \in Forms, NEW t \in Tasks,
               uploadButton(v, d, form, t)
        PROVE  TypeOK'
    <2>1. queue' \in [Devices -> Seq(Writes)]
      BY <1>9, EnqueueType, WriteTypes, ConstantsAssumption DEF uploadButton
    <2> QED
      BY <1>9, <2>1, ConstantsAssumption DEF uploadButton, TypeOK, ActiveTasks
  <1>10. CASE OpenManage(v)
    <2> DEFINE nf == [ui[v].fetch EXCEPT !["manage"] = FirstLoads]
               nd == [ui[v].drawable EXCEPT !["manage"] = TRUE]
    <2>1. nf \in [Loads -> 0..MaxFetch] /\ nd \in [Tables -> BOOLEAN]
      BY <1>1, <1>a DEF UIs, Loads, Tables
    <2>2. [ui[v] EXCEPT !.screen = "manage", !.fetch = nf, !.drawable = nd,
                        !.refs = {}] \in UIs
      <3> HIDE DEF nf, nd
      <3> QED BY <1>1, <2>1 DEF UIs, Screens
    <2>3. ui' = [ui EXCEPT ![v] = [ui[v] EXCEPT
                    !.screen = "manage", !.fetch = nf, !.drawable = nd,
                    !.refs = {}]]
      BY <1>10 DEF OpenManage, TypeOK
    <2>4. ui' \in [Devices -> UIs]
      BY <2>2, <2>3 DEF TypeOK
    <2> QED
      BY <1>10, <2>4 DEF OpenManage, TypeOK
  <1>11. CASE \E refNo \in ui[v].refs : SelectRow(v, refNo)
    <2>1. PICK refNo \in ui[v].refs : SelectRow(v, refNo)
      BY <1>11
    <2> DEFINE nf == [ui[v].fetch EXCEPT !["update"] = 1]
    <2>2. nf \in [Loads -> 0..MaxFetch]
      BY <1>1, ConstantsAssumption DEF UIs, Loads
    <2>3. refNo \in Docs \cup {Absent}
      BY <1>1 DEF UIs
    <2>4. [ui[v] EXCEPT !.screen = "update", !.docPath = refNo, !.fetch = nf,
                        !.picture = TRUE, !.loading = FALSE] \in UIs
      <3> HIDE DEF nf
      <3> QED BY <1>1, <2>2, <2>3 DEF UIs, Screens
    <2>5. ui' = [ui EXCEPT ![v] = [ui[v] EXCEPT
                    !.screen = "update", !.docPath = refNo, !.fetch = nf,
                    !.picture = TRUE, !.loading = FALSE]]
      BY <2>1 DEF SelectRow, TypeOK
    <2>6. ui' \in [Devices -> UIs]
      BY <2>4, <2>5 DEF TypeOK
    <2> QED
      BY <2>1, <2>6 DEF SelectRow, TypeOK
  <1>12. ASSUME NEW form \in Forms, NEW t \in Tasks, updateButton(v, form, t)
         PROVE  TypeOK'
    <2> DEFINE edit == Write("form", ui[v].docPath, Merge(Fields, "form", form))
               next == [stage |-> "put", dev |-> v, doc |-> ui[v].docPath,
                        vc |-> "update"]
    <2>1. UNCHANGED <<server, storage, owner, deleted>>
      BY <1>12 DEF updateButton
    <2>2. ui[v].docPath # Absent => edit \in Writes
      BY <1>1, WriteTypes, ConstantsAssumption DEF UIs
    <2>3. CASE Trap(v) /\ UNCHANGED queue
      BY <2>1, <2>3, TrapType DEF TypeOK
    <2>4. CASE ui[v].docPath # Absent /\ Enqueue(v, edit) /\ Trap(v)
      <3> HIDE DEF edit
      <3> QED
        BY <2>1, <2>2, <2>4, TrapType, EnqueueType DEF TypeOK
    <2>5. CASE /\ ui[v].docPath # Absent /\ Enqueue(v, edit)
               /\ uploadImage(t, next) /\ UNCHANGED <<ui, sent>>
      <3>1. queue' \in [Devices -> Seq(Writes)]
        <4> HIDE DEF edit
        <4> QED
          BY <2>2, <2>5, EnqueueType
      <3>2. [next EXCEPT !.stage = "put"] \in ActiveTasks
        BY <1>1, <2>5 DEF UIs, ActiveTasks
      <3>3. task' \in [Tasks -> ActiveTasks \cup {NoTask}]
        BY <2>5, <3>2 DEF uploadImage, TypeOK
      <3> QED
        BY <2>1, <2>5, <3>1, <3>3 DEF TypeOK
    <2> QED
      BY <1>12, <2>3, <2>4, <2>5 DEF updateButton
  <1>13. CASE ConfirmDelete(v)
    <2> DEFINE del == Write("delete", ui[v].docPath, Delete(Fields))
    <2>1. CASE ui[v].docPath = Absent
      BY <1>13, <2>1, TrapType DEF ConfirmDelete, TypeOK
    <2>2. CASE ui[v].docPath # Absent
      <3>1. ui[v].docPath \in Docs
        BY <1>1, <2>2 DEF UIs
      <3>2. del \in Writes
        BY <3>1 DEF Write, Writes, Kinds, Delete, Patches, Fields
      <3>3. queue' \in [Devices -> Seq(Writes)]
        BY <1>13, <2>2, <3>2, EnqueueType DEF ConfirmDelete
      <3>4. ui' \in [Devices -> UIs]
        BY <1>13, <2>2, AlertType DEF ConfirmDelete, Alerts
      <3> QED
        BY <1>13, <2>2, <3>1, <3>3, <3>4 DEF ConfirmDelete, TypeOK
    <2> QED
      BY <2>1, <2>2
  <1> QED
    BY <1>2, <1>3, <1>4, <1>5, <1>6, <1>7, <1>8, <1>9, <1>10, <1>11, <1>12,
       <1>13 DEF UserStep

LEMMA ReadTypes ==
  ASSUME TypeOK, NEW v \in Devices, ReadStep(v)
  PROVE  TypeOK'
  <1>1. ui[v] \in UIs
    BY DEF TypeOK
  <1>2. ASSUME NEW list \in Tables, loadFireBaseData(v, list)
        PROVE  TypeOK'
    <2>1. CASE Trap(v)
      BY <1>2, <2>1, TrapType DEF loadFireBaseData, TypeOK
    <2>2. CASE ~(ui[v].screen = list /\ ~Drawable(v, list))
      <3> DEFINE nf == [ui[v].fetch EXCEPT ![list] = ui[v].fetch[list] - 1]
                 nd == [ui[v].drawable EXCEPT ![list] = Drawable(v, list)]
                 nr == IF list = "manage" THEN Refs(v) ELSE ui[v].refs
      <3>1. nf \in [Loads -> 0..MaxFetch]
        <4>1. ui[v].fetch \in [Loads -> 0..MaxFetch] /\ list \in Loads
          BY <1>1 DEF UIs, Loads
        <4>2. ui[v].fetch[list] - 1 \in 0..MaxFetch
          BY <4>1, <1>2, ConstantsAssumption DEF loadFireBaseData
        <4> QED
          BY <4>1, <4>2
      <3>2. nd \in [Tables -> BOOLEAN]
        BY <1>1 DEF UIs, Drawable
      <3>3. nr \in SUBSET (Docs \cup {Absent})
        <4>1. Refs(v) \subseteq Docs \cup {Absent}
          BY ViewType DEF Refs, Listed, Content, Fields
        <4> QED
          BY <1>1, <4>1 DEF UIs
      <3>4. [ui[v] EXCEPT !.fetch = nf, !.drawable = nd, !.refs = nr] \in UIs
        <4> HIDE DEF nf, nd, nr
        <4> QED BY <1>1, <3>1, <3>2, <3>3 DEF UIs
      <3>5. ui' = [ui EXCEPT ![v] =
                    [ui[v] EXCEPT !.fetch = nf, !.drawable = nd, !.refs = nr]]
        <4>1. ui' = [ui EXCEPT ![v] = [ui[v] EXCEPT
                        !.fetch[list] = ui[v].fetch[list] - 1,
                        !.drawable[list] = Drawable(v, list),
                        !.refs = IF list = "manage" THEN Refs(v)
                                                    ELSE ui[v].refs]]
          BY <1>1, <1>2, <2>2 DEF loadFireBaseData, Drawable, UIs
        <4>2. [ui[v] EXCEPT !.fetch[list] = ui[v].fetch[list] - 1,
                        !.drawable[list] = Drawable(v, list),
                        !.refs = IF list = "manage" THEN Refs(v)
                                                    ELSE ui[v].refs]
              = [ui[v] EXCEPT !.fetch = nf, !.drawable = nd, !.refs = nr]
          BY <1>1 DEF UIs
        <4> QED
          BY <4>1, <4>2
      <3>6. ui' \in [Devices -> UIs]
        BY <3>4, <3>5 DEF TypeOK
      <3> QED
        BY <1>2, <2>2, <3>6 DEF loadFireBaseData, TypeOK
    <2> QED
      BY <1>2, <2>1, <2>2 DEF loadFireBaseData
  <1>3. CASE loadPosting(v)
    <2>1. CASE Trap(v)
      BY <1>3, <2>1, TrapType DEF loadPosting, TypeOK
    <2>2. CASE ~(\E d \in Matching(v) : View(v)[d]["image"] = Absent)
      <3> DEFINE nf == [ui[v].fetch EXCEPT !["update"] =
                            ui[v].fetch["update"] - 1]
                 nl == ui[v].loading \/ Matching(v) # {}
      <3>1. nf \in [Loads -> 0..MaxFetch]
        BY <1>1, <1>3, ConstantsAssumption DEF UIs, Loads, loadPosting
      <3>2. nl \in BOOLEAN
        OBVIOUS
      <3>3. [ui[v] EXCEPT !.fetch = nf, !.loading = nl] \in UIs
        <4> HIDE DEF nf, nl
        <4> QED BY <1>1, <3>1, <3>2 DEF UIs
      <3>4. ui' = [ui EXCEPT ![v] =
                    [ui[v] EXCEPT !.fetch = nf, !.loading = nl]]
        BY <1>3, <2>2 DEF loadPosting, TypeOK
      <3>5. ui' \in [Devices -> UIs]
        BY <3>3, <3>4 DEF TypeOK
      <3> QED
        BY <1>3, <2>2, <3>5 DEF loadPosting, TypeOK
    <2> QED
      BY <1>3, <2>1, <2>2 DEF loadPosting
  <1>4. ASSUME NEW l \in Loads, LoadError(v, l)
        PROVE  TypeOK'
    <2>1. ui[v].fetch[l] - 1 \in 0..MaxFetch
      BY <1>1, <1>4, ConstantsAssumption DEF UIs, LoadError
    <2>2. ui' = [ui EXCEPT ![v].fetch[l] = ui[v].fetch[l] - 1]
      BY <1>4 DEF LoadError, TypeOK
    <2>3. ui' \in [Devices -> UIs]
      BY <2>1, <2>2, FetchType
    <2> QED
      BY <1>4, <2>3 DEF LoadError, TypeOK
  <1>5. ASSUME NEW ok \in BOOLEAN, ImageLoaded(v, ok)
        PROVE  TypeOK'
    <2>1. [ui[v] EXCEPT !.loading = FALSE, !.picture = ok] \in UIs
      BY <1>1 DEF UIs
    <2>2. ui' = [ui EXCEPT ![v] =
                    [ui[v] EXCEPT !.loading = FALSE, !.picture = ok]]
      BY <1>5 DEF ImageLoaded, TypeOK
    <2>3. ui' \in [Devices -> UIs]
      BY <2>1, <2>2 DEF TypeOK
    <2> QED
      BY <1>5, <2>3 DEF ImageLoaded, TypeOK
  <1> QED
    BY <1>2, <1>3, <1>4, <1>5 DEF ReadStep

LEMMA StreamTypes ==
  ASSUME TypeOK, NEW v \in Devices, StreamStep(v)
  PROVE  TypeOK'
  <1>1. CASE WriteApplied(v)
    <2>1. queue[v][sent[v] + 1] \in Writes
      BY <1>1, NextWriteType
    <2>2. server' \in [Docs -> Posting]
      BY <1>1, <2>1, CommitType DEF WriteApplied, TypeOK
    <2> QED
      BY <1>1, <2>2 DEF WriteApplied, TypeOK
  <1>2. CASE WriteAcknowledged(v) \/ WriteRejected(v)
    <2>0. queue[v] # <<>>
      BY <1>2 DEF WriteAcknowledged, WriteRejected, TypeOK
    <2>1. queue' \in [Devices -> Seq(Writes)]
      BY <1>2, <2>0, HeadTailType DEF WriteAcknowledged, WriteRejected, TypeOK
    <2>3. sent' \in [Devices -> Nat]
      <3>1. CASE WriteAcknowledged(v)
        <4>1. sent[v] - 1 \in Nat
          BY <3>1 DEF WriteAcknowledged, TypeOK
        <4> QED
          BY <3>1, <4>1 DEF WriteAcknowledged, TypeOK
      <3>2. CASE WriteRejected(v)
        BY <3>2 DEF WriteRejected, TypeOK
      <3> QED
        BY <1>2, <3>1, <3>2
    <2>2. task' \in [Tasks -> ActiveTasks \cup {NoTask}]
      <3> SUFFICES ASSUME NEW t \in Tasks
                   PROVE  task'[t] \in ActiveTasks \cup {NoTask}
        BY <1>2 DEF WriteAcknowledged, WriteRejected
      <3>1. task[t] \in ActiveTasks \cup {NoTask}
        BY DEF TypeOK
      <3>2. task[t].stage = "add" =>
               [task[t] EXCEPT !.stage = "acked"] \in ActiveTasks
        BY <3>1 DEF ActiveTasks, NoTask
      <3> QED
        BY <1>2, <3>1, <3>2 DEF WriteAcknowledged, WriteRejected, Awaits
    <2> QED
      BY <1>2, <2>1, <2>2, <2>3 DEF WriteAcknowledged, WriteRejected, TypeOK
  <1>3. CASE StreamBroken(v)
    BY <1>3 DEF StreamBroken, TypeOK
  <1> QED
    BY <1>1, <1>2, <1>3 DEF StreamStep

LEMMA TaskTypes ==
  ASSUME TypeOK, NEW t \in Tasks, TaskStep(t)
  PROVE  TypeOK'
  <1>1. task[t] \in ActiveTasks
    BY DEF TypeOK, TaskStep, AddCompleted, PutCompleted, PutFailed,
           UrlCompleted, UrlFailed, NoTask
  <1>2. task[t].dev \in Devices /\ task[t].doc \in Docs
    BY <1>1 DEF ActiveTasks
  <1>3. /\ Write("ref", task[t].doc, Merge(Fields, "ref", task[t].doc)) \in Writes
        /\ Write("image", task[t].doc, Merge(Fields, "image", task[t].doc)) \in Writes
    BY <1>2 DEF Write, Writes, Kinds, Merge, Patches, Fields, Values, Content
  <1>4. CASE AddCompleted(t)
    <2>1. queue' \in [Devices -> Seq(Writes)]
      BY <1>2, <1>3, <1>4, EnqueueType DEF AddCompleted
    <2>2. [task[t] EXCEPT !.stage = "put"] \in ActiveTasks
      BY <1>1 DEF ActiveTasks
    <2>3. task' \in [Tasks -> ActiveTasks \cup {NoTask}]
      BY <1>4, <2>2 DEF AddCompleted, uploadImage, TypeOK
    <2> QED
      BY <1>4, <2>1, <2>3 DEF AddCompleted, TypeOK
  <1>5. CASE PutCompleted(t)
    <2>1. [task[t] EXCEPT !.stage = "url"] \in ActiveTasks
      BY <1>1 DEF ActiveTasks
    <2>2. task' \in [Tasks -> ActiveTasks \cup {NoTask}]
      BY <1>5, <2>1 DEF PutCompleted, TypeOK
    <2> QED
      BY <1>2, <1>5, <2>2 DEF PutCompleted, TypeOK
  <1>6. CASE PutFailed(t)
    BY <1>6 DEF PutFailed, TypeOK
  <1>7. CASE UrlCompleted(t)
    <2>1. queue' \in [Devices -> Seq(Writes)]
      BY <1>2, <1>3, <1>7, EnqueueType DEF UrlCompleted
    <2>2. SuccessAlert(task[t].vc) \in Alerts
      BY DEF SuccessAlert, Alerts
    <2>3. ui' \in [Devices -> UIs]
      BY <1>2, <1>7, <2>2, AlertType DEF UrlCompleted, TypeOK
    <2> QED
      BY <1>7, <2>1, <2>3 DEF UrlCompleted, TypeOK
  <1>8. CASE UrlFailed(t)
    BY <1>2, <1>8, TrapType DEF UrlFailed, TypeOK
  <1> QED
    BY <1>4, <1>5, <1>6, <1>7, <1>8 DEF TaskStep

LEMMA TypeStep == TypeOK /\ [Next]_vars => TypeOK'
  <1> SUFFICES ASSUME TypeOK, [Next]_vars PROVE TypeOK'
    OBVIOUS
  <1>1. ASSUME NEW v \in Devices, Kill(v) PROVE TypeOK'
    BY <1>1, TrapType DEF Kill, TypeOK
  <1>2. CASE UNCHANGED vars
    BY <1>2 DEF vars, TypeOK
  <1> QED
    BY <1>1, <1>2, UserTypes, ReadTypes, StreamTypes, TaskTypes DEF Next

(* Every reachable state has the types of TypeOK, whatever the constants.  *)
THEOREM TypeCorrect == Spec => []TypeOK
  BY TypeInit, TypeStep, PTL DEF Spec

-----------------------------------------------------------------------------
(***************************************************************************)
(* OwnInv is an invariant of module Postings, and with it the three        *)
(* properties that follow from it.  The argument: what a device writes is  *)
(* about an id its own tap drew, or about an id it found in the Ref of a   *)
(* posting that names its user; both are the user's, and stay so, because  *)
(* an id is drawn once and a photo is never taken away.                    *)
(***************************************************************************)

(* The two things every step of the system leaves alone or adds to.        *)
Grows ==
    /\ storage \subseteq storage'
    /\ \A d \in Docs : owner[d] # Absent => owner'[d] = owner[d]

LEMMA AddPatchFields ==
  ASSUME NEW form, NEW u
  PROVE  /\ AddPatch(form, u) \in [Fields -> {form, u, Absent}]
         /\ AddPatch(form, u)["form"] = form
         /\ AddPatch(form, u)["user"] = u
         /\ AddPatch(form, u)["ref"] = Absent
         /\ AddPatch(form, u)["image"] = Absent
  BY DEF AddPatch, NoPosting, Missing, Fields

LEMMA MergeFields ==
  ASSUME NEW f \in Fields, NEW x, NEW g \in Fields
  PROVE  Merge(Fields, f, x)[g] = IF g = f THEN x ELSE Keep
  BY DEF Merge

LEMMA DeleteFields ==
  ASSUME NEW g \in Fields
  PROVE  Delete(Fields)[g] = Absent
  BY DEF Delete

LEMMA UserReal == \A v \in Devices : UserOf[v] \in Users /\ UserOf[v] # Absent
  BY ConstantsAssumption

LEMMA StillGrows == UNCHANGED <<storage, owner>> => Grows
  BY DEF Grows

(* Each part of OwnInv is kept by what leaves its variables alone.         *)
LEMMA FieldsKept ==
  ASSUME TypeOK, FieldsOwn, Grows, UNCHANGED server
  PROVE  FieldsOwn'
  <1> SUFFICES ASSUME NEW d \in Docs
               PROVE  /\ server[d]["user"] \in {Absent, owner'[d]}
                      /\ server[d]["ref"] \in {Absent, d}
                      /\ server[d]["image"] \in {Absent, d}
                      /\ server[d]["image"] # Absent => d \in storage'
                      /\ owner'[d] = Absent => server[d] = NoPosting
    BY DEF FieldsOwn
  <1>1. /\ server[d]["user"] \in {Absent, owner[d]}
        /\ server[d]["ref"] \in {Absent, d}
        /\ server[d]["image"] \in {Absent, d}
        /\ server[d]["image"] # Absent => d \in storage
        /\ owner[d] = Absent => server[d] = NoPosting
    BY DEF FieldsOwn
  <1>2. storage \subseteq storage' /\ (owner[d] # Absent => owner'[d] = owner[d])
    BY DEF Grows
  <1>3. server[d] = NoPosting => server[d]["user"] = Absent
    BY DEF NoPosting, Missing, Fields
  <1> QED
    BY <1>1, <1>2, <1>3

LEMMA WriteKept ==
  ASSUME Grows, NEW v \in Devices, NEW w \in Writes,
         WriteOwn(v, w, owner, storage)
  PROVE  WriteOwn(v, w, owner', storage')
  <1>1. w.doc \in Docs
    BY DEF Writes
  <1>2. owner[w.doc] = UserOf[v] /\ UserOf[v] # Absent
    BY UserReal DEF WriteOwn
  <1>3. owner'[w.doc] = UserOf[v] /\ storage \subseteq storage'
    BY <1>1, <1>2 DEF Grows
  <1> QED
    BY <1>3 DEF WriteOwn

LEMMA QueuesKept ==
  ASSUME TypeOK, QueuesOwn, Grows,
         \A v \in Devices : \A i \in DOMAIN queue'[v] :
            \/ \E j \in DOMAIN queue[v] : queue'[v][i] = queue[v][j]
            \/ WriteOwn(v, queue'[v][i], owner', storage')
  PROVE  QueuesOwn'
  <1> SUFFICES ASSUME NEW v \in Devices, NEW i \in DOMAIN queue'[v],
                      NEW j \in DOMAIN queue[v], queue'[v][i] = queue[v][j]
               PROVE  WriteOwn(v, queue'[v][i], owner', storage')
    BY DEF QueuesOwn
  <1>1. queue[v] \in Seq(Writes)
    BY DEF TypeOK
  <1>2. queue[v][j] \in Writes
    BY <1>1
  <1>3. WriteOwn(v, queue[v][j], owner, storage)
    BY DEF QueuesOwn
  <1> QED
    BY <1>2, <1>3, WriteKept

LEMMA SameQueues ==
  ASSUME TypeOK, QueuesOwn, Grows, UNCHANGED queue
  PROVE  QueuesOwn'
  BY QueuesKept

LEMMA LongerQueue ==
  ASSUME TypeOK, QueuesOwn, Grows, NEW u \in Devices, NEW w,
         Enqueue(u, w), WriteOwn(u, w, owner', storage')
  PROVE  QueuesOwn'
  <1> SUFFICES ASSUME NEW v \in Devices, NEW i \in DOMAIN queue'[v]
               PROVE  \/ \E j \in DOMAIN queue[v] : queue'[v][i] = queue[v][j]
                      \/ WriteOwn(v, queue'[v][i], owner', storage')
    BY QueuesKept
  <1>1. queue \in [Devices -> Seq(Writes)] /\ queue[u] \in Seq(Writes)
    BY DEF TypeOK
  <1>2. CASE v # u
    BY <1>1, <1>2 DEF Enqueue
  <1>3. CASE v = u
    <2>1. queue'[v] = Append(queue[v], w)
      BY <1>1, <1>3 DEF Enqueue
    <2>2. i \in 1..(Len(queue[v]) + 1)
      BY <1>1, <1>3, <2>1
    <2>3. CASE i \in 1..Len(queue[v])
      BY <1>1, <1>3, <2>1, <2>3
    <2>4. CASE i = Len(queue[v]) + 1
      BY <1>1, <1>3, <2>1, <2>4
    <2> QED
      BY <1>1, <1>3, <2>2, <2>3, <2>4
  <1> QED
    BY <1>2, <1>3

LEMMA ShorterQueue ==
  ASSUME TypeOK, QueuesOwn, Grows, NEW u \in Devices, queue[u] # <<>>,
         queue' = [queue EXCEPT ![u] = Tail(@)]
  PROVE  QueuesOwn'
  <1> SUFFICES ASSUME NEW v \in Devices, NEW i \in DOMAIN queue'[v]
               PROVE  \E j \in DOMAIN queue[v] : queue'[v][i] = queue[v][j]
    BY QueuesKept
  <1>1. queue \in [Devices -> Seq(Writes)] /\ queue[u] \in Seq(Writes)
    BY DEF TypeOK
  <1>2. CASE v # u
    BY <1>1, <1>2
  <1>3. CASE v = u
    <2>1. queue'[v] = Tail(queue[v])
      BY <1>1, <1>3
    <2>2. i + 1 \in DOMAIN queue[v] /\ queue'[v][i] = queue[v][i + 1]
      BY <1>1, <1>3, <2>1
    <2> QED
      BY <2>2
  <1> QED
    BY <1>2, <1>3

LEMMA TasksKept ==
  ASSUME TypeOK, TasksOwn, Grows,
         \A t \in Tasks : task'[t] # NoTask =>
            \/ /\ task[t] # NoTask
               /\ task'[t].doc = task[t].doc /\ task'[t].dev = task[t].dev
               /\ task'[t].stage = "url" => task[t].stage = "url"
            \/ /\ owner'[task'[t].doc] = UserOf[task'[t].dev]
               /\ task'[t].stage = "url" => task'[t].doc \in storage'
  PROVE  TasksOwn'
  <1> SUFFICES ASSUME NEW t \in Tasks, task'[t] # NoTask, task[t] # NoTask,
                      task'[t].doc = task[t].doc, task'[t].dev = task[t].dev,
                      task'[t].stage = "url" => task[t].stage = "url"
               PROVE  /\ owner'[task'[t].doc] = UserOf[task'[t].dev]
                      /\ task'[t].stage = "url" => task'[t].doc \in storage'
    BY DEF TasksOwn
  <1>1. task[t].doc \in Docs /\ task[t].dev \in Devices
    BY DEF TypeOK, ActiveTasks
  <1>2. /\ owner[task[t].doc] = UserOf[task[t].dev]
        /\ task[t].stage = "url" => task[t].doc \in storage
    BY DEF TasksOwn
  <1>3. UserOf[task[t].dev] # Absent
    BY <1>1, UserReal
  <1> QED
    BY <1>1, <1>2, <1>3 DEF Grows

LEMMA ScreensKept ==
  ASSUME ScreensOwn, Grows,
         \A v \in Devices : \A d \in OnScreen(v)' :
            d \in OnScreen(v) \/ (d \in Docs /\ owner'[d] = UserOf[v])
  PROVE  ScreensOwn'
  <1> SUFFICES ASSUME NEW v \in Devices, NEW d \in OnScreen(v)'
               PROVE  d \in Docs /\ owner'[d] = UserOf[v]
    BY DEF ScreensOwn
  <1>1. CASE d \in OnScreen(v)
    BY <1>1, UserReal DEF ScreensOwn, Grows
  <1> QED
    BY <1>1

(* The app's end forgets the chains and the screens of the device.         *)
LEMMA TrapOwn ==
  ASSUME TypeOK, TasksOwn, ScreensOwn, Grows, NEW v \in Devices, Trap(v)
  PROVE  TasksOwn' /\ ScreensOwn'
  <1>1. TasksOwn'
    <2> SUFFICES ASSUME NEW t \in Tasks, task'[t] # NoTask
                 PROVE  task'[t] = task[t]
      BY TasksKept
    <2> QED
      BY DEF Trap
  <1>2. ScreensOwn'
    <2> SUFFICES ASSUME NEW u \in Devices, NEW d \in OnScreen(u)'
                 PROVE  d \in OnScreen(u)
      BY ScreensKept
    <2>1. CASE u = v
      BY <2>1 DEF Trap, OnScreen, Closed, TypeOK
    <2>2. CASE u # v
      BY <2>2 DEF Trap, OnScreen, TypeOK
    <2> QED
      BY <2>1, <2>2
  <1> QED
    BY <1>1, <1>2

(* Popping a screen keeps the chains' ids and only forgets Refs.           *)
LEMMA PopOwn ==
  ASSUME TypeOK, TasksOwn, ScreensOwn, Grows, NEW v \in Devices, Pop(v)
  PROVE  TasksOwn' /\ ScreensOwn'
  <1> DEFINE list == Below(ui[v].screen)
  <1>1. CASE ~ui[v].drawable[list]
    BY <1>1, TrapOwn DEF Pop
  <1>2. CASE ui[v].drawable[list]
    <2>1. TasksOwn'
      <3> SUFFICES ASSUME NEW t \in Tasks, task'[t] # NoTask
                   PROVE  /\ task[t] # NoTask
                          /\ task'[t].doc = task[t].doc
                          /\ task'[t].dev = task[t].dev
                          /\ task'[t].stage = task[t].stage
        BY TasksKept
      <3>1. task[t] \in ActiveTasks \cup {NoTask}
        BY DEF TypeOK
      <3>2. NoTask.dev # v
        BY ConstantsAssumption DEF NoTask
      <3> QED
        BY <1>2, <3>1, <3>2 DEF Pop, ActiveTasks
    <2>2. ScreensOwn'
      <3> SUFFICES ASSUME NEW u \in Devices, NEW d \in OnScreen(u)'
                   PROVE  d \in OnScreen(u)
        BY ScreensKept
      <3>1. CASE u = v
        <4>1. /\ ui'[v].docPath = Absent
              /\ ui'[v].refs = IF ui[v].screen = "manage" THEN {} ELSE ui[v].refs
          <5> DEFINE nf == [l \in Loads |-> IF l = ui[v].screen THEN 0
                            ELSE ui[v].fetch[l] + (IF l = list THEN 1 ELSE 0)]
                     nd == [l \in Tables |->
                               l = ui[v].screen \/ ui[v].drawable[l]]
                     nr == IF ui[v].screen = "manage" THEN {} ELSE ui[v].refs
          <5>1. ui' = [ui EXCEPT ![v] =
                    [Closed EXCEPT !.screen = list, !.fetch = nf,
                                   !.drawable = nd, !.refs = nr]]
            BY <1>2 DEF Pop
          <5>2. ui'[v] =
                    [Closed EXCEPT !.screen = list, !.fetch = nf,
                                   !.drawable = nd, !.refs = nr]
            BY <5>1 DEF TypeOK
          <5> HIDE DEF nf, nd, nr, list
          <5>3. ui'[v].docPath = Absent /\ ui'[v].refs = nr
            BY <5>2 DEF Closed
          <5> QED
            BY <5>3 DEF nr
        <4> QED
          BY <3>1, <4>1 DEF OnScreen
      <3>2. CASE u # v
        BY <1>2, <3>2 DEF Pop, OnScreen, TypeOK
      <3> QED
        BY <3>1, <3>2
    <2> QED
      BY <2>1, <2>2
  <1> QED
    BY <1>1, <1>2

(* A step of the screens alone that shows no new id.                       *)
LEMMA ScreenStepOwn ==
  ASSUME TypeOK, OwnInv,
         UNCHANGED <<server, queue, storage, task, owner>>,
         \A v \in Devices : OnScreen(v)' \subseteq OnScreen(v)
  PROVE  OwnInv'
  <1>1. Grows
    BY StillGrows
  <1>2. FieldsOwn' /\ QueuesOwn'
    BY <1>1, FieldsKept, SameQueues DEF OwnInv
  <1>3. TasksOwn'
    BY <1>1, TasksKept DEF OwnInv
  <1>4. ScreensOwn'
    BY <1>1, ScreensKept DEF OwnInv
  <1> QED
    BY <1>2, <1>3, <1>4 DEF OwnInv

LEMMA TrapStepOwn ==
  ASSUME TypeOK, OwnInv, NEW v \in Devices, Trap(v) \/ Pop(v),
         UNCHANGED <<server, queue, storage, owner>>
  PROVE  OwnInv'
  <1>1. Grows
    BY StillGrows
  <1>2. FieldsOwn' /\ QueuesOwn'
    BY <1>1, FieldsKept, SameQueues DEF OwnInv
  <1> QED
    BY <1>1, <1>2, TrapOwn, PopOwn DEF OwnInv

(* What a queued write puts into a posting is the posting's own.           *)
LEMMA PatchOwn ==
  ASSUME NEW v \in Devices, NEW w \in Writes, WriteOwn(v, w, owner, storage)
  PROVE  /\ w.patch["user"] \in {Absent, Keep, owner[w.doc]}
         /\ w.patch["ref"] \in {Absent, Keep, w.doc}
         /\ w.patch["image"] \in {Absent, Keep, w.doc}
         /\ w.patch["image"] = w.doc => w.doc \in storage
  <1>1. w.kind \in Kinds /\ w.doc # Absent /\ w.doc # Keep
    BY ConstantsAssumption DEF Writes
  <1>2. {"user", "ref", "image", "form"} \subseteq Fields
    BY DEF Fields
  <1>3. CASE w.kind = "add"
    <2>1. PICK form \in Forms : w.patch = AddPatch(form, UserOf[v])
      BY <1>3 DEF WriteOwn
    <2>2. owner[w.doc] = UserOf[v]
      BY DEF WriteOwn
    <2> QED
      BY <1>1, <2>1, <2>2, AddPatchFields
  <1>4. CASE w.kind \in {"ref", "image", "form"}
    <2>0. PICK f \in {"ref", "image", "form"} : \E x :
             /\ w.patch = Merge(Fields, f, x)
             /\ f \in {"ref", "image"} => x = w.doc
             /\ f = "image" => w.doc \in storage
      BY <1>4 DEF WriteOwn
    <2>1. PICK x :
             /\ w.patch = Merge(Fields, f, x)
             /\ f \in {"ref", "image"} => x = w.doc
             /\ f = "image" => w.doc \in storage
      BY <2>0
    <2>2. w.patch["user"] = Keep
      BY <1>2, <2>1, MergeFields
    <2>3. w.patch["ref"] \in {Keep, w.doc}
      BY <1>2, <2>1, MergeFields
    <2>4. \/ w.patch["image"] = Keep
          \/ w.patch["image"] = w.doc /\ w.doc \in storage
      BY <1>2, <2>1, MergeFields
    <2> QED
      BY <1>1, <2>2, <2>3, <2>4
  <1>5. CASE w.kind = "delete"
    <2>1. w.patch = Delete(Fields)
      BY <1>5 DEF WriteOwn
    <2> QED
      BY <1>1, <1>2, <2>1, DeleteFields
  <1> QED
    BY <1>1, <1>3, <1>4, <1>5 DEF Kinds

LEMMA QueuedOwn ==
  ASSUME TypeOK, QueuesOwn, NEW v \in Devices, NEW i \in DOMAIN queue[v]
  PROVE  queue[v][i] \in Writes /\ WriteOwn(v, queue[v][i], owner, storage)
  <1>1. queue[v] \in Seq(Writes)
    BY DEF TypeOK
  <1> QED
    BY <1>1 DEF QueuesOwn

(* What a device reads of a posting is the posting's own, whatever it has  *)
(* queued.                                                                 *)
LEMMA ViewOwn ==
  ASSUME TypeOK, OwnInv, NEW v \in Devices, NEW d \in Docs
  PROVE  /\ View(v)[d]["user"] \in {Absent, owner[d]}
         /\ View(v)[d]["ref"] \in {Absent, d}
  <1>1. \A i \in DOMAIN queue[v] : queue[v][i].doc = d =>
           /\ queue[v][i].patch["user"] \in {Absent, Keep, owner[d]}
           /\ queue[v][i].patch["ref"] \in {Absent, Keep, d}
    BY QueuedOwn, PatchOwn DEF OwnInv
  <1>2. /\ server[d]["user"] \in {Absent, owner[d]}
        /\ server[d]["ref"] \in {Absent, d}
    BY DEF OwnInv, FieldsOwn
  <1>3. "user" \in Fields /\ "ref" \in Fields
    BY DEF Fields
  <1>4. View(v)[d]["user"] \in {Absent, owner[d]}
    BY <1>1, <1>2, <1>3, ViewSource
  <1>5. View(v)[d]["ref"] \in {Absent, d}
    BY <1>1, <1>2, <1>3, ViewSource
  <1> QED
    BY <1>4, <1>5

(* So the manage list shows only Refs of the user's own postings.          *)
LEMMA RefsOwn ==
  ASSUME TypeOK, OwnInv, NEW v \in Devices, NEW d \in Refs(v), d # Absent
  PROVE  d \in Docs /\ owner[d] = UserOf[v]
  <1>1. PICK e \in Docs : /\ View(v)[e]["user"] = UserOf[v]
                          /\ d = View(v)[e]["ref"]
    BY DEF Refs, Listed
  <1> QED
    BY <1>1, ViewOwn, UserReal
-----------------------------------------------------------------------------
(* Every step keeps OwnInv.                                                *)

LEMMA AppliedOwn ==
  ASSUME TypeOK, FieldsOwn, NEW v \in Devices, NEW w \in Writes,
         WriteOwn(v, w, owner, storage), server' = Commit(server, w),
         UNCHANGED <<storage, owner>>
  PROVE  FieldsOwn'
  <1> DEFINE d == w.doc
             new == Apply(server[d], w.patch)
  <1>1. d \in Docs /\ server \in [Docs -> Posting] /\ server[d] \in Posting
    BY DEF Writes, TypeOK
  <1>2. server' = [server EXCEPT ![d] = new]
    BY DEF Commit
  <1>3. \A f \in Fields :
           new[f] = IF w.patch[f] = Keep THEN server[d][f] ELSE w.patch[f]
    BY <1>1 DEF Apply, Posting
  <1>4. {"user", "ref", "image"} \subseteq Fields
    BY DEF Fields
  <1>5. /\ server[d]["user"] \in {Absent, owner[d]}
        /\ server[d]["ref"] \in {Absent, d}
        /\ server[d]["image"] \in {Absent, d}
        /\ server[d]["image"] # Absent => d \in storage
    BY <1>1 DEF FieldsOwn
  <1>6. /\ w.patch["user"] \in {Absent, Keep, owner[d]}
        /\ w.patch["ref"] \in {Absent, Keep, d}
        /\ w.patch["image"] \in {Absent, Keep, d}
        /\ w.patch["image"] = d => d \in storage
    BY PatchOwn
  <1>7. owner[d] # Absent
    BY UserReal DEF WriteOwn
  <1> HIDE DEF new, d
  <1>8. /\ new["user"] \in {Absent, owner[d]}
        /\ new["ref"] \in {Absent, d}
        /\ new["image"] \in {Absent, d}
        /\ new["image"] # Absent => d \in storage
    BY <1>3, <1>4, <1>5, <1>6
  <1> SUFFICES ASSUME NEW e \in Docs
               PROVE  /\ server'[e]["user"] \in {Absent, owner[e]}
                      /\ server'[e]["ref"] \in {Absent, e}
                      /\ server'[e]["image"] \in {Absent, e}
                      /\ server'[e]["image"] # Absent => e \in storage
                      /\ owner[e] = Absent => server'[e] = NoPosting
    BY DEF FieldsOwn
  <1>9. CASE e = d
    BY <1>1, <1>2, <1>7, <1>8, <1>9
  <1>10. CASE e # d
    BY <1>1, <1>2, <1>10 DEF FieldsOwn
  <1> QED
    BY <1>9, <1>10

LEMMA StreamOwn ==
  ASSUME TypeOK, OwnInv, NEW v \in Devices, StreamStep(v)
  PROVE  OwnInv'
  <1>1. UNCHANGED <<storage, owner, ui>>
    BY DEF StreamStep, WriteApplied, StreamBroken, WriteAcknowledged,
           WriteRejected
  <1>2. Grows
    BY <1>1, StillGrows
  <1>3. ScreensOwn'
    BY <1>1, <1>2, ScreensKept DEF OwnInv, OnScreen
  <1>4. CASE WriteApplied(v)
    <2>1. FieldsOwn'
      BY <1>1, <1>4, NextWriteType, QueuedOwn, AppliedOwn
         DEF OwnInv, WriteApplied
    <2>2. QueuesOwn'
      BY <1>2, <1>4, SameQueues DEF OwnInv, WriteApplied
    <2>3. TasksOwn'
      BY <1>2, <1>4, TasksKept DEF OwnInv, WriteApplied
    <2> QED
      BY <1>3, <2>1, <2>2, <2>3 DEF OwnInv
  <1>5. CASE StreamBroken(v)
    BY <1>3, <1>5, ScreenStepOwn DEF StreamBroken, OnScreen
  <1>6. CASE WriteAcknowledged(v) \/ WriteRejected(v)
    <2>0. queue[v] # <<>>
      BY <1>6 DEF WriteAcknowledged, WriteRejected, TypeOK
    <2>1. FieldsOwn'
      BY <1>2, <1>6, FieldsKept DEF OwnInv, WriteAcknowledged, WriteRejected
    <2>2. QueuesOwn'
      BY <1>2, <1>6, <2>0, ShorterQueue DEF OwnInv, WriteAcknowledged, WriteRejected
    <2>3. TasksOwn'
      <3> SUFFICES ASSUME NEW t \in Tasks, task'[t] # NoTask
                   PROVE  /\ task[t] # NoTask
                          /\ task'[t].doc = task[t].doc
                          /\ task'[t].dev = task[t].dev
                          /\ task'[t].stage = "url" => task[t].stage = "url"
        BY <1>2, TasksKept DEF OwnInv
      <3>1. task[t] \in ActiveTasks \cup {NoTask}
        BY DEF TypeOK
      <3> QED
        BY <1>6, <3>1
           DEF WriteAcknowledged, WriteRejected, Awaits, ActiveTasks, NoTask
    <2> QED
      BY <1>3, <2>1, <2>2, <2>3 DEF OwnInv
  <1> QED
    BY <1>4, <1>5, <1>6 DEF StreamStep

(* A completed read ends the app, or shows the Refs it has read.           *)
LEMMA ReadShows ==
  ASSUME TypeOK, NEW v \in Devices, ReadStep(v)
  PROVE  /\ UNCHANGED <<server, queue, storage, owner, deleted>>
         /\ \/ Trap(v)
            \/ /\ UNCHANGED <<task, sent>>
               /\ \A u \in Devices : \A d \in OnScreen(u)' :
                     d \in OnScreen(u) \/ (u = v /\ d \in Refs(v) /\ d # Absent)
  <1>1. UNCHANGED <<server, queue, storage, owner, deleted>>
    BY DEF ReadStep, loadFireBaseData, loadPosting, LoadError, ImageLoaded
  <1>2. ui[v] \in UIs
    BY DEF TypeOK
  <1> DEFINE Shows == \/ Trap(v)
                      \/ /\ UNCHANGED <<task, sent>>
                         /\ \A u \in Devices : \A d \in OnScreen(u)' :
                               \/ d \in OnScreen(u)
                               \/ u = v /\ d \in Refs(v) /\ d # Absent
  <1>3. ASSUME NEW list \in Tables, loadFireBaseData(v, list), ~Trap(v)
        PROVE  Shows
    <2>1. ~(ui[v].screen = list /\ ~Drawable(v, list))
      BY <1>3 DEF loadFireBaseData
    <2> DEFINE nr == IF list = "manage" THEN Refs(v) ELSE ui[v].refs
    <2>2. ui'[v].refs = nr /\ ui'[v].docPath = ui[v].docPath
      <3>1. ui'[v] = [ui[v] EXCEPT
                          !.fetch[list] = ui[v].fetch[list] - 1,
                          !.drawable[list] = Drawable(v, list),
                          !.refs = nr]
        BY <1>3, <2>1 DEF loadFireBaseData, TypeOK
      <3> HIDE DEF nr
      <3> QED
        BY <1>2, <3>1 DEF UIs
    <2>3. \A u \in Devices : u # v => ui'[u] = ui[u]
      BY <1>3, <2>1 DEF loadFireBaseData, TypeOK
    <2>4. UNCHANGED <<task, sent>>
      BY <1>3, <2>1 DEF loadFireBaseData
    <2>5. ASSUME NEW u \in Devices, NEW d \in OnScreen(u)'
          PROVE  d \in OnScreen(u) \/ (u = v /\ d \in Refs(v) /\ d # Absent)
      <3>1. CASE u # v
        BY <2>3, <3>1 DEF OnScreen
      <3>2. CASE u = v /\ list = "manage"
        BY <2>2, <3>2 DEF OnScreen
      <3>3. CASE u = v /\ list # "manage"
        BY <2>2, <3>3 DEF OnScreen
      <3> QED
        BY <3>1, <3>2, <3>3
    <2> QED
      BY <2>4, <2>5
  <1>4. ASSUME loadPosting(v), ~Trap(v)
        PROVE  Shows
    <2> DEFINE nl == ui[v].loading \/ Matching(v) # {}
    <2>1. UNCHANGED <<task, sent>> /\ ui' = [ui EXCEPT
                ![v].fetch["update"] = ui[v].fetch["update"] - 1,
                ![v].loading = nl]
      BY <1>4 DEF loadPosting, TypeOK
    <2> HIDE DEF nl
    <2>2. \A u \in Devices : OnScreen(u)' = OnScreen(u)
      BY <1>2, <2>1 DEF OnScreen, TypeOK, UIs
    <2> QED
      BY <2>1, <2>2
  <1>5. ASSUME NEW l \in Loads, LoadError(v, l)
        PROVE  Shows
    <2>1. UNCHANGED task /\ \A u \in Devices : OnScreen(u)' = OnScreen(u)
      BY <1>2, <1>5 DEF LoadError, OnScreen, TypeOK, UIs
    <2> QED
      BY <1>5, <2>1 DEF LoadError
  <1>6. ASSUME NEW ok \in BOOLEAN, ImageLoaded(v, ok)
        PROVE  Shows
    <2>1. UNCHANGED task /\ \A u \in Devices : OnScreen(u)' = OnScreen(u)
      BY <1>2, <1>6 DEF ImageLoaded, OnScreen, TypeOK, UIs
    <2> QED
      BY <1>6, <2>1 DEF ImageLoaded
  <1>7. Shows
    <2> HIDE DEF Shows
    <2>1. CASE Trap(v)
      BY <2>1 DEF Shows
    <2> QED
      BY <1>3, <1>4, <1>5, <1>6, <2>1 DEF ReadStep
  <1> QED
    BY <1>1, <1>7

LEMMA ReadOwn ==
  ASSUME TypeOK, OwnInv, NEW v \in Devices, ReadStep(v)
  PROVE  OwnInv'
  <1>1. CASE Trap(v)
    BY <1>1, ReadShows, TrapStepOwn
  <1>2. CASE ~Trap(v)
    <2>1. Grows
      BY ReadShows, StillGrows
    <2>2. FieldsOwn' /\ QueuesOwn' /\ TasksOwn'
      BY <1>2, <2>1, ReadShows, FieldsKept, SameQueues, TasksKept DEF OwnInv
    <2>3. ScreensOwn'
      <3> SUFFICES ASSUME NEW u \in Devices, NEW d \in OnScreen(u)'
                   PROVE  \/ d \in OnScreen(u)
                          \/ d \in Docs /\ owner'[d] = UserOf[u]
        BY <2>1, ScreensKept DEF OwnInv
      <3> QED
        BY <1>2, ReadShows, RefsOwn
    <2> QED
      BY <2>2, <2>3 DEF OwnInv
  <1> QED
    BY <1>1, <1>2

LEMMA TaskStepOwn ==
  ASSUME TypeOK, OwnInv, NEW t \in Tasks, TaskStep(t)
  PROVE  OwnInv'
  <1> DEFINE v == task[t].dev
             d == task[t].doc
  <1>1. task[t] \in ActiveTasks /\ task[t] # NoTask
    BY DEF TypeOK, TaskStep, AddCompleted, PutCompleted, PutFailed,
           UrlCompleted, UrlFailed, NoTask
  <1>2. v \in Devices /\ d \in Docs /\ owner[d] = UserOf[v]
    BY <1>1 DEF ActiveTasks, OwnInv, TasksOwn
  <1>3. Grows /\ FieldsOwn'
    <2>1. UNCHANGED <<server, owner>> /\ storage \subseteq storage'
      BY DEF TaskStep, AddCompleted, PutCompleted, PutFailed, UrlCompleted,
             UrlFailed
    <2> QED
      BY <2>1, FieldsKept DEF Grows, OwnInv
  <1>4. CASE AddCompleted(t)
    <2> DEFINE w == Write("ref", d, Merge(Fields, "ref", d))
    <2>1. WriteOwn(v, w, owner', storage')
      BY <1>2, <1>4 DEF AddCompleted, WriteOwn, Write
    <2>2. Enqueue(v, w)
      BY <1>4 DEF AddCompleted
    <2>3. QueuesOwn'
      <3> HIDE DEF w, v
      <3> QED BY <1>2, <1>3, <2>1, <2>2, LongerQueue DEF OwnInv
    <2>4. TasksOwn'
      <3> SUFFICES ASSUME NEW s \in Tasks, task'[s] # NoTask
                   PROVE  /\ task[s] # NoTask
                          /\ task'[s].doc = task[s].doc
                          /\ task'[s].dev = task[s].dev
                          /\ task'[s].stage = "url" => task[s].stage = "url"
        BY <1>3, TasksKept DEF OwnInv
      <3> QED
        BY <1>1, <1>4 DEF AddCompleted, uploadImage, TypeOK, ActiveTasks
    <2>5. ScreensOwn'
      BY <1>3, <1>4, ScreensKept DEF AddCompleted, OwnInv, OnScreen
    <2> QED
      BY <1>3, <2>3, <2>4, <2>5 DEF OwnInv
  <1>5. CASE PutCompleted(t)
    <2>1. QueuesOwn'
      BY <1>3, <1>5, SameQueues DEF PutCompleted, OwnInv
    <2>2. TasksOwn'
      <3> SUFFICES ASSUME NEW s \in Tasks, task'[s] # NoTask
                   PROVE  \/ task'[s] = task[s]
                          \/ /\ owner'[task'[s].doc] = UserOf[task'[s].dev]
                             /\ task'[s].doc \in storage'
        BY <1>3, TasksKept DEF OwnInv
      <3>1. CASE s = t
        <4>1. task'[t] = [task[t] EXCEPT !.stage = "url"]
          BY <1>5 DEF PutCompleted, TypeOK
        <4>2. task'[t].doc = d /\ task'[t].dev = v
          BY <1>1, <4>1 DEF ActiveTasks
        <4> QED
          BY <1>2, <1>5, <3>1, <4>2 DEF PutCompleted
      <3>2. CASE s # t
        BY <1>5, <3>2 DEF PutCompleted, TypeOK
      <3> QED
        BY <3>1, <3>2
    <2>3. ScreensOwn'
      BY <1>3, <1>5, ScreensKept DEF PutCompleted, OwnInv, OnScreen
    <2> QED
      BY <1>3, <2>1, <2>2, <2>3 DEF OwnInv
  <1>6. CASE PutFailed(t)
    <2>1. TasksOwn'
      <3> SUFFICES ASSUME NEW s \in Tasks, task'[s] # NoTask
                   PROVE  task'[s] = task[s]
        BY <1>3, TasksKept DEF OwnInv
      <3> QED
        BY <1>6 DEF PutFailed, TypeOK
    <2>2. QueuesOwn' /\ ScreensOwn'
      BY <1>3, <1>6, SameQueues, ScreensKept DEF PutFailed, OwnInv, OnScreen
    <2> QED
      BY <1>3, <2>1, <2>2 DEF OwnInv
  <1>7. CASE UrlCompleted(t)
    <2> DEFINE w == Write("image", d, Merge(Fields, "image", d))
    <2>1. d \in storage
      BY <1>1, <1>7 DEF UrlCompleted, OwnInv, TasksOwn
    <2>2. WriteOwn(v, w, owner', storage')
      BY <1>2, <1>7, <2>1 DEF UrlCompleted, WriteOwn, Write
    <2>3. Enqueue(v, w)
      BY <1>7 DEF UrlCompleted
    <2>4. QueuesOwn'
      <3> HIDE DEF w, v
      <3> QED BY <1>2, <1>3, <2>2, <2>3, LongerQueue DEF OwnInv
    <2>5. TasksOwn'
      <3> SUFFICES ASSUME NEW s \in Tasks, task'[s] # NoTask
                   PROVE  task'[s] = task[s]
        BY <1>3, TasksKept DEF OwnInv
      <3> QED
        BY <1>7 DEF UrlCompleted, TypeOK
    <2>6. ScreensOwn'
      <3>1. \A u \in Devices : OnScreen(u)' = OnScreen(u)
        <4>1. \A u \in Devices : ui[u] \in UIs
          BY DEF TypeOK
        <4> QED
          BY <1>7, <4>1 DEF UrlCompleted, OnScreen, TypeOK, UIs
      <3> QED
        BY <1>3, <3>1, ScreensKept DEF OwnInv
    <2> QED
      BY <1>3, <2>4, <2>5, <2>6 DEF OwnInv
  <1>8. CASE UrlFailed(t)
    BY <1>2, <1>8, TrapStepOwn DEF UrlFailed
  <1> QED
    BY <1>4, <1>5, <1>6, <1>7, <1>8 DEF TaskStep

(* The user's steps that only change what is shown.                        *)
ShowStep(v) ==
    \/ Launch(v) \/ CancelDelete(v) \/ SwitchTab(v) \/ InvalidDetails(v)
    \/ imageTapped(v) \/ OpenUpload(v) \/ OpenManage(v) \/ deleteButton(v)
    \/ \E picked \in BOOLEAN : imagePickerController(v, picked)
    \/ \E refNo \in ui[v].refs : SelectRow(v, refNo)

LEMMA AlertShows ==
  ASSUME TypeOK, NEW v \in Devices, NEW a, ui' = [ui EXCEPT ![v].alert = a]
  PROVE  \A u \in Devices : OnScreen(u)' = OnScreen(u)
  <1>1. ui \in [Devices -> UIs] /\ ui[v] \in UIs
    BY DEF TypeOK
  <1>2. ui' = [ui EXCEPT ![v] = [ui[v] EXCEPT !.alert = a]]
    OBVIOUS
  <1>3. /\ ui'[v].refs = ui[v].refs /\ ui'[v].docPath = ui[v].docPath
        /\ \A u \in Devices : u # v => ui'[u] = ui[u]
    BY <1>1, <1>2 DEF UIs
  <1> QED
    BY <1>3 DEF OnScreen

LEMMA ShowStepShows ==
  ASSUME TypeOK, NEW v \in Devices, ShowStep(v)
  PROVE  /\ UNCHANGED <<server, queue, sent, storage, task, owner, deleted>>
         /\ \A u \in Devices : OnScreen(u)' \subseteq OnScreen(u)
  <1>1. UNCHANGED <<server, queue, sent, storage, task, owner, deleted>>
    BY DEF ShowStep, Launch, CancelDelete, SwitchTab, InvalidDetails,
           imageTapped, OpenUpload, OpenManage, deleteButton,
           imagePickerController, SelectRow
  <1>2. ui \in [Devices -> UIs] /\ ui[v] \in UIs
    BY DEF TypeOK
  <1> SUFFICES ASSUME NEW u \in Devices
               PROVE  OnScreen(u)' \subseteq OnScreen(u)
    BY <1>1
  <1>3. CASE Launch(v)
    BY <1>2, <1>3 DEF Launch, OnScreen, Closed
  <1>4. CASE \/ CancelDelete(v) \/ InvalidDetails(v) \/ imageTapped(v)
             \/ deleteButton(v)
    BY <1>4, AlertShows
       DEF CancelDelete, InvalidDetails, imageTapped, deleteButton
  <1>5. CASE SwitchTab(v)
    BY <1>2, <1>5 DEF SwitchTab, OnScreen, UIs
  <1>6. CASE OpenUpload(v)
    BY <1>2, <1>6 DEF OpenUpload, OnScreen, UIs
  <1>7. CASE OpenManage(v)
    BY <1>2, <1>7 DEF OpenManage, OnScreen, UIs
  <1>8. ASSUME NEW p \in BOOLEAN, imagePickerController(v, p)
        PROVE  OnScreen(u)' \subseteq OnScreen(u)
    BY <1>2, <1>8 DEF imagePickerController, OnScreen, UIs
  <1>9. ASSUME NEW refNo \in ui[v].refs, SelectRow(v, refNo)
        PROVE  OnScreen(u)' \subseteq OnScreen(u)
    <2>1. CASE u = v
      <3>1. ui'[v] = [ui[v] EXCEPT !.screen = "update", !.docPath = refNo,
                        !.fetch["update"] = 1, !.picture = TRUE,
                        !.loading = FALSE]
        BY <1>2, <1>9 DEF SelectRow
      <3>2. ui'[v].refs = ui[v].refs /\ ui'[v].docPath = refNo
        BY <1>2, <3>1 DEF UIs
      <3> QED
        BY <2>1, <3>2 DEF OnScreen
    <2>2. CASE u # v
      BY <1>2, <1>9, <2>2 DEF SelectRow, OnScreen
    <2> QED
      BY <2>1, <2>2
  <1> QED
    BY <1>3, <1>4, <1>5, <1>6, <1>7, <1>8, <1>9 DEF ShowStep

LEMMA uploadButtonOwn ==
  ASSUME TypeOK, OwnInv, NEW v \in Devices, NEW d \in Docs,
         NEW form \in Forms, NEW t \in Tasks, uploadButton(v, d, form, t)
  PROVE  OwnInv'
  <1> DEFINE w == Write("add", d, AddPatch(form, UserOf[v]))
  <1>1. owner' = [owner EXCEPT ![d] = UserOf[v]] /\ owner[d] = Absent
    BY DEF uploadButton
  <1>2. Grows /\ owner'[d] = UserOf[v]
    BY <1>1 DEF Grows, uploadButton, TypeOK
  <1>3. WriteOwn(v, w, owner', storage')
    BY <1>2 DEF WriteOwn, Write
  <1>4. QueuesOwn'
    <2>1. Enqueue(v, w)
      BY DEF uploadButton
    <2> HIDE DEF w
    <2> QED
      BY <1>2, <1>3, <2>1, LongerQueue DEF OwnInv
  <1>5. TasksOwn'
    <2> SUFFICES ASSUME NEW s \in Tasks, task'[s] # NoTask
                 PROVE  \/ task'[s] = task[s]
                        \/ /\ owner'[task'[s].doc] = UserOf[task'[s].dev]
                           /\ task'[s].stage # "url"
      BY <1>2, TasksKept DEF OwnInv
    <2> QED
      BY <1>2 DEF uploadButton, TypeOK
  <1>6. FieldsOwn'
    BY <1>2, FieldsKept DEF OwnInv, uploadButton
  <1>7. ScreensOwn'
    BY <1>2, ScreensKept DEF OwnInv, uploadButton, OnScreen
  <1> QED
    BY <1>4, <1>5, <1>6, <1>7 DEF OwnInv

LEMMA updateButtonOwn ==
  ASSUME TypeOK, OwnInv, NEW v \in Devices, NEW form \in Forms,
         NEW t \in Tasks, updateButton(v, form, t)
  PROVE  OwnInv'
  <1> DEFINE d == ui[v].docPath
             edit == Write("form", d, Merge(Fields, "form", form))
             next == [stage |-> "put", dev |-> v, doc |-> d, vc |-> "update"]
  <1>1. UNCHANGED <<server, storage, owner>>
    BY DEF updateButton
  <1>2. Grows /\ FieldsOwn'
    BY <1>1, StillGrows, FieldsKept DEF OwnInv
  <1>3. d # Absent => owner[d] = UserOf[v]
    BY DEF OwnInv, ScreensOwn, OnScreen
  <1>4. d # Absent => WriteOwn(v, edit, owner', storage')
    BY <1>1, <1>3 DEF WriteOwn, Write
  <1>5. d # Absent /\ Enqueue(v, edit) => QueuesOwn'
    <2> HIDE DEF edit, d
    <2> QED
      BY <1>2, <1>4, LongerQueue DEF OwnInv
  <1>6. CASE Trap(v) /\ UNCHANGED queue
    BY <1>1, <1>6, TrapStepOwn
  <1>7. CASE d # Absent /\ Enqueue(v, edit) /\ Trap(v)
    <2> HIDE DEF edit, d
    <2> QED
      BY <1>2, <1>5, <1>7, TrapOwn DEF OwnInv
  <1>8. CASE /\ d # Absent /\ Enqueue(v, edit)
             /\ uploadImage(t, next) /\ UNCHANGED ui
    <2>1. TasksOwn'
      <3> SUFFICES ASSUME NEW s \in Tasks, task'[s] # NoTask
                   PROVE  \/ task'[s] = task[s]
                          \/ /\ owner'[task'[s].doc] = UserOf[task'[s].dev]
                             /\ task'[s].stage # "url"
        BY <1>2, TasksKept DEF OwnInv
      <3> QED
        BY <1>1, <1>3, <1>8 DEF uploadImage, TypeOK
    <2>2. ScreensOwn'
      BY <1>2, <1>8, ScreensKept DEF OwnInv, OnScreen
    <2> QED
      BY <1>2, <1>5, <1>8, <2>1, <2>2 DEF OwnInv
  <1> QED
    BY <1>6, <1>7, <1>8 DEF updateButton

LEMMA ConfirmDeleteOwn ==
  ASSUME TypeOK, OwnInv, NEW v \in Devices, ConfirmDelete(v)
  PROVE  OwnInv'
  <1> DEFINE d == ui[v].docPath
             del == Write("delete", d, Delete(Fields))
  <1>1. UNCHANGED <<server, storage, owner>>
    BY DEF ConfirmDelete
  <1>2. Grows /\ FieldsOwn'
    BY <1>1, StillGrows, FieldsKept DEF OwnInv
  <1>3. CASE d = Absent
    BY <1>1, <1>3, TrapStepOwn DEF ConfirmDelete
  <1>4. CASE d # Absent
    <2>1. owner[d] = UserOf[v]
      BY <1>4 DEF OwnInv, ScreensOwn, OnScreen
    <2>2. WriteOwn(v, del, owner', storage')
      BY <1>1, <2>1 DEF WriteOwn, Write
    <2>3. Enqueue(v, del)
      BY <1>4 DEF ConfirmDelete
    <2>4. QueuesOwn'
      <3> HIDE DEF del
      <3> QED BY <1>2, <2>2, <2>3, LongerQueue DEF OwnInv
    <2>5. TasksOwn'
      BY <1>2, <1>4, TasksKept DEF OwnInv, ConfirmDelete
    <2>6. ScreensOwn'
      <3>1. \A u \in Devices : OnScreen(u)' = OnScreen(u)
        BY <1>4, AlertShows DEF ConfirmDelete
      <3> QED
        BY <1>2, <3>1, ScreensKept DEF OwnInv
    <2> QED
      BY <1>2, <2>4, <2>5, <2>6 DEF OwnInv
  <1> QED
    BY <1>3, <1>4

LEMMA UserOwn ==
  ASSUME TypeOK, OwnInv, NEW v \in Devices, UserStep(v)
  PROVE  OwnInv'
  <1>1. CASE Back(v)
    BY <1>1, TrapStepOwn DEF Back
  <1>2. CASE AlertOk(v)
    <2>1. CASE Pop(v)
      BY <1>2, <2>1, TrapStepOwn DEF AlertOk
    <2>2. CASE ui[v].alert = "invalid"
      <3>2. \A u \in Devices : OnScreen(u)' = OnScreen(u)
        BY <1>2, <2>2, AlertShows DEF AlertOk
      <3> QED
        BY <1>2, <2>2, <3>2, ScreenStepOwn DEF AlertOk
    <2> QED
      BY <1>2, <2>1, <2>2 DEF AlertOk
  <1>3. CASE ShowStep(v)
    BY <1>3, ShowStepShows, ScreenStepOwn
  <1> QED
    BY <1>1, <1>2, <1>3, uploadButtonOwn, updateButtonOwn, ConfirmDeleteOwn
       DEF UserStep, ShowStep

LEMMA OwnInit == Init => OwnInv
  <1> SUFFICES ASSUME Init PROVE OwnInv
    OBVIOUS
  <1>1. FieldsOwn
    BY DEF Init, FieldsOwn, NoPosting, Missing, Fields
  <1>2. QueuesOwn /\ TasksOwn
    BY DEF Init, QueuesOwn, TasksOwn
  <1>3. ScreensOwn
    BY DEF Init, ScreensOwn, OnScreen, Closed
  <1> QED
    BY <1>1, <1>2, <1>3 DEF OwnInv

LEMMA OwnStep == TypeOK /\ OwnInv /\ [Next]_vars => OwnInv'
  <1> SUFFICES ASSUME TypeOK, OwnInv, [Next]_vars PROVE OwnInv'
    OBVIOUS
  <1>1. ASSUME NEW v \in Devices, Kill(v) PROVE OwnInv'
    BY <1>1, TrapStepOwn DEF Kill
  <1>2. CASE UNCHANGED vars
    BY <1>2, ScreenStepOwn DEF vars, OnScreen
  <1> QED
    BY <1>1, <1>2, UserOwn, ReadOwn, StreamOwn, TaskStepOwn DEF Next

(* The inductive invariant itself.                                         *)
THEOREM OwnInvariant == Spec => [](TypeOK /\ OwnInv)
  BY TypeInit, TypeStep, OwnInit, OwnStep, PTL DEF Spec

(* No device ever queues a write to, or opens for editing, a posting that  *)
(* another user created (the filter of ManagePostingsViewController, the   *)
(* Ref of UploadMarketPlaceViewController), whatever is lost or resent.    *)
THEOREM OnlyOwnPostings == Spec => []OwnPostingsOnly
  <1>1. TypeOK /\ OwnInv => OwnPostingsOnly
    <2> SUFFICES ASSUME TypeOK, OwnInv, NEW v \in Devices
                 PROVE  /\ \A i \in DOMAIN queue[v] :
                              owner[queue[v][i].doc] = UserOf[v]
                        /\ ui[v].docPath # Absent =>
                              owner[ui[v].docPath] = UserOf[v]
      BY DEF OwnPostingsOnly
    <2>1. \A i \in DOMAIN queue[v] : owner[queue[v][i].doc] = UserOf[v]
      BY DEF OwnInv, QueuesOwn, WriteOwn
    <2>2. ui[v].docPath # Absent => owner[ui[v].docPath] = UserOf[v]
      BY DEF OwnInv, ScreensOwn, OnScreen
    <2> QED
      BY <2>1, <2>2
  <1> QED
    BY <1>1, OwnInvariant, PTL

(* The User field of a stored posting is its creator's or missing.         *)
THEOREM AuthorIsKept == Spec => []AuthorKept
  <1>1. TypeOK /\ OwnInv => AuthorKept
    BY DEF OwnInv, FieldsOwn, AuthorKept
  <1> QED
    BY <1>1, OwnInvariant, PTL

(* The Image field of a stored posting never points to a missing photo.    *)
THEOREM LinksHavePhotos == Spec => []LinkHasPhoto
  <1>1. TypeOK /\ OwnInv => LinkHasPhoto
    BY DEF OwnInv, FieldsOwn, LinkHasPhoto
  <1> QED
    BY <1>1, OwnInvariant, PTL
=============================================================================
