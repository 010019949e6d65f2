------------------------ MODULE PostingsOrderProofs -------------------------
(***************************************************************************)
(* OrderInv is an invariant of module Postings if the backend refuses no   *)
(* Ref, and the collection then changes only by the steps of PostingBoard. *)
(* The argument: nobody knows the id of a posting before its add has been  *)
(* acknowledged, whatever is sent again; the Ref is queued next, and what  *)
(* a device does to a posting it finds in its list is queued after a Ref   *)
(* it has read from the collection or from its own queue.                  *)
(***************************************************************************)
EXTENDS PostingsProofs

RefsAccepted == "ref" \notin Rejectable

(* RefBefore, of the state after a step.                                   *)
RefAfter(v, d, n) ==
    \/ server'[d]["user"] = Absent
    \/ server'[d]["ref"] # Absent
    \/ \E i \in DOMAIN queue'[v] :
          i <= n /\ queue'[v][i].kind = "ref" /\ queue'[v][i].doc = d

(* What most steps do to the queues: one write more, or nothing.           *)
Longer ==
    \A u \in Devices : \/ queue'[u] = queue[u]
                       \/ \E w \in Writes : queue'[u] = Append(queue[u], w)

LEMMA LongerElements ==
  ASSUME TypeOK, Longer, NEW u \in Devices
  PROVE  /\ Len(queue[u]) \in Nat /\ Len(queue'[u]) \in Nat
         /\ DOMAIN queue[u] = 1..Len(queue[u])
         /\ DOMAIN queue'[u] = 1..Len(queue'[u])
         /\ Len(queue[u]) <= Len(queue'[u])
         /\ \A i \in DOMAIN queue[u] :
               i \in DOMAIN queue'[u] /\ queue'[u][i] = queue[u][i]
         /\ \A i \in DOMAIN queue'[u] : i \notin DOMAIN queue[u] =>
               i = Len(queue[u]) + 1 /\ i = Len(queue'[u])
  <1>1. queue[u] \in Seq(Writes)
    BY DEF TypeOK
  <1>2. CASE queue'[u] = queue[u]
    BY <1>1, <1>2
  <1>3. ASSUME NEW w \in Writes, queue'[u] = Append(queue[u], w)
        PROVE  /\ Len(queue'[u]) = Len(queue[u]) + 1
               /\ DOMAIN queue'[u] = 1..(Len(queue[u]) + 1)
               /\ \A i \in 1..Len(queue[u]) : queue'[u][i] = queue[u][i]
    BY <1>1, <1>3
  <1>4. DOMAIN queue[u] = 1..Len(queue[u]) /\ Len(queue[u]) \in Nat
    BY <1>1
  <1> QED
    BY <1>2, <1>3, <1>4 DEF Longer

(* A Ref that was there stays there while the collection does.             *)
LEMMA RefGrows ==
  ASSUME TypeOK, Longer, UNCHANGED server, NEW v \in Devices, NEW d,
         NEW n \in Nat, NEW m \in Nat, n <= m, RefBefore(v, d, n)
  PROVE  RefAfter(v, d, m)
  <1>1. CASE server[d]["user"] = Absent \/ server[d]["ref"] # Absent
    BY <1>1 DEF RefAfter
  <1>2. ASSUME NEW i \in DOMAIN queue[v], i <= n, queue[v][i].kind = "ref",
               queue[v][i].doc = d
        PROVE  RefAfter(v, d, m)
    <2>1. /\ i \in DOMAIN queue'[v] /\ queue'[v][i] = queue[v][i]
          /\ i \in Nat
      BY LongerElements
    <2>2. i <= m
      BY <1>2, <2>1
    <2> QED
      BY <1>2, <2>1, <2>2 DEF RefAfter
  <1> QED
    BY <1>1, <1>2 DEF RefBefore

LEMMA SentGrows ==
  ASSUME TypeOK, Longer, UNCHANGED server, SentApplied,
         \A u \in Devices : sent'[u] \in {0, sent[u]}
  PROVE  SentApplied'
  <1>1. ASSUME NEW v \in Devices
        PROVE  /\ sent'[v] <= Len(queue'[v])
               /\ \A i \in 1..sent'[v] : queue'[v][i].kind = "ref" =>
                            RefAfter(v, queue'[v][i].doc, 0)
    <2>1. sent[v] \in Nat /\ sent[v] <= Len(queue[v])
      BY DEF TypeOK, SentApplied
    <2>2. sent'[v] <= Len(queue'[v])
      BY <2>1, LongerElements
    <2>3. ASSUME NEW i \in 1..sent'[v], queue'[v][i].kind = "ref"
          PROVE  RefAfter(v, queue'[v][i].doc, 0)
      <3>1. i \in 1..sent[v]
        BY <2>1
      <3>2. i \in DOMAIN queue[v] /\ queue'[v][i] = queue[v][i]
        BY <2>1, <3>1, LongerElements
      <3>3. RefBefore(v, queue[v][i].doc, 0)
        BY <2>3, <3>1, <3>2 DEF SentApplied
      <3> QED
        BY <3>2, <3>3, RefGrows
    <2> QED
      BY <2>2, <2>3
  <1> QED
    BY <1>1 DEF SentApplied, RefAfter, RefBefore

(* New writes but an add, new chains and new rows are about postings whose *)
(* Ref the device has read or queued.                                      *)
LEMMA RefFirstGrows ==
  ASSUME TypeOK, TypeOK', Longer, UNCHANGED server, RefFirst,
         \A u \in Devices : \A i \in DOMAIN queue'[u] :
            \/ i \in DOMAIN queue[u]
            \/ queue'[u][i].kind \in {"add", "ref"}
            \/ RefBefore(u, queue'[u][i].doc, Len(queue[u])),
         \A t \in Tasks : task'[t].stage \in {"put", "url"} =>
            \/ /\ task[t].stage \in {"put", "url"}
               /\ task'[t].doc = task[t].doc /\ task'[t].dev = task[t].dev
            \/ RefAfter(task'[t].dev, task'[t].doc,
                        Len(queue'[task'[t].dev])),
         \A v \in Devices : \A d \in OnScreen(v)' :
            d \in OnScreen(v) \/ RefBefore(v, d, Len(queue[v]))
  PROVE  RefFirst'
  <1>0. \A v \in Devices : /\ Len(queue[v]) \in Nat /\ Len(queue'[v]) \in Nat
                           /\ Len(queue[v]) <= Len(queue'[v])
    BY LongerElements
  <1>1. ASSUME NEW v \in Devices, NEW i \in DOMAIN queue'[v],
               queue'[v][i].kind \in {"image", "form", "delete"}
        PROVE  RefAfter(v, queue'[v][i].doc, i)
    <2>1. CASE i \in DOMAIN queue[v]
      <3>1. queue'[v][i] = queue[v][i] /\ i \in Nat
        BY <2>1, LongerElements
      <3>2. RefBefore(v, queue[v][i].doc, i)
        BY <1>1, <2>1, <3>1 DEF RefFirst
      <3> QED
        BY <3>1, <3>2, RefGrows
    <2>2. CASE i \notin DOMAIN queue[v]
      <3>1. i = Len(queue[v]) + 1
        BY <2>2, LongerElements
      <3>2. RefBefore(v, queue'[v][i].doc, Len(queue[v]))
        BY <1>1, <2>2
      <3>3. Len(queue[v]) <= i /\ i \in Nat
        BY <1>0, <3>1
      <3> QED
        BY <1>0, <3>2, <3>3, RefGrows
    <2> QED
      BY <2>1, <2>2
  <1>2. ASSUME NEW t \in Tasks, task'[t].stage \in {"put", "url"}
        PROVE  RefAfter(task'[t].dev, task'[t].doc, Len(queue'[task'[t].dev]))
    <2>1. CASE /\ task[t].stage \in {"put", "url"}
               /\ task'[t].doc = task[t].doc /\ task'[t].dev = task[t].dev
      <3>1. task[t].dev \in Devices
        BY <2>1 DEF TypeOK, ActiveTasks, NoTask
      <3>2. RefBefore(task[t].dev, task[t].doc, Len(queue[task[t].dev]))
        BY <2>1 DEF RefFirst
      <3> QED
        BY <1>0, <2>1, <3>1, <3>2, RefGrows
    <2> QED
      BY <1>2, <2>1
  <1>3. ASSUME NEW v \in Devices, NEW d \in OnScreen(v)'
        PROVE  RefAfter(v, d, Len(queue'[v]))
    <2>1. RefBefore(v, d, Len(queue[v]))
      BY DEF RefFirst
    <2> QED
      BY <1>0, <2>1, RefGrows
  <1> QED
    BY <1>1, <1>2, <1>3 DEF RefFirst, RefAfter, RefBefore

(* An add of the posting d is queued somewhere.                            *)
AddQueued(d) ==
    \E v \in Devices : \E i \in DOMAIN queue[v] :
        queue[v][i].kind = "add" /\ queue[v][i].doc = d

LEMMA AddIsAlone ==
  ASSUME TypeOK, AddAlone, NEW d, AddQueued(d)
  PROVE  /\ d \in Docs
         /\ \A t \in Tasks : task[t].doc = d => task[t].stage = "add"
         /\ \A u \in Devices : d \notin OnScreen(u)
  <1>1. PICK v \in Devices : \E i \in DOMAIN queue[v] :
           queue[v][i].kind = "add" /\ queue[v][i].doc = d
    BY DEF AddQueued
  <1>2. PICK i \in DOMAIN queue[v] :
           queue[v][i].kind = "add" /\ queue[v][i].doc = d
    BY <1>1
  <1>3. queue[v] \in Seq(Writes)
    BY DEF TypeOK
  <1>4. queue[v][i] \in Writes
    BY <1>3
  <1>5. d \in Docs
    BY <1>2, <1>4 DEF Writes
  <1> QED
    BY <1>2, <1>5 DEF AddAlone

(* No step but a tap on Upload queues an add.                              *)
LEMMA AddAloneGrows ==
  ASSUME TypeOK, Longer, UNCHANGED server, AddAlone,
         \A u \in Devices : \A i \in DOMAIN queue'[u] :
            \/ i \in DOMAIN queue[u]
            \/ queue'[u][i].kind # "add" /\ ~AddQueued(queue'[u][i].doc),
         \A t \in Tasks : AddQueued(task'[t].doc) => task'[t].stage = "add",
         \A u \in Devices : \A d \in OnScreen(u)' : ~AddQueued(d)
  PROVE  AddAlone'
  <1> SUFFICES ASSUME NEW v \in Devices, NEW i \in DOMAIN queue'[v],
                      queue'[v][i].kind = "add"
               PROVE  LET w == queue'[v][i]
                      IN  /\ server[w.doc] \in
                                {NoPosting, Apply(NoPosting, w.patch)}
                          /\ \A u \in Devices : \A j \in DOMAIN queue'[u] :
                                queue'[u][j].doc = w.doc => u = v /\ j = i
                          /\ \A t \in Tasks :
                                task'[t].doc = w.doc => task'[t].stage = "add"
                          /\ \A u \in Devices : w.doc \notin OnScreen(u)'
    BY DEF AddAlone
  <1> DEFINE w == queue'[v][i]
  <1>1. i \in DOMAIN queue[v] /\ queue[v][i] = w
    BY LongerElements
  <1>2. AddQueued(w.doc)
    BY <1>1 DEF AddQueued
  <1>3. /\ server[w.doc] \in {NoPosting, Apply(NoPosting, w.patch)}
        /\ \A u \in Devices : \A j \in DOMAIN queue[u] :
              queue[u][j].doc = w.doc => u = v /\ j = i
    BY <1>1 DEF AddAlone
  <1>4. ASSUME NEW u \in Devices, NEW j \in DOMAIN queue'[u],
               queue'[u][j].doc = w.doc
        PROVE  u = v /\ j = i
    <2>1. j \in DOMAIN queue[u]
      BY <1>2, <1>4
    <2>2. queue[u][j] = queue'[u][j]
      BY <2>1, LongerElements
    <2> QED
      BY <1>3, <1>4, <2>1, <2>2
  <1> QED
    BY <1>2, <1>3, <1>4

(* So most steps keep OrderInv.                                            *)
LEMMA GrowOrder ==
  ASSUME TypeOK, TypeOK', OrderInv, Longer, UNCHANGED server,
         \A u \in Devices : sent'[u] \in {0, sent[u]},
         \A u \in Devices : \A i \in DOMAIN queue'[u] :
            \/ i \in DOMAIN queue[u]
            \/ /\ queue'[u][i].kind # "add" /\ ~AddQueued(queue'[u][i].doc)
               /\ \/ queue'[u][i].kind = "ref"
                  \/ RefBefore(u, queue'[u][i].doc, Len(queue[u])),
         \A t \in Tasks :
            \/ task'[t] = NoTask
            \/ /\ task'[t].stage = task[t].stage
               /\ task'[t].doc = task[t].doc /\ task'[t].dev = task[t].dev
            \/ /\ ~AddQueued(task'[t].doc)
               /\ task'[t].stage \in {"put", "url"} =>
                    RefAfter(task'[t].dev, task'[t].doc,
                             Len(queue'[task'[t].dev])),
         \A v \in Devices : \A d \in OnScreen(v)' :
            \/ d \in OnScreen(v)
            \/ ~AddQueued(d) /\ RefBefore(v, d, Len(queue[v]))
  PROVE  OrderInv'
  <1>1. AddAlone'
    <2>1. \A t \in Tasks : AddQueued(task'[t].doc) => task'[t].stage = "add"
      <3>1. ~AddQueued(NoTask.doc)
        BY AddIsAlone, ConstantsAssumption DEF OrderInv, NoTask
      <3> QED
        BY <3>1, AddIsAlone DEF OrderInv
    <2>2. \A u \in Devices : \A d \in OnScreen(u)' : ~AddQueued(d)
      BY AddIsAlone DEF OrderInv
    <2> QED
      BY <2>1, <2>2, AddAloneGrows DEF OrderInv
  <1>2. RefFirst'
    <2>1. \A t \in Tasks : task'[t].stage \in {"put", "url"} =>
            \/ /\ task[t].stage \in {"put", "url"}
               /\ task'[t].doc = task[t].doc /\ task'[t].dev = task[t].dev
            \/ RefAfter(task'[t].dev, task'[t].doc,
                        Len(queue'[task'[t].dev]))
      BY DEF NoTask
    <2> QED
      BY <2>1, RefFirstGrows DEF OrderInv
  <1>3. SentApplied'
    BY SentGrows DEF OrderInv
  <1> QED
    BY <1>1, <1>2, <1>3 DEF OrderInv

-----------------------------------------------------------------------------
(* What a step does to chains and screens.                                 *)
TasksEnd ==
    \A t \in Tasks :
        \/ task'[t] = NoTask
        \/ /\ task'[t].stage = task[t].stage
           /\ task'[t].doc = task[t].doc /\ task'[t].dev = task[t].dev

ScreensEnd == \A v \in Devices : OnScreen(v)' \subseteq OnScreen(v)

LEMMA TrapEnds ==
  ASSUME TypeOK, NEW v \in Devices, Trap(v)
  PROVE  /\ TasksEnd /\ ScreensEnd
         /\ \A u \in Devices : sent'[u] \in {0, sent[u]}
  <1>1. TasksEnd
    BY DEF TasksEnd, Trap
  <1>2. ASSUME NEW u \in Devices PROVE OnScreen(u)' \subseteq OnScreen(u)
    <2>1. CASE u = v
      BY <2>1 DEF Trap, OnScreen, Closed, TypeOK
    <2>2. CASE u # v
      BY <2>2 DEF Trap, OnScreen, TypeOK
    <2> QED
      BY <2>1, <2>2
  <1>3. \A u \in Devices : sent'[u] \in {0, sent[u]}
    BY DEF Trap, TypeOK
  <1> QED
    BY <1>1, <1>2, <1>3 DEF ScreensEnd

LEMMA PopEnds ==
  ASSUME TypeOK, NEW v \in Devices, Pop(v)
  PROVE  /\ TasksEnd /\ ScreensEnd
         /\ \A u \in Devices : sent'[u] \in {0, sent[u]}
  <1> DEFINE list == Below(ui[v].screen)
  <1>1. CASE ~ui[v].drawable[list]
    BY <1>1, TrapEnds DEF Pop
  <1>2. CASE ui[v].drawable[list]
    <2>1. TasksEnd
      <3> SUFFICES ASSUME NEW t \in Tasks
                   PROVE  /\ task'[t].stage = task[t].stage
                          /\ task'[t].doc = task[t].doc
                          /\ task'[t].dev = task[t].dev
        BY DEF TasksEnd
      <3>1. task[t] \in ActiveTasks \cup {NoTask}
        BY DEF TypeOK
      <3> QED
        BY <1>2, <3>1 DEF Pop, ActiveTasks, NoTask
    <2>2. ASSUME NEW u \in Devices PROVE OnScreen(u)' \subseteq OnScreen(u)
      <3>1. CASE u = v
        <4> DEFINE nf == [l \in Loads |-> IF l = ui[v].screen THEN 0
                          ELSE ui[v].fetch[l] + (IF l = list THEN 1 ELSE 0)]
                   nd == [l \in Tables |->
                             l = ui[v].screen \/ ui[v].drawable[l]]
                   nr == IF ui[v].screen = "manage" THEN {} ELSE ui[v].refs
        <4>1. ui'[v] = [Closed EXCEPT !.screen = list, !.fetch = nf,
                                      !.drawable = nd, !.refs = nr]
          BY <1>2 DEF Pop, TypeOK
        <4> HIDE DEF nf, nd, nr, list
        <4>2. ui'[v].docPath = Absent /\ ui'[v].refs = nr
          BY <4>1 DEF Closed
        <4> QED
          BY <3>1, <4>2 DEF OnScreen, nr
      <3>2. CASE u # v
        BY <1>2, <3>2 DEF Pop, OnScreen, TypeOK
      <3> QED
        BY <3>1, <3>2
    <2>3. \A u \in Devices : sent'[u] \in {0, sent[u]}
      BY <1>2 DEF Pop
    <2> QED
      BY <2>1, <2>2, <2>3 DEF ScreensEnd
  <1> QED
    BY <1>1, <1>2

(* A step of the screens alone, the end of the app too, keeps OrderInv.    *)
LEMMA EndsOrder ==
  ASSUME TypeOK, TypeOK', OrderInv, UNCHANGED <<server, queue>>,
         \A u \in Devices : sent'[u] \in {0, sent[u]}, TasksEnd, ScreensEnd
  PROVE  OrderInv'
  <1>1. Longer
    BY DEF Longer
  <1> QED
    BY <1>1, GrowOrder DEF TasksEnd, ScreensEnd

LEMMA TrapOrder ==
  ASSUME TypeOK, TypeOK', OrderInv, NEW v \in Devices, Trap(v) \/ Pop(v),
         UNCHANGED <<server, queue>>
  PROVE  OrderInv'
BY TrapEnds, PopEnds, EndsOrder

LEMMA ScreenOrder ==
  ASSUME TypeOK, TypeOK', OrderInv, UNCHANGED <<server, queue, task>>,
         UNCHANGED sent, ScreensEnd
  PROVE  OrderInv'
  <1>1. TasksEnd
    BY DEF TasksEnd
  <1> QED
    BY <1>1, EndsOrder

-----------------------------------------------------------------------------
(* A posting whose add is queued has no Ref and no Image yet.              *)
LEMMA AddedBare ==
  ASSUME TypeOK, OwnInv, AddAlone, NEW d, AddQueued(d)
  PROVE  server[d]["ref"] = Absent /\ server[d]["image"] = Absent
  <1>1. PICK v \in Devices : \E i \in DOMAIN queue[v] :
           queue[v][i].kind = "add" /\ queue[v][i].doc = d
    BY DEF AddQueued
  <1>2. PICK i \in DOMAIN queue[v] :
           queue[v][i].kind = "add" /\ queue[v][i].doc = d
    BY <1>1
  <1> DEFINE w == queue[v][i]
  <1>3. server[d] \in {NoPosting, Apply(NoPosting, w.patch)}
    BY <1>2 DEF AddAlone
  <1>4. PICK form \in Forms : w.patch = AddPatch(form, UserOf[v])
    BY <1>2, QueuedOwn DEF OwnInv, WriteOwn
  <1>5. /\ w.patch["ref"] = Absent /\ w.patch["image"] = Absent
    BY <1>4, AddPatchFields
  <1>6. "ref" \in Fields /\ "image" \in Fields
        /\ DOMAIN NoPosting = Fields
        /\ NoPosting["ref"] = Absent /\ NoPosting["image"] = Absent
    BY DEF Fields, NoPosting, Missing
  <1>7. /\ Apply(NoPosting, w.patch)["ref"] = Absent
        /\ Apply(NoPosting, w.patch)["image"] = Absent
    BY <1>5, <1>6 DEF Apply
  <1> QED
    BY <1>3, <1>6, <1>7

(* Only a Ref merge sets a Ref, only an Image merge an Image.              *)
LEMMA PatchKind ==
  ASSUME NEW v \in Devices, NEW w \in Writes, WriteOwn(v, w, owner, storage)
  PROVE  /\ w.patch["ref"] \notin {Absent, Keep} => w.kind = "ref"
         /\ w.patch["image"] \notin {Absent, Keep} => w.kind = "image"
         /\ w.patch["user"] \notin {Absent, Keep} => w.kind = "add"
  <1>1. w.kind \in Kinds /\ {"user", "ref", "image", "form"} \subseteq Fields
    BY DEF Writes, Fields
  <1>2. CASE w.kind = "add"
    <2>1. PICK form \in Forms : w.patch = AddPatch(form, UserOf[v])
      BY <1>2 DEF WriteOwn
    <2> QED
      BY <1>2, <2>1, AddPatchFields
  <1>3. CASE w.kind = "ref"
    BY <1>1, <1>3, MergeFields DEF WriteOwn
  <1>4. CASE w.kind = "image"
    BY <1>1, <1>4, MergeFields DEF WriteOwn
  <1>5. CASE w.kind = "form"
    <2>1. PICK form \in Forms : w.patch = Merge(Fields, "form", form)
      BY <1>5 DEF WriteOwn
    <2> QED
      BY <1>1, <2>1, MergeFields
  <1>6. CASE w.kind = "delete"
    BY <1>1, <1>6, DeleteFields DEF WriteOwn
  <1> QED
    BY <1>1, <1>2, <1>3, <1>4, <1>5, <1>6 DEF Kinds

(* A posting whose Ref a device reads is nobody's new one, and its Ref is  *)
(* stored or queued there.                                                 *)
LEMMA ReadRef ==
  ASSUME TypeOK, OwnInv, AddAlone, NEW v \in Devices, NEW d \in Docs,
         View(v)[d]["ref"] # Absent
  PROVE  ~AddQueued(d) /\ RefBefore(v, d, Len(queue[v]))
  <1>0. View(v)[d]["ref"] = d /\ d # Keep /\ d # Absent
    BY ViewOwn, ConstantsAssumption
  <1>1. CASE server[d]["ref"] # Absent
    BY <1>1, AddedBare DEF RefBefore
  <1>2. CASE server[d]["ref"] = Absent
    <2>1. PICK i \in DOMAIN queue[v] :
             queue[v][i].doc = d /\ queue[v][i].patch["ref"] = d
      <3>1. "ref" \in Fields
        BY DEF Fields
      <3> QED
        BY <1>0, <1>2, <3>1, ViewSource
    <2>2. queue[v][i].kind = "ref"
      BY <1>0, <2>1, QueuedOwn, PatchKind DEF OwnInv
    <2>3. i \in DOMAIN queue[v] /\ i <= Len(queue[v])
      <3>1. queue[v] \in Seq(Writes)
        BY DEF TypeOK
      <3> QED
        BY <3>1
    <2>4. RefBefore(v, d, Len(queue[v]))
      BY <2>1, <2>2, <2>3 DEF RefBefore
    <2>5. ~AddQueued(d)
      BY <2>1, <2>2 DEF AddQueued, AddAlone
    <2> QED
      BY <2>4, <2>5
  <1> QED
    BY <1>1, <1>2

LEMMA RowsKnown ==
  ASSUME TypeOK, OwnInv, AddAlone, NEW v \in Devices, NEW d \in Refs(v),
         d # Absent
  PROVE  ~AddQueued(d) /\ RefBefore(v, d, Len(queue[v]))
  <1>1. PICK e \in Docs : d = View(v)[e]["ref"]
    BY DEF Refs, Listed
  <1>2. e = d
    BY <1>1, ViewOwn
  <1> QED
    BY <1>1, <1>2, ReadRef

-----------------------------------------------------------------------------
(* Every step keeps OrderInv.                                              *)

LEMMA MergeTypes ==
  ASSUME NEW d \in Docs
  PROVE  /\ Write("ref", d, Merge(Fields, "ref", d)) \in Writes
         /\ Write("image", d, Merge(Fields, "image", d)) \in Writes
         /\ Write("delete", d, Delete(Fields)) \in Writes
         /\ \A form \in Forms :
               Write("form", d, Merge(Fields, "form", form)) \in Writes
  <1>1. /\ Merge(Fields, "ref", d) \in Patches
        /\ Merge(Fields, "image", d) \in Patches
        /\ \A form \in Forms : Merge(Fields, "form", form) \in Patches
    BY DEF Merge, Fields, Values, Content, Patches
  <1>2. Delete(Fields) \in Patches
    BY DEF Delete, Fields, Patches
  <1> QED
    BY <1>1, <1>2 DEF Write, Writes, Kinds

LEMMA Enqueued ==
  ASSUME TypeOK, NEW v \in Devices, NEW w \in Writes, Enqueue(v, w)
  PROVE  /\ Longer
         /\ Len(queue'[v]) = Len(queue[v]) + 1
         /\ Len(queue'[v]) \in DOMAIN queue'[v]
         /\ queue'[v][Len(queue'[v])] = w
         /\ \A u \in Devices : \A i \in DOMAIN queue'[u] :
               i \in DOMAIN queue[u] \/ (u = v /\ queue'[u][i] = w)
  <1>1. queue \in [Devices -> Seq(Writes)] /\ queue[v] \in Seq(Writes)
    BY DEF TypeOK
  <1>2. /\ queue'[v] = Append(queue[v], w)
        /\ \A u \in Devices : u # v => queue'[u] = queue[u]
    BY <1>1 DEF Enqueue
  <1>3. Longer
    BY <1>2 DEF Longer
  <1> DEFINE q == queue[v]
             r == queue'[v]
  <1>4. /\ Len(r) = Len(q) + 1 /\ DOMAIN r = 1..(Len(q) + 1)
        /\ DOMAIN q = 1..Len(q) /\ r[Len(q) + 1] = w /\ Len(q) \in Nat
    BY <1>1, <1>2
  <1> HIDE DEF q, r
  <1>5. Len(r) \in DOMAIN r /\ r[Len(r)] = w
    BY <1>4
  <1>6. \A i \in DOMAIN r : i \in DOMAIN q \/ r[i] = w
    BY <1>4
  <1> QED
    BY <1>2, <1>3, <1>4, <1>5, <1>6 DEF q, r

LEMMA EnqueuedOrder ==
  ASSUME TypeOK, TypeOK', OrderInv, NEW v \in Devices, NEW w \in Writes,
         Enqueue(v, w), UNCHANGED server,
         \A u \in Devices : sent'[u] \in {0, sent[u]},
         w.kind # "add", ~AddQueued(w.doc),
         w.kind = "ref" \/ RefBefore(v, w.doc, Len(queue[v])),
         \A t \in Tasks :
            \/ task'[t] = NoTask
            \/ /\ task'[t].stage = task[t].stage
               /\ task'[t].doc = task[t].doc /\ task'[t].dev = task[t].dev
            \/ /\ ~AddQueued(task'[t].doc)
               /\ task'[t].stage \in {"put", "url"} =>
                    RefAfter(task'[t].dev, task'[t].doc,
                             Len(queue'[task'[t].dev])),
         ScreensEnd
  PROVE  OrderInv'
  <1>1. Longer /\ \A u \in Devices : \A i \in DOMAIN queue'[u] :
               i \in DOMAIN queue[u] \/ (u = v /\ queue'[u][i] = w)
    BY Enqueued
  <1>2. \A u \in Devices : \A i \in DOMAIN queue'[u] :
            \/ i \in DOMAIN queue[u]
            \/ /\ queue'[u][i].kind # "add" /\ ~AddQueued(queue'[u][i].doc)
               /\ \/ queue'[u][i].kind = "ref"
                  \/ RefBefore(u, queue'[u][i].doc, Len(queue[u]))
    BY <1>1
  <1> QED
    BY <1>1, <1>2, GrowOrder DEF ScreensEnd

(* What a device's screens or its chains hold is known to it.              *)
LEMMA Known ==
  ASSUME TypeOK, OrderInv, NEW v \in Devices, NEW d,
         \/ d \in OnScreen(v)
         \/ \E t \in Tasks : /\ task[t].stage \in {"put", "url"}
                             /\ task[t].doc = d /\ task[t].dev = v
  PROVE  ~AddQueued(d) /\ RefBefore(v, d, Len(queue[v]))
  <1>1. ~AddQueued(d)
    BY AddIsAlone DEF OrderInv
  <1>2. RefBefore(v, d, Len(queue[v]))
    BY DEF OrderInv, RefFirst
  <1> QED
    BY <1>1, <1>2

LEMMA ReadOrder ==
  ASSUME TypeOK, TypeOK', OwnInv, OrderInv, NEW v \in Devices, ReadStep(v)
  PROVE  OrderInv'
  <1>1. CASE Trap(v)
    BY <1>1, ReadShows, TrapOrder
  <1>2. CASE ~Trap(v)
    <2>1. Longer
      BY ReadShows DEF Longer
    <2>2. \A u \in Devices : \A d \in OnScreen(u)' :
             \/ d \in OnScreen(u)
             \/ ~AddQueued(d) /\ RefBefore(u, d, Len(queue[u]))
      BY <1>2, ReadShows, RowsKnown DEF OrderInv
    <2>3. UNCHANGED <<server, queue, task, sent>>
      BY <1>2, ReadShows
    <2> QED
      BY <2>1, <2>2, <2>3, GrowOrder
  <1> QED
    BY <1>1, <1>2

LEMMA ConfirmDeleteOrder ==
  ASSUME TypeOK, TypeOK', OrderInv, OwnInv, NEW v \in Devices,
         ConfirmDelete(v)
  PROVE  OrderInv'
  <1> DEFINE d == ui[v].docPath
             del == Write("delete", d, Delete(Fields))
  <1>1. CASE d = Absent
    BY <1>1, TrapOrder DEF ConfirmDelete
  <1>2. CASE d # Absent
    <2>1. d \in OnScreen(v) /\ d \in Docs
      BY <1>2 DEF OnScreen, OwnInv, ScreensOwn
    <2>2. ~AddQueued(d) /\ RefBefore(v, d, Len(queue[v]))
      BY <2>1, Known
    <2>3. del \in Writes
      BY <2>1, MergeTypes
    <2>4. Enqueue(v, del) /\ UNCHANGED <<server, task, sent>>
          /\ ui' = [ui EXCEPT ![v].alert = "deleted"]
      BY <1>2 DEF ConfirmDelete
    <2>5. del.kind = "delete" /\ del.doc = d
      BY DEF Write
    <2>6. ScreensEnd
      BY <2>4, AlertShows DEF ScreensEnd
    <2> HIDE DEF del, d
    <2> QED
      BY <2>2, <2>3, <2>4, <2>5, <2>6, EnqueuedOrder
  <1> QED
    BY <1>1, <1>2

LEMMA updateButtonOrder ==
  ASSUME TypeOK, TypeOK', OrderInv, OwnInv, NEW v \in Devices,
         NEW form \in Forms, NEW t \in Tasks, updateButton(v, form, t)
  PROVE  OrderInv'
  <1> DEFINE d == ui[v].docPath
             edit == Write("form", d, Merge(Fields, "form", form))
             next == [stage |-> "put", dev |-> v, doc |-> d, vc |-> "update"]
  <1>0. UNCHANGED server
    BY DEF updateButton
  <1>1. CASE Trap(v) /\ UNCHANGED queue
    BY <1>0, <1>1, TrapOrder
  <1>2. d # Absent => d \in OnScreen(v) /\ d \in Docs
    BY DEF OnScreen, OwnInv, ScreensOwn
  <1>3. d # Absent => ~AddQueued(d) /\ RefBefore(v, d, Len(queue[v]))
    BY <1>2, Known
  <1>4. d # Absent => edit \in Writes
    BY <1>2, MergeTypes
  <1>5. edit.kind = "form" /\ edit.doc = d
    BY DEF Write
  <1>6. CASE d # Absent /\ Enqueue(v, edit) /\ Trap(v)
    <2>1. TasksEnd /\ ScreensEnd /\ \A u \in Devices : sent'[u] \in {0, sent[u]}
      BY <1>6, TrapEnds
    <2> HIDE DEF edit, d
    <2> QED
      BY <1>0, <1>3, <1>4, <1>5, <1>6, <2>1, EnqueuedOrder DEF TasksEnd
  <1>7. CASE /\ d # Absent /\ Enqueue(v, edit)
             /\ uploadImage(t, next) /\ UNCHANGED <<ui, sent>>
    <2>1. ScreensEnd
      BY <1>7 DEF ScreensEnd, OnScreen
    <2>2. RefAfter(v, d, Len(queue'[v]))
      <3> HIDE DEF edit, d
      <3> QED
        BY <1>0, <1>3, <1>4, <1>7, Enqueued, LongerElements, RefGrows
    <2>3. ASSUME NEW s \in Tasks
          PROVE  \/ task'[s] = NoTask
                 \/ task'[s] = task[s]
                 \/ task'[s].doc = d /\ task'[s].dev = v
      <3>1. [next EXCEPT !.stage = "put"] = next
        OBVIOUS
      <3> HIDE DEF next
      <3>2. \/ task'[s] = NoTask \/ task'[s] = task[s] \/ task'[s] = next
        BY <1>7, <3>1 DEF uploadImage, TypeOK
      <3> QED
        BY <3>2 DEF next
    <2> HIDE DEF edit, d, next
    <2>4. \A s \in Tasks :
            \/ task'[s] = NoTask
            \/ /\ task'[s].stage = task[s].stage
               /\ task'[s].doc = task[s].doc /\ task'[s].dev = task[s].dev
            \/ /\ ~AddQueued(task'[s].doc)
               /\ task'[s].stage \in {"put", "url"} =>
                    RefAfter(task'[s].dev, task'[s].doc,
                             Len(queue'[task'[s].dev]))
      BY <1>3, <1>7, <2>2, <2>3
    <2> QED
      BY <1>0, <1>3, <1>4, <1>5, <1>7, <2>1, <2>4, EnqueuedOrder
  <1> QED
    BY <1>1, <1>6, <1>7 DEF updateButton

(* A chain that waits for the Storage has its posting's Ref queued.        *)
LEMMA TaskStepOrder ==
  ASSUME TypeOK, TypeOK', OwnInv, OrderInv, NEW t \in Tasks, TaskStep(t)
  PROVE  OrderInv'
  <1> DEFINE v == task[t].dev
             d == task[t].doc
  <1>1. task[t] \in ActiveTasks /\ task[t] # NoTask
    BY DEF TypeOK, TaskStep, AddCompleted, PutCompleted, PutFailed,
           UrlCompleted, UrlFailed, NoTask
  <1>2. v \in Devices /\ d \in Docs
    BY <1>1 DEF ActiveTasks
  <1>3. task[t].stage # "add" => ~AddQueued(d)
    BY AddIsAlone DEF OrderInv
  <1>4. task[t].stage \in {"put", "url"} => RefBefore(v, d, Len(queue[v]))
    BY DEF OrderInv, RefFirst
  <1>5. CASE AddCompleted(t)
    <2> DEFINE w == Write("ref", d, Merge(Fields, "ref", d))
    <2>1. Enqueue(v, w) /\ w \in Writes /\ UNCHANGED <<server, sent, ui>>
      BY <1>2, <1>5, MergeTypes DEF AddCompleted
    <2>2. w.kind = "ref" /\ w.doc = d /\ task[t].stage = "acked"
      BY <1>5 DEF Write, AddCompleted
    <2>3. RefAfter(v, d, Len(queue'[v]))
      <3> HIDE DEF w, v, d
      <3>1. /\ Len(queue'[v]) \in DOMAIN queue'[v]
            /\ queue'[v][Len(queue'[v])] = w
        BY <1>2, <2>1, Enqueued
      <3>2. Len(queue'[v]) \in Nat
        BY <1>2, <2>1, Enqueued, LongerElements
      <3> QED
        BY <2>2, <3>1, <3>2 DEF RefAfter
    <2>4. ASSUME NEW s \in Tasks
          PROVE  \/ task'[s] = NoTask
                 \/ task'[s] = task[s]
                 \/ task'[s].doc = d /\ task'[s].dev = v
      <3>1. CASE s # t
        BY <1>5, <3>1 DEF AddCompleted, uploadImage, TypeOK
      <3>2. CASE s = t
        <4>1. \/ task'[t] = NoTask
              \/ task'[t] = [task[t] EXCEPT !.stage = "put"]
          BY <1>5 DEF AddCompleted, uploadImage, TypeOK
        <4> QED
          BY <1>1, <3>2, <4>1 DEF ActiveTasks
      <3> QED
        BY <3>1, <3>2
    <2>5. ScreensEnd
      BY <2>1 DEF ScreensEnd, OnScreen
    <2> HIDE DEF w, v, d
    <2>6. \A s \in Tasks :
            \/ task'[s] = NoTask
            \/ /\ task'[s].stage = task[s].stage
               /\ task'[s].doc = task[s].doc /\ task'[s].dev = task[s].dev
            \/ /\ ~AddQueued(task'[s].doc)
               /\ task'[s].stage \in {"put", "url"} =>
                    RefAfter(task'[s].dev, task'[s].doc,
                             Len(queue'[task'[s].dev]))
      BY <1>3, <2>2, <2>3, <2>4
    <2> QED
      BY <1>2, <1>3, <2>1, <2>2, <2>5, <2>6, EnqueuedOrder
  <1>6. CASE PutCompleted(t) \/ PutFailed(t)
    <2>1. UNCHANGED <<server, queue, sent, ui>> /\ task[t].stage = "put"
      BY <1>6 DEF PutCompleted, PutFailed
    <2>2. Longer
      BY <2>1 DEF Longer
    <2>3. RefAfter(v, d, Len(queue'[v]))
      <3> HIDE DEF v, d
      <3> QED
        BY <1>2, <1>4, <2>1, <2>2, LongerElements, RefGrows
    <2>4. ASSUME NEW s \in Tasks
          PROVE  \/ task'[s] = NoTask
                 \/ task'[s] = task[s]
                 \/ task'[s].doc = d /\ task'[s].dev = v
      <3>1. CASE s # t
        BY <1>6, <3>1 DEF PutCompleted, PutFailed, TypeOK
      <3>2. CASE s = t
        <4>1. \/ task'[t] = NoTask
              \/ task'[t] = [task[t] EXCEPT !.stage = "url"]
          BY <1>6 DEF PutCompleted, PutFailed, TypeOK
        <4> QED
          BY <1>1, <3>2, <4>1 DEF ActiveTasks
      <3> QED
        BY <3>1, <3>2
    <2> HIDE DEF v, d
    <2>5. \A s \in Tasks :
            \/ task'[s] = NoTask
            \/ /\ task'[s].stage = task[s].stage
               /\ task'[s].doc = task[s].doc /\ task'[s].dev = task[s].dev
            \/ /\ ~AddQueued(task'[s].doc)
               /\ task'[s].stage \in {"put", "url"} =>
                    RefAfter(task'[s].dev, task'[s].doc,
                             Len(queue'[task'[s].dev]))
      BY <1>3, <2>1, <2>3, <2>4
    <2> QED
      BY <2>1, <2>2, <2>5, GrowOrder DEF OnScreen
  <1>7. CASE UrlCompleted(t)
    <2> DEFINE w == Write("image", d, Merge(Fields, "image", d))
    <2>1. Enqueue(v, w) /\ w \in Writes /\ UNCHANGED <<server, sent>>
      BY <1>2, <1>7, MergeTypes DEF UrlCompleted
    <2>2. w.kind = "image" /\ w.doc = d /\ task[t].stage = "url"
      BY <1>7 DEF Write, UrlCompleted
    <2>3. \A s \in Tasks : task'[s] = NoTask \/ task'[s] = task[s]
      BY <1>7 DEF UrlCompleted, TypeOK
    <2>4. ScreensEnd
      <3>1. \A u \in Devices : ui[u] \in UIs
        BY DEF TypeOK
      <3> QED
        BY <1>7, <3>1 DEF UrlCompleted, OnScreen, TypeOK, UIs, ScreensEnd
    <2> HIDE DEF w, v, d
    <2> QED
      BY <1>2, <1>3, <1>4, <2>1, <2>2, <2>3, <2>4, EnqueuedOrder
  <1>8. CASE UrlFailed(t)
    BY <1>2, <1>8, TrapOrder DEF UrlFailed
  <1> QED
    BY <1>5, <1>6, <1>7, <1>8 DEF TaskStep

(* A new id is nobody's: no write, chain or screen is about it.            *)
LEMMA uploadButtonOrder ==
  ASSUME TypeOK, TypeOK', OwnInv, OrderInv, NEW v \in Devices,
         NEW d \in Docs, NEW form \in Forms, NEW t \in Tasks,
         uploadButton(v, d, form, t)
  PROVE  OrderInv'
  <1> DEFINE w == Write("add", d, AddPatch(form, UserOf[v]))
             new == [stage |-> "add", dev |-> v, doc |-> d, vc |-> "upload"]
  <1>1. /\ Enqueue(v, w) /\ UNCHANGED <<server, sent, ui>>
        /\ owner[d] = Absent /\ task' = [task EXCEPT ![t] = new]
    BY DEF uploadButton
  <1>2. w \in Writes /\ w.kind = "add" /\ w.doc = d
    BY UserReal, WriteTypes DEF Write
  <1>3. /\ server[d] = NoPosting
        /\ \A u \in Devices : \A i \in DOMAIN queue[u] : queue[u][i].doc # d
        /\ \A s \in Tasks : task[s].doc # d
        /\ \A u \in Devices : d \notin OnScreen(u)
    <2>1. server[d] = NoPosting
      BY <1>1 DEF OwnInv, FieldsOwn
    <2>2. \A u \in Devices : \A i \in DOMAIN queue[u] : queue[u][i].doc # d
      BY <1>1, UserReal DEF OwnInv, QueuesOwn, WriteOwn
    <2>3. ASSUME NEW s \in Tasks PROVE task[s].doc # d
      <3>1. CASE task[s] = NoTask
        BY <3>1, ConstantsAssumption DEF NoTask
      <3>2. CASE task[s] # NoTask
        <4>1. task[s].dev \in Devices
          BY <3>2 DEF TypeOK, ActiveTasks
        <4>2. owner[task[s].doc] = UserOf[task[s].dev]
          BY <3>2 DEF OwnInv, TasksOwn
        <4> QED
          BY <1>1, <4>1, <4>2, UserReal
      <3> QED
        BY <3>1, <3>2
    <2>4. \A u \in Devices : d \notin OnScreen(u)
      BY <1>1, UserReal DEF OwnInv, ScreensOwn
    <2> QED
      BY <2>1, <2>2, <2>3, <2>4
  <1> HIDE DEF w
  <1>4. Longer /\ \A u \in Devices : \A i \in DOMAIN queue'[u] :
               i \in DOMAIN queue[u] \/ (u = v /\ queue'[u][i] = w)
    BY <1>1, <1>2, Enqueued
  <1>5. \A s \in Tasks : task'[s] = IF s = t THEN new ELSE task[s]
    BY <1>1 DEF TypeOK
  <1>6. new.stage = "add" /\ new.doc = d
    OBVIOUS
  <1>7. \A u \in Devices : OnScreen(u)' = OnScreen(u)
    BY <1>1 DEF OnScreen
  <1> HIDE DEF new
  <1>8. SentApplied'
    BY <1>1, <1>4, SentGrows DEF OrderInv
  <1>9. RefFirst'
    <2>1. \A u \in Devices : \A i \in DOMAIN queue'[u] :
             \/ i \in DOMAIN queue[u]
             \/ queue'[u][i].kind \in {"add", "ref"}
             \/ RefBefore(u, queue'[u][i].doc, Len(queue[u]))
      BY <1>2, <1>4
    <2>2. \A s \in Tasks : task'[s].stage \in {"put", "url"} =>
             /\ task[s].stage \in {"put", "url"}
             /\ task'[s].doc = task[s].doc /\ task'[s].dev = task[s].dev
      BY <1>5, <1>6
    <2> QED
      BY <1>1, <1>4, <1>7, <2>1, <2>2, RefFirstGrows DEF OrderInv
  <1>10. AddAlone'
    <2> SUFFICES ASSUME NEW u \in Devices, NEW i \in DOMAIN queue'[u],
                        queue'[u][i].kind = "add"
                 PROVE  LET x == queue'[u][i]
                        IN  /\ server[x.doc] \in
                                  {NoPosting, Apply(NoPosting, x.patch)}
                            /\ \A y \in Devices : \A j \in DOMAIN queue'[y] :
                                  queue'[y][j].doc = x.doc => y = u /\ j = i
                            /\ \A s \in Tasks :
                                  task'[s].doc = x.doc => task'[s].stage = "add"
                            /\ \A y \in Devices : x.doc \notin OnScreen(y)
      BY <1>1, <1>7 DEF AddAlone
    <2> DEFINE x == queue'[u][i]
    <2>1. \A y \in Devices : \A j \in DOMAIN queue[y] :
             queue'[y][j] = queue[y][j]
      BY <1>4, LongerElements
    <2>2. CASE i \in DOMAIN queue[u]
      <3>1. queue[u][i] = x
        BY <2>1, <2>2
      <3>2. x.doc # d
        BY <1>3, <2>2, <3>1
      <3>3. /\ server[x.doc] \in {NoPosting, Apply(NoPosting, x.patch)}
            /\ \A y \in Devices : \A j \in DOMAIN queue[y] :
                  queue[y][j].doc = x.doc => y = u /\ j = i
            /\ \A s \in Tasks : task[s].doc = x.doc => task[s].stage = "add"
            /\ \A y \in Devices : x.doc \notin OnScreen(y)
        BY <2>2, <3>1 DEF OrderInv, AddAlone
      <3>4. ASSUME NEW y \in Devices, NEW j \in DOMAIN queue'[y],
                   queue'[y][j].doc = x.doc
            PROVE  y = u /\ j = i
        <4>1. j \in DOMAIN queue[y]
          BY <1>2, <1>4, <3>2, <3>4
        <4> QED
          BY <2>1, <3>3, <3>4, <4>1
      <3>5. \A s \in Tasks : task'[s].doc = x.doc => task'[s].stage = "add"
        BY <1>5, <1>6, <3>3
      <3> QED
        BY <3>3, <3>4, <3>5
    <2>3. CASE i \notin DOMAIN queue[u]
      <3>1. u = v /\ x = w /\ i = Len(queue'[v])
        BY <1>4, <2>3, LongerElements
      <3>2. ASSUME NEW y \in Devices, NEW j \in DOMAIN queue'[y],
                   queue'[y][j].doc = d
            PROVE  y = u /\ j = i
        <4>1. j \notin DOMAIN queue[y]
          BY <1>3, <2>1, <3>2
        <4> QED
          BY <1>4, <3>1, <4>1, LongerElements
      <3>3. \A s \in Tasks : task'[s].doc = d => task'[s].stage = "add"
        BY <1>3, <1>5, <1>6
      <3> QED
        BY <1>2, <1>3, <3>1, <3>2, <3>3
    <2> QED
      BY <2>2, <2>3
  <1> QED
    BY <1>8, <1>9, <1>10 DEF OrderInv

LEMMA UserOrder ==
  ASSUME TypeOK, TypeOK', OwnInv, OrderInv, NEW v \in Devices, UserStep(v)
  PROVE  OrderInv'
  <1>1. CASE Back(v)
    BY <1>1, TrapOrder DEF Back
  <1>2. CASE AlertOk(v)
    <2>1. CASE Pop(v)
      BY <1>2, <2>1, TrapOrder DEF AlertOk
    <2>2. CASE ui[v].alert = "invalid"
      <3>1. ScreensEnd
        BY <1>2, <2>2, AlertShows DEF AlertOk, ScreensEnd
      <3> QED
        BY <1>2, <2>2, <3>1, ScreenOrder DEF AlertOk
    <2> QED
      BY <1>2, <2>1, <2>2 DEF AlertOk
  <1>3. CASE ShowStep(v)
    BY <1>3, ShowStepShows, ScreenOrder DEF ScreensEnd
  <1> QED
    BY <1>1, <1>2, <1>3, uploadButtonOrder, updateButtonOrder,
       ConfirmDeleteOrder DEF UserStep, ShowStep

-----------------------------------------------------------------------------
(* What each kind of write makes of its posting.                           *)
LEMMA Written ==
  ASSUME TypeOK, NEW v \in Devices, NEW w \in Writes,
         WriteOwn(v, w, owner, storage)
  PROVE  LET d == w.doc
             new == Apply(server[d], w.patch)
         IN  /\ w.kind = "add" => new = w.patch
             /\ w.kind = "ref" => new = [server[d] EXCEPT !["ref"] = d]
             /\ w.kind = "image" => new = [server[d] EXCEPT !["image"] = d]
             /\ w.kind = "form" => \E form \in Forms :
                                     new = [server[d] EXCEPT !["form"] = form]
             /\ w.kind = "delete" => new = NoPosting
  <1> DEFINE d == w.doc
             old == server[d]
             new == Apply(old, w.patch)
  <1>1. d \in Docs /\ old \in [Fields -> Values \cup {Absent}]
    BY DEF Writes, TypeOK, Posting
  <1>2. {d, Absent} \cap {Keep} = {} /\ Keep \notin Forms /\ Keep \notin Users
    BY <1>1, MarkersDiffer, ConstantsAssumption
  <1> HIDE DEF d, old
  <1>3. new = [f \in Fields |-> IF w.patch[f] = Keep THEN old[f]
                                                     ELSE w.patch[f]]
    BY <1>1 DEF Apply
  <1>4. ASSUME NEW f \in Fields, NEW x, x # Keep, w.patch = Merge(Fields, f, x)
        PROVE  new = [old EXCEPT ![f] = x]
    BY <1>1, <1>3, <1>4 DEF Merge
  <1>5. {"ref", "image", "form"} \subseteq Fields
    BY DEF Fields
  <1>6. CASE w.kind = "add"
    <2>1. PICK form \in Forms : w.patch = AddPatch(form, UserOf[v])
      BY <1>6 DEF WriteOwn
    <2>2. Keep \notin {form, UserOf[v], Absent}
      BY <1>2, UserReal
    <2>3. w.patch \in [Fields -> {form, UserOf[v], Absent}]
      BY <2>1, AddPatchFields
    <2>4. new = w.patch
      BY <1>3, <2>2, <2>3
    <2> QED
      BY <1>6, <2>4 DEF d, old
  <1>7. CASE w.kind = "ref"
    <2>1. new = [old EXCEPT !["ref"] = d]
      BY <1>2, <1>4, <1>5, <1>7 DEF WriteOwn, d
    <2> QED
      BY <1>7, <2>1 DEF d, old
  <1>8. CASE w.kind = "image"
    <2>1. new = [old EXCEPT !["image"] = d]
      BY <1>2, <1>4, <1>5, <1>8 DEF WriteOwn, d
    <2> QED
      BY <1>8, <2>1 DEF d, old
  <1>9. CASE w.kind = "form"
    <2>1. PICK form \in Forms : w.patch = Merge(Fields, "form", form)
      BY <1>9 DEF WriteOwn
    <2>2. new = [old EXCEPT !["form"] = form]
      BY <1>2, <1>4, <1>5, <2>1
    <2> QED
      BY <1>9, <2>2 DEF d, old
  <1>10. CASE w.kind = "delete"
    <2>1. new = NoPosting
      BY <1>2, <1>3, <1>10 DEF WriteOwn, Delete, NoPosting, Missing
    <2> QED
      BY <1>10, <2>1 DEF d, old
  <1>11. w.kind \in Kinds
    BY DEF Writes
  <1> QED
    BY <1>6, <1>7, <1>8, <1>9, <1>10, <1>11 DEF Kinds

(* An add that is applied once more, after a restart, changes nothing: it  *)
(* writes every field.                                                     *)
LEMMA AddTwice ==
  ASSUME TypeOK, OwnInv, NEW v \in Devices, NEW i \in DOMAIN queue[v],
         queue[v][i].kind = "add", NEW x \in Posting
  PROVE  Apply(x, queue[v][i].patch) = Apply(NoPosting, queue[v][i].patch)
  <1> DEFINE w == queue[v][i]
  <1>1. w \in Writes /\ WriteOwn(v, w, owner, storage)
    BY QueuedOwn DEF OwnInv
  <1>2. PICK form \in Forms : w.patch = AddPatch(form, UserOf[v])
    BY <1>1 DEF WriteOwn
  <1>3. \A f \in Fields : w.patch[f] # Keep
    BY <1>2, UserReal, AddPatchFields, MarkersDiffer, ConstantsAssumption
  <1>4. DOMAIN x = Fields /\ DOMAIN NoPosting = Fields
    BY DEF Posting, NoPosting, Missing
  <1> QED
    BY <1>3, <1>4 DEF Apply

LEMMA WriteAppliedOrder ==
  ASSUME TypeOK, OwnInv, OrderInv, NEW v \in Devices, WriteApplied(v)
  PROVE  OrderInv'
  <1> DEFINE n == sent[v]
             w == queue[v][n + 1]
             e == w.doc
  <1>1. n + 1 \in DOMAIN queue[v] /\ w \in Writes
        /\ WriteOwn(v, w, owner, storage)
    BY NextWriteType, QueuedOwn DEF OwnInv
  <1>2. e \in Docs /\ n \in Nat /\ server \in [Docs -> Posting]
        /\ w.kind \in Kinds /\ e # Absent
    BY <1>1, ConstantsAssumption DEF Writes, TypeOK
  <1>3. /\ server' = [server EXCEPT ![e] = Apply(server[e], w.patch)]
        /\ UNCHANGED <<queue, task, ui>>
        /\ sent' = [sent EXCEPT ![v] = n + 1]
    BY DEF WriteApplied, Commit
  <1>4. /\ server'[e] = Apply(server[e], w.patch)
        /\ \A d \in Docs : d # e => server'[d] = server[d]
    BY <1>2, <1>3
  <1>5. ASSUME NEW u \in Devices, NEW d \in Docs, NEW k, ~AddQueued(d),
               RefBefore(u, d, k)
        PROVE  RefAfter(u, d, k)
    <2>1. CASE \E i \in DOMAIN queue[u] :
                  i <= k /\ queue[u][i].kind = "ref" /\ queue[u][i].doc = d
      BY <1>3, <2>1 DEF RefAfter
    <2>2. CASE d # e
      BY <1>3, <1>4, <1>5, <2>2 DEF RefBefore, RefAfter
    <2>3. CASE d = e /\ (server[d]["user"] = Absent \/ server[d]["ref"] # Absent)
      <3>1. w.kind # "add"
        BY <1>1, <1>5, <2>3 DEF AddQueued
      <3>2. server[d] \in [Fields -> Values \cup {Absent}]
        BY <1>2, <2>3 DEF Posting
      <3>3. /\ w.kind = "ref" => server'[e] = [server[e] EXCEPT !["ref"] = e]
            /\ w.kind = "image" =>
                  server'[e] = [server[e] EXCEPT !["image"] = e]
            /\ w.kind = "form" => \E form \in Forms :
                  server'[e] = [server[e] EXCEPT !["form"] = form]
            /\ w.kind = "delete" => server'[e] = NoPosting
        <4> HIDE DEF w
        <4> QED BY <1>1, <1>4, Written
      <3> DEFINE old == server[e]
                 new == server'[e]
      <3> HIDE DEF old, new, w, e
      <3>4. new["user"] = Absent \/ new["ref"] # Absent
        <4>1. CASE w.kind = "ref"
          BY <1>2, <2>3, <3>2, <3>3, <4>1 DEF Fields, old, new
        <4>2. CASE w.kind = "image"
          BY <1>2, <2>3, <3>2, <3>3, <4>2 DEF Fields, old, new
        <4>3. CASE w.kind = "form"
          BY <1>2, <2>3, <3>2, <3>3, <4>3 DEF Fields, old, new
        <4>4. CASE w.kind = "delete"
          BY <3>3, <4>4 DEF Fields, NoPosting, Missing, new
        <4> QED
          BY <1>2, <3>1, <4>1, <4>2, <4>3, <4>4 DEF Kinds
      <3> QED
        BY <2>3, <3>4 DEF RefAfter, new
    <2> QED
      BY <1>5, <2>1, <2>2, <2>3 DEF RefBefore
  <1>6. ASSUME NEW u \in Devices, NEW i \in DOMAIN queue[u],
               queue[u][i].kind # "add"
        PROVE  queue[u][i].doc \in Docs /\ ~AddQueued(queue[u][i].doc)
    <2>1. queue[u] \in Seq(Writes)
      BY DEF TypeOK
    <2>2. queue[u][i] \in Writes
      BY <2>1
    <2> QED
      BY <1>6, <2>2 DEF AddQueued, OrderInv, AddAlone, Writes
  <1>7. AddAlone'
    <2> SUFFICES ASSUME NEW u \in Devices, NEW i \in DOMAIN queue[u],
                        queue[u][i].kind = "add"
                 PROVE  server'[queue[u][i].doc] \in
                           {NoPosting, Apply(NoPosting, queue[u][i].patch)}
      BY <1>3 DEF AddAlone, OnScreen, OrderInv
    <2> DEFINE x == queue[u][i]
    <2>1. x \in Writes
      BY QueuedOwn DEF OwnInv
    <2>2. server[x.doc] \in {NoPosting, Apply(NoPosting, x.patch)}
          /\ \A y \in Devices : \A j \in DOMAIN queue[y] :
                queue[y][j].doc = x.doc => y = u /\ j = i
      BY DEF OrderInv, AddAlone
    <2>3. CASE x.doc # e
      BY <1>4, <2>1, <2>2, <2>3 DEF Writes
    <2>4. CASE x.doc = e
      <3>1. u = v /\ i = n + 1
        BY <1>1, <2>2, <2>4
      <3>2. server'[e] = Apply(NoPosting, x.patch)
        BY <1>1, <1>2, <1>4, <3>1, AddTwice
      <3> QED
        BY <2>4, <3>2
    <2> QED
      BY <2>3, <2>4
  <1>8. RefFirst'
    <2>0. queue' = queue /\ task' = task
          /\ \A u \in Devices : OnScreen(u)' = OnScreen(u)
      BY <1>3 DEF OnScreen
    <2>1. ASSUME NEW u \in Devices, NEW i \in DOMAIN queue'[u],
                 queue'[u][i].kind \in {"image", "form", "delete"}
          PROVE  RefAfter(u, queue'[u][i].doc, i)
      BY <1>5, <1>6, <2>0, <2>1 DEF OrderInv, RefFirst
    <2>2. ASSUME NEW t \in Tasks, task'[t].stage \in {"put", "url"}
          PROVE  RefAfter(task'[t].dev, task'[t].doc,
                          Len(queue'[task'[t].dev]))
      <3>0. task[t] \in ActiveTasks \cup {NoTask} /\ task'[t] = task[t]
        BY <2>0 DEF TypeOK
      <3>1. task[t].dev \in Devices /\ task[t].doc \in Docs
        BY <2>2, <3>0 DEF ActiveTasks, NoTask
      <3>2. ~AddQueued(task[t].doc)
        BY <2>0, <2>2, AddIsAlone DEF OrderInv
      <3>3. RefBefore(task[t].dev, task[t].doc, Len(queue[task[t].dev]))
        BY <2>0, <2>2 DEF OrderInv, RefFirst
      <3>4. RefAfter(task[t].dev, task[t].doc, Len(queue[task[t].dev]))
        BY <1>5, <3>1, <3>2, <3>3
      <3> QED
        BY <2>0, <3>4
    <2>3. ASSUME NEW u \in Devices, NEW d \in OnScreen(u)'
          PROVE  RefAfter(u, d, Len(queue'[u]))
      <3>1. d \in Docs /\ d \in OnScreen(u)
        BY <2>0 DEF OwnInv, ScreensOwn
      <3> QED
        BY <1>5, <2>0, <3>1, Known
    <2> QED
      BY <2>1, <2>2, <2>3 DEF RefFirst, RefAfter, RefBefore
  <1>9. SentApplied'
    <2> SUFFICES ASSUME NEW u \in Devices
                 PROVE  /\ sent'[u] <= Len(queue[u])
                        /\ \A i \in 1..sent'[u] : queue[u][i].kind = "ref" =>
                              RefAfter(u, queue[u][i].doc, 0)
      BY <1>3 DEF SentApplied, RefAfter, RefBefore
    <2>1. /\ sent[u] \in Nat /\ sent[u] <= Len(queue[u])
          /\ \A i \in 1..sent[u] : queue[u][i].kind = "ref" =>
                              RefBefore(u, queue[u][i].doc, 0)
      BY DEF TypeOK, OrderInv, SentApplied
    <2>2. DOMAIN queue[u] = 1..Len(queue[u]) /\ Len(queue[u]) \in Nat
      BY DEF TypeOK
    <2>3. ASSUME NEW i \in 1..sent[u], queue[u][i].kind = "ref"
          PROVE  RefAfter(u, queue[u][i].doc, 0)
      <3>1. i \in DOMAIN queue[u]
        BY <2>1, <2>2
      <3> QED
        BY <1>5, <1>6, <2>1, <2>3, <3>1
    <2>4. CASE u # v
      BY <1>3, <2>1, <2>3, <2>4 DEF TypeOK
    <2>5. CASE u = v
      <3>1. sent'[v] = n + 1 /\ n + 1 <= Len(queue[v])
        BY <1>1, <1>3, <2>2, <2>5 DEF TypeOK
      <3>2. w.kind = "ref" => RefAfter(v, e, 0)
        <4> SUFFICES ASSUME w.kind = "ref" PROVE server'[e]["ref"] # Absent
          BY DEF RefAfter
        <4>1. server'[e] = [server[e] EXCEPT !["ref"] = e]
          BY <1>1, <1>4, Written
        <4>2. server[e] \in [Fields -> Values \cup {Absent}] /\ "ref" \in Fields
          BY <1>2 DEF Posting, Fields
        <4> QED
          BY <1>2, <4>1, <4>2
      <3>3. \A i \in 1..(n + 1) : i \in 1..n \/ i = n + 1
        BY <1>2
      <3> QED
        BY <2>3, <2>5, <3>1, <3>2, <3>3
    <2> QED
      BY <2>4, <2>5
  <1> QED
    BY <1>7, <1>8, <1>9 DEF OrderInv

(* The oldest write leaves the queue: if it was a Ref, it is stored.       *)
LEMMA TailRef ==
  ASSUME TypeOK, UNCHANGED server, NEW v \in Devices, queue[v] # <<>>,
         queue' = [queue EXCEPT ![v] = Tail(@)],
         queue[v][1].kind = "ref" => RefBefore(v, queue[v][1].doc, 0),
         NEW u \in Devices, NEW d, NEW k \in Nat, NEW m \in Nat,
         RefBefore(u, d, k), (IF u = v THEN k <= m + 1 ELSE k <= m)
  PROVE  RefAfter(u, d, m)
  <1>1. queue[v] \in Seq(Writes) /\ queue \in [Devices -> Seq(Writes)]
    BY DEF TypeOK
  <1>2. CASE server[d]["user"] = Absent \/ server[d]["ref"] # Absent
    BY <1>2 DEF RefAfter
  <1>3. ASSUME NEW i \in DOMAIN queue[u], i <= k, queue[u][i].kind = "ref",
               queue[u][i].doc = d
        PROVE  RefAfter(u, d, m)
    <2>1. CASE u # v
      <3>1. queue'[u] = queue[u] /\ i \in Nat
        BY <1>1, <2>1
      <3> QED
        BY <1>3, <2>1, <3>1 DEF RefAfter
    <2>2. CASE u = v /\ i = 1
      <3>1. server[d]["user"] = Absent \/ server[d]["ref"] # Absent
        BY <1>1, <1>3, <2>2 DEF RefBefore
      <3> QED
        BY <3>1 DEF RefAfter
    <2>3. CASE u = v /\ i # 1
      <3> DEFINE r == queue'[v]
                 q == queue[v]
      <3>1. r = Tail(q) /\ q \in Seq(Writes) /\ i \in 1..Len(q)
        BY <1>1, <2>3
      <3> HIDE DEF r, q
      <3>2. i - 1 \in DOMAIN r /\ r[i - 1] = q[i] /\ i - 1 <= m
        BY <1>3, <2>3, <3>1
      <3> QED
        BY <1>3, <2>3, <3>2 DEF RefAfter, r, q
    <2> QED
      BY <2>1, <2>2, <2>3
  <1> QED
    BY <1>2, <1>3 DEF RefBefore

LEMMA TailOrder ==
  ASSUME TypeOK, OwnInv, OrderInv, NEW v \in Devices, queue[v] # <<>>,
         queue' = [queue EXCEPT ![v] = Tail(@)],
         sent' = [sent EXCEPT ![v] = IF sent[v] = 0 THEN 0 ELSE sent[v] - 1]
         \/ sent' = [sent EXCEPT ![v] = 0],
         queue[v][1].kind = "ref" => RefBefore(v, queue[v][1].doc, 0),
         \A t \in Tasks : \/ task'[t] = task[t]
                          \/ /\ Awaits(t, v, queue[v][1])
                             /\ \/ task'[t] = [task[t] EXCEPT !.stage = "acked"]
                                \/ task'[t] = NoTask,
         UNCHANGED <<server, ui>>
  PROVE  OrderInv'
  <1>1. queue \in [Devices -> Seq(Writes)] /\ queue[v] \in Seq(Writes)
        /\ sent[v] \in Nat /\ 1 \in DOMAIN queue[v]
    BY DEF TypeOK
  <1>2. \A u \in Devices : OnScreen(u)' = OnScreen(u)
    BY DEF OnScreen
  <1>3. \A u \in Devices : u # v => queue'[u] = queue[u]
    BY <1>1
  <1>4. /\ Len(queue'[v]) = Len(queue[v]) - 1
        /\ DOMAIN queue'[v] = 1..(Len(queue[v]) - 1)
        /\ DOMAIN queue[v] = 1..Len(queue[v]) /\ Len(queue[v]) \in Nat
        /\ Len(queue[v]) > 0
        /\ \A i \in DOMAIN queue'[v] :
              /\ i \in Nat /\ i # 0 /\ i + 1 \in DOMAIN queue[v]
              /\ queue'[v][i] = queue[v][i + 1]
    BY <1>1
  <1> DEFINE From(u, i) == IF u = v THEN i + 1 ELSE i
  <1>5. \A u \in Devices : \A i \in DOMAIN queue'[u] :
           /\ From(u, i) \in DOMAIN queue[u]
           /\ queue'[u][i] = queue[u][From(u, i)]
           /\ u = v => From(u, i) # 1
           /\ i \in Nat /\ From(u, i) \in Nat
           /\ IF u = v THEN From(u, i) <= i + 1 ELSE From(u, i) <= i
           /\ \A j \in DOMAIN queue'[u] : From(u, j) = From(u, i) => j = i
    BY <1>1, <1>3, <1>4
  <1> HIDE DEF From
  <1>6. \A u \in Devices : Len(queue[u]) \in Nat /\ Len(queue'[u]) \in Nat
    BY <1>1, <1>3, <1>4
  <1>7. AddAlone'
    <2> SUFFICES ASSUME NEW u \in Devices, NEW i \in DOMAIN queue'[u],
                        queue'[u][i].kind = "add"
                 PROVE  LET x == queue'[u][i]
                        IN  /\ server[x.doc] \in
                                  {NoPosting, Apply(NoPosting, x.patch)}
                            /\ \A y \in Devices : \A j \in DOMAIN queue'[y] :
                                  queue'[y][j].doc = x.doc => y = u /\ j = i
                            /\ \A s \in Tasks :
                                  task'[s].doc = x.doc => task'[s].stage = "add"
                            /\ \A y \in Devices : x.doc \notin OnScreen(y)
      BY <1>2 DEF AddAlone
    <2> DEFINE x == queue'[u][i]
               k == From(u, i)
    <2>1. k \in DOMAIN queue[u] /\ queue[u][k] = x /\ (u = v => k # 1)
      BY <1>5
    <2>2. /\ server[x.doc] \in {NoPosting, Apply(NoPosting, x.patch)}
          /\ \A y \in Devices : \A j \in DOMAIN queue[y] :
                queue[y][j].doc = x.doc => y = u /\ j = k
          /\ \A s \in Tasks : task[s].doc = x.doc => task[s].stage = "add"
          /\ \A y \in Devices : x.doc \notin OnScreen(y)
      BY <2>1 DEF OrderInv, AddAlone
    <2>3. ASSUME NEW y \in Devices, NEW j \in DOMAIN queue'[y],
                 queue'[y][j].doc = x.doc
          PROVE  y = u /\ j = i
      <3>1. y = u /\ From(y, j) = k
        BY <1>5, <2>2, <2>3
      <3> QED
        BY <1>5, <3>1
    <2>4. ASSUME NEW s \in Tasks, task'[s].doc = x.doc
          PROVE  task'[s].stage = "add"
      <3>1. CASE task'[s] = task[s]
        BY <2>2, <2>4, <3>1
      <3>2. CASE task'[s] # task[s]
        <4>1. queue[v][1].doc # x.doc
          BY <1>1, <2>1, <2>2
        <4>2. /\ task[s].doc = queue[v][1].doc /\ task[s].stage = "add"
              /\ \/ task'[s] = [task[s] EXCEPT !.stage = "acked"]
                 \/ task'[s] = NoTask
          BY <3>2 DEF Awaits
        <4>3. task[s] \in ActiveTasks
          BY <4>2 DEF TypeOK, NoTask
        <4>4. task'[s] = NoTask
          BY <2>4, <4>1, <4>2, <4>3 DEF ActiveTasks
        <4>5. x.doc = Absent /\ x \in Writes
          BY <2>1, <2>4, <4>4, QueuedOwn DEF NoTask, OwnInv
        <4> QED
          BY <4>5, ConstantsAssumption DEF Writes
      <3> QED
        BY <3>1, <3>2
    <2> QED
      BY <2>2, <2>3, <2>4
  <1>8. ASSUME NEW u \in Devices, NEW d, NEW k \in Nat, NEW m \in Nat,
               RefBefore(u, d, k), (IF u = v THEN k <= m + 1 ELSE k <= m)
        PROVE  RefAfter(u, d, m)
    BY <1>8, TailRef
  <1>9. RefFirst'
    <2>1. ASSUME NEW u \in Devices, NEW i \in DOMAIN queue'[u],
                 queue'[u][i].kind \in {"image", "form", "delete"}
          PROVE  RefAfter(u, queue'[u][i].doc, i)
      <3>1. RefBefore(u, queue'[u][i].doc, From(u, i))
        BY <1>5, <2>1 DEF OrderInv, RefFirst
      <3> QED
        BY <1>5, <1>8, <3>1
    <2>2. \A u \in Devices : IF u = v THEN Len(queue[u]) <= Len(queue'[u]) + 1
                                      ELSE Len(queue[u]) <= Len(queue'[u])
      BY <1>3, <1>4, <1>6
    <2>3. ASSUME NEW t \in Tasks, task'[t].stage \in {"put", "url"}
          PROVE  RefAfter(task'[t].dev, task'[t].doc, Len(queue'[task'[t].dev]))
      <3>1. task'[t] = task[t]
        <4>1. CASE /\ Awaits(t, v, queue[v][1])
                   /\ task'[t] = [task[t] EXCEPT !.stage = "acked"]
          <5>1. task[t] \in ActiveTasks
            BY <4>1 DEF Awaits, TypeOK, NoTask
          <5> QED
            BY <2>3, <4>1, <5>1 DEF ActiveTasks
        <4> QED
          BY <2>3, <4>1 DEF NoTask
      <3>2. task[t] \in ActiveTasks
        BY <2>3, <3>1 DEF TypeOK, NoTask
      <3>3. task[t].dev \in Devices
        BY <3>2 DEF ActiveTasks
      <3>4. RefBefore(task[t].dev, task[t].doc, Len(queue[task[t].dev]))
        BY <2>3, <3>1 DEF OrderInv, RefFirst
      <3>5. RefAfter(task[t].dev, task[t].doc, Len(queue'[task[t].dev]))
        BY <1>6, <1>8, <2>2, <3>3, <3>4
      <3> QED
        BY <3>1, <3>5
    <2>4. ASSUME NEW u \in Devices, NEW d \in OnScreen(u)'
          PROVE  RefAfter(u, d, Len(queue'[u]))
      <3>1. RefBefore(u, d, Len(queue[u]))
        BY <1>2 DEF OrderInv, RefFirst
      <3> QED
        BY <1>6, <1>8, <2>2, <3>1
    <2> QED
      BY <2>1, <2>3, <2>4 DEF RefFirst, RefAfter, RefBefore
  <1>10. SentApplied'
    <2>1. ASSUME NEW u \in Devices
          PROVE  /\ sent'[u] <= Len(queue'[u])
                 /\ \A i \in 1..sent'[u] : queue'[u][i].kind = "ref" =>
                              RefAfter(u, queue'[u][i].doc, 0)
      <3>1. /\ sent[u] \in Nat /\ sent[u] <= Len(queue[u])
            /\ \A i \in 1..sent[u] : queue[u][i].kind = "ref" =>
                              RefBefore(u, queue[u][i].doc, 0)
        BY DEF TypeOK, OrderInv, SentApplied
      <3>2. CASE u # v
        <4>1. sent'[u] = sent[u] /\ queue'[u] = queue[u]
          BY <1>3, <3>2 DEF TypeOK
        <4> QED
          BY <1>8, <3>1, <3>2, <4>1
      <3>3. CASE u = v
        <4>1. sent'[v] \in Nat /\ (sent'[v] = 0 \/ sent'[v] + 1 = sent[v])
          BY <1>1 DEF TypeOK
        <4>2. sent'[v] <= Len(queue'[v])
          BY <1>4, <3>1, <3>3, <4>1
        <4>3. ASSUME NEW i \in 1..sent'[v], queue'[v][i].kind = "ref"
              PROVE  RefAfter(v, queue'[v][i].doc, 0)
          <5>1. i + 1 \in 1..sent[v]
            BY <1>1, <4>1
          <5>2. i \in DOMAIN queue'[v]
            BY <1>4, <3>1, <3>3, <5>1
          <5>3. queue'[v][i] = queue[v][i + 1]
            BY <1>4, <5>2
          <5>4. RefBefore(v, queue'[v][i].doc, 0)
            BY <3>1, <3>3, <4>3, <5>1, <5>3
          <5>5. 0 \in Nat /\ 0 <= 0 + 1
            OBVIOUS
          <5> QED
            BY <1>8, <5>4, <5>5
        <4> QED
          BY <3>3, <4>2, <4>3
      <3> QED
        BY <3>2, <3>3
    <2> QED
      BY <2>1 DEF SentApplied, RefAfter, RefBefore
  <1> QED
    BY <1>7, <1>9, <1>10 DEF OrderInv

LEMMA StreamOrder ==
  ASSUME RefsAccepted, TypeOK, TypeOK', OwnInv, OrderInv, NEW v \in Devices,
         StreamStep(v)
  PROVE  OrderInv'
  <1>1. CASE WriteApplied(v)
    BY <1>1, WriteAppliedOrder
  <1>2. CASE StreamBroken(v)
    <2>1. TasksEnd /\ ScreensEnd
      BY <1>2 DEF StreamBroken, TasksEnd, ScreensEnd, OnScreen
    <2>2. \A u \in Devices : sent'[u] \in {0, sent[u]}
      BY <1>2 DEF StreamBroken, TypeOK
    <2> QED
      BY <1>2, <2>1, <2>2, EndsOrder DEF StreamBroken
  <1>3. CASE WriteAcknowledged(v) \/ WriteRejected(v)
    <2>1. /\ queue[v] # <<>> /\ queue[v] \in Seq(Writes) /\ sent[v] \in Nat
          /\ sent[v] <= Len(queue[v])
      BY <1>3 DEF WriteAcknowledged, WriteRejected, TypeOK, OrderInv, SentApplied
    <2>2. queue[v][1].kind = "ref" => RefBefore(v, queue[v][1].doc, 0)
      <3>1. CASE sent[v] > 0
        BY <2>1, <3>1 DEF OrderInv, SentApplied
      <3>2. CASE sent[v] = 0
        BY <1>3, <3>2 DEF WriteAcknowledged, WriteRejected, RefsAccepted
      <3> QED
        BY <2>1, <3>1, <3>2
    <2>3. \A t \in Tasks : \/ task'[t] = task[t]
                           \/ /\ Awaits(t, v, queue[v][1])
                              /\ \/ task'[t] = [task[t] EXCEPT !.stage = "acked"]
                                 \/ task'[t] = NoTask
      BY <1>3 DEF WriteAcknowledged, WriteRejected
    <2>4. \/ sent' = [sent EXCEPT ![v] = IF sent[v] = 0 THEN 0 ELSE sent[v] - 1]
          \/ sent' = [sent EXCEPT ![v] = 0]
      BY <1>3, <2>1 DEF WriteAcknowledged, WriteRejected, TypeOK
    <2>5. /\ queue' = [queue EXCEPT ![v] = Tail(@)]
          /\ UNCHANGED <<server, ui>>
      BY <1>3 DEF WriteAcknowledged, WriteRejected
    <2> QED
      BY <2>1, <2>2, <2>3, <2>4, <2>5, TailOrder
  <1> QED
    BY <1>1, <1>2, <1>3 DEF StreamStep

LEMMA OrderInit == Init => OrderInv
  BY DEF Init, OrderInv, AddAlone, RefFirst, SentApplied, OnScreen, Closed,
         NoTask

LEMMA OrderStep ==
  RefsAccepted /\ TypeOK /\ OwnInv /\ OrderInv /\ [Next]_vars => OrderInv'
  <1> SUFFICES ASSUME RefsAccepted, TypeOK, OwnInv, OrderInv, [Next]_vars
               PROVE  OrderInv'
    OBVIOUS
  <1>0. TypeOK'
    BY TypeStep
  <1>1. ASSUME NEW v \in Devices, Kill(v) PROVE OrderInv'
    BY <1>0, <1>1, TrapOrder DEF Kill
  <1>2. CASE UNCHANGED vars
    BY <1>0, <1>2, ScreenOrder DEF vars, OnScreen, ScreensEnd
  <1> QED
    BY <1>0, <1>1, <1>2, UserOrder, ReadOrder, StreamOrder, TaskStepOrder
       DEF Next

(* An add that is resent after a restart never touches a posting anybody   *)
(* knows, and what a device does to a posting comes after its Ref, as long *)
(* as the backend refuses no Ref (the completions of UploadMarketPlace,    *)
(* the Refs that ManagePostings reads).                                    *)
THEOREM OrderHolds == RefsAccepted /\ Spec => []OrderInv
  <1> SUFFICES ASSUME RefsAccepted PROVE Spec => []OrderInv
    OBVIOUS
  <1>1. TypeOK /\ OwnInv /\ OrderInv /\ [Next]_vars => OrderInv'
    BY OrderStep
  <1> QED
    BY <1>1, TypeInit, TypeStep, OwnInit, OwnStep, OrderInit, PTL DEF Spec

-----------------------------------------------------------------------------
(* The steps of the system as steps of PostingBoard.                       *)

LEMMA SameBlank == Board!Nothing = NoPosting /\ Board!PostingFields = Fields
  BY DEF Board!Nothing, Board!PostingFields, Board!Missing, NoPosting,
         Missing, Fields

(* What touches a posting only after its Ref finds it tagged when it       *)
(* reaches the collection.                                                 *)
LEMMA AppliedTagged ==
  ASSUME TypeOK, OwnInv, OrderInv, NEW v \in Devices, WriteApplied(v),
         queue[v][sent[v] + 1].kind \in {"image", "form", "delete"}
  PROVE  Board!Tagged(queue[v][sent[v] + 1].doc)
  <1> DEFINE n == sent[v]
             w == queue[v][n + 1]
             e == w.doc
  <1>1. n + 1 \in DOMAIN queue[v] /\ n \in Nat
    BY NextWriteType DEF TypeOK
  <1>2. RefBefore(v, e, n + 1)
    BY <1>1 DEF OrderInv, RefFirst
  <1>3. ASSUME NEW i \in DOMAIN queue[v], i <= n + 1,
               queue[v][i].kind = "ref", queue[v][i].doc = e
        PROVE  server[e]["user"] = Absent \/ server[e]["ref"] # Absent
    <2>1. i \in 1..n
      <3>1. i # n + 1
        BY <1>3
      <3>2. i \in 1..Len(queue[v])
        BY DEF TypeOK
      <3> QED
        BY <1>1, <1>3, <3>1, <3>2
    <2>2. RefBefore(v, e, 0)
      BY <1>3, <2>1 DEF OrderInv, SentApplied
    <2>3. \A j \in DOMAIN queue[v] : ~(j <= 0)
      BY DEF TypeOK
    <2> QED
      BY <2>2, <2>3 DEF RefBefore
  <1> QED
    BY <1>2, <1>3 DEF RefBefore, Board!Tagged

LEMMA WriteAppliedBoard ==
  ASSUME TypeOK, OwnInv, OrderInv, NEW v \in Devices, WriteApplied(v)
  PROVE  [Board!BoardNext]_(Board!boardVars)
  <1> DEFINE w == queue[v][sent[v] + 1]
             e == w.doc
  <1>1. sent[v] + 1 \in DOMAIN queue[v] /\ w \in Writes
        /\ WriteOwn(v, w, owner, storage)
    BY NextWriteType, QueuedOwn DEF OwnInv
  <1>2. e \in Docs /\ w.kind \in Kinds
    BY <1>1 DEF Writes
  <1>3. /\ server' = [server EXCEPT ![e] = Apply(server[e], w.patch)]
        /\ UNCHANGED <<storage, owner>>
    BY DEF WriteApplied, Commit
  <1>4. owner[e] = UserOf[v] /\ owner[e] # Absent
    BY <1>1, UserReal DEF WriteOwn
  <1>5. w.kind \in {"image", "form", "delete"} => Board!Tagged(e)
    BY AppliedTagged
  <1>6. server \in [Docs -> Posting] /\ server[e] \in Posting
    BY <1>2 DEF TypeOK
  <1>7. CASE w.kind = "add"
    <2>1. PICK form \in Forms : w.patch = AddPatch(form, UserOf[v])
      BY <1>1, <1>7 DEF WriteOwn
    <2>2. server' = [server EXCEPT ![e] = w.patch]
      <3> HIDE DEF w
      <3> QED BY <1>1, <1>3, <1>7, Written
    <2>3. server[e] \in {NoPosting, Apply(NoPosting, w.patch)}
      BY <1>1, <1>7 DEF OrderInv, AddAlone
    <2>4. Apply(NoPosting, w.patch) = w.patch
      <3>1. Apply(NoPosting, w.patch) = Apply(server[e], w.patch)
        BY <1>1, <1>6, <1>7, AddTwice
      <3>2. Apply(server[e], w.patch) = w.patch
        <4> HIDE DEF w
        <4> QED BY <1>1, <1>7, Written
      <3> QED
        BY <3>1, <3>2
    <2>5. CASE server[e] = NoPosting
      <3>1. w.patch = [Board!Nothing EXCEPT !["form"] = form,
                                            !["user"] = owner[e]]
        BY <1>4, <2>1, SameBlank DEF AddPatch
      <3>2. Board!Publish(e, form)
        BY <1>3, <1>4, <2>2, <2>5, <3>1, SameBlank DEF Board!Publish
      <3> QED
        BY <1>2, <3>2 DEF Board!BoardNext
    <2>6. CASE server[e] = w.patch
      BY <1>3, <1>6, <2>2, <2>6 DEF Board!boardVars
    <2> QED
      BY <2>3, <2>4, <2>5, <2>6
  <1>8. CASE w.kind = "ref"
    <2>1. server' = [server EXCEPT ![e] = [server[e] EXCEPT !["ref"] = e]]
      <3> HIDE DEF w
      <3> QED BY <1>1, <1>3, <1>8, Written
    <2>2. Board!Tag(e)
      BY <1>3, <1>4, <2>1 DEF Board!Tag
    <2> QED
      BY <1>2, <2>2 DEF Board!BoardNext
  <1>9. CASE w.kind = "image"
    <2>1. server' = [server EXCEPT ![e] = [server[e] EXCEPT !["image"] = e]]
      <3> HIDE DEF w
      <3> QED BY <1>1, <1>3, <1>9, Written
    <2>2. e \in storage
      BY <1>1, <1>9 DEF WriteOwn
    <2>3. Board!Attach(e)
      BY <1>3, <1>5, <1>9, <2>1, <2>2 DEF Board!Attach
    <2> QED
      BY <1>2, <2>3 DEF Board!BoardNext
  <1>10. CASE w.kind = "form"
    <2>1. PICK form \in Forms :
            server' = [server EXCEPT ![e] = [server[e] EXCEPT !["form"] = form]]
      <3> HIDE DEF w
      <3> QED BY <1>1, <1>3, <1>10, Written
    <2>2. Board!Edit(e, form)
      BY <1>3, <1>4, <1>5, <1>10, <2>1 DEF Board!Edit
    <2> QED
      BY <1>2, <2>2 DEF Board!BoardNext
  <1>11. CASE w.kind = "delete"
    <2>1. server' = [server EXCEPT ![e] = NoPosting]
      <3> HIDE DEF w
      <3> QED BY <1>1, <1>3, <1>11, Written
    <2>2. Board!Remove(e)
      BY <1>3, <1>4, <1>5, <1>11, <2>1, SameBlank DEF Board!Remove
    <2> QED
      BY <1>2, <2>2 DEF Board!BoardNext
  <1> QED
    BY <1>2, <1>7, <1>8, <1>9, <1>10, <1>11 DEF Kinds

LEMMA BoardStep ==
  TypeOK /\ OwnInv /\ OrderInv /\ [Next]_vars =>
      [Board!BoardNext]_(Board!boardVars)
  <1> SUFFICES ASSUME TypeOK, OwnInv, OrderInv, [Next]_vars
               PROVE  [Board!BoardNext]_(Board!boardVars)
    OBVIOUS
  <1> DEFINE Same == UNCHANGED <<server, owner, storage>>
  <1>0. Same => [Board!BoardNext]_(Board!boardVars)
    BY DEF Board!boardVars
  <1>1. ASSUME NEW v \in Devices, UserStep(v)
        PROVE  [Board!BoardNext]_(Board!boardVars)
    <2>1. ASSUME NEW d \in Docs, NEW form \in Forms, NEW t \in Tasks,
                 uploadButton(v, d, form, t)
          PROVE  [Board!BoardNext]_(Board!boardVars)
      <3>1. Board!Draw(d, UserOf[v]) /\ UserOf[v] \in Users
        BY <2>1, UserReal DEF uploadButton, Board!Draw
      <3> QED
        BY <3>1 DEF Board!BoardNext
    <2>2. CASE ShowStep(v)
      BY <1>0, <2>2, ShowStepShows
    <2>3. CASE Back(v) \/ AlertOk(v) \/ ConfirmDelete(v)
      BY <1>0, <2>3 DEF Back, AlertOk, ConfirmDelete
    <2>4. ASSUME NEW form \in Forms, NEW t \in Tasks, updateButton(v, form, t)
          PROVE  [Board!BoardNext]_(Board!boardVars)
      BY <1>0, <2>4 DEF updateButton
    <2> QED
      BY <1>1, <2>1, <2>2, <2>3, <2>4 DEF UserStep, ShowStep
  <1>2. ASSUME NEW v \in Devices, ReadStep(v)
        PROVE  [Board!BoardNext]_(Board!boardVars)
    BY <1>0, <1>2, ReadShows
  <1>3. ASSUME NEW v \in Devices, StreamStep(v)
        PROVE  [Board!BoardNext]_(Board!boardVars)
    BY <1>0, <1>3, WriteAppliedBoard
       DEF StreamStep, StreamBroken, WriteAcknowledged, WriteRejected
  <1>4. ASSUME NEW v \in Devices, Kill(v)
        PROVE  [Board!BoardNext]_(Board!boardVars)
    BY <1>0, <1>4 DEF Kill
  <1>5. ASSUME NEW t \in Tasks, TaskStep(t)
        PROVE  [Board!BoardNext]_(Board!boardVars)
    <2>1. CASE PutCompleted(t)
      <3>1. task[t] \in ActiveTasks /\ task[t] # NoTask
        BY <2>1 DEF TypeOK, PutCompleted, NoTask
      <3>2. task[t].doc \in Docs /\ task[t].dev \in Devices
        BY <3>1 DEF ActiveTasks
      <3>3. owner[task[t].doc] # Absent
        BY <3>1, <3>2, UserReal DEF OwnInv, TasksOwn
      <3>4. Board!StorePhoto(task[t].doc)
        BY <2>1, <3>3 DEF PutCompleted, Board!StorePhoto
      <3> QED
        BY <3>2, <3>4 DEF Board!BoardNext
    <2>2. CASE AddCompleted(t) \/ PutFailed(t) \/ UrlCompleted(t) \/ UrlFailed(t)
      BY <1>0, <2>2 DEF AddCompleted, PutFailed, UrlCompleted, UrlFailed
    <2> QED
      BY <1>5, <2>1, <2>2 DEF TaskStep
  <1>6. CASE UNCHANGED vars
    BY <1>0, <1>6 DEF vars
  <1> QED
    BY <1>1, <1>2, <1>3, <1>4, <1>5, <1>6 DEF Next

(* Whatever the devices, their queues and their failures do, the           *)
(* collection changes only by the steps of PostingBoard, if the backend    *)
(* refuses no Ref: an Image, an edit or a deletion reach a posting that    *)
(* names its user only after its Ref (UploadMarketPlace, UpdatePostings).  *)
THEOREM MarketIsABoard == RefsAccepted /\ Spec => ImplementsBoard
  <1> SUFFICES ASSUME RefsAccepted PROVE Spec => ImplementsBoard
    OBVIOUS
  <1>1. TypeOK /\ OwnInv /\ OrderInv /\ [Next]_vars => OrderInv'
    BY OrderStep
  <1>2. Init => Board!BoardInit
    BY SameBlank DEF Init, Board!BoardInit
  <1> QED
    BY <1>1, <1>2, BoardStep, TypeInit, TypeStep, OwnInit, OwnStep, OrderInit,
       PTL DEF Spec, ImplementsBoard, Board!BoardSpec

-----------------------------------------------------------------------------
(* If no Image is refused either, the update screen finds what it unwraps. *)

ImagesAccepted == "image" \notin Rejectable

(* Illustrated, of the state after a step.                                 *)
IllustratedAfter(v, d) ==
    \/ d \in deleted'
    \/ server'[d]["image"] # Absent
    \/ \E i \in DOMAIN queue'[v] :
          queue'[v][i].kind = "image" /\ queue'[v][i].doc = d

(* Which writes touch which field, and how.                                *)
LEMMA Touched ==
  ASSUME NEW v \in Devices, NEW w \in Writes, WriteOwn(v, w, owner, storage)
  PROVE  /\ w.patch["image"] # Keep => w.kind \in {"add", "image", "delete"}
         /\ w.patch["ref"] # Keep => w.kind \in {"add", "ref", "delete"}
         /\ w.patch["user"] # Keep => w.kind \in {"add", "delete"}
         /\ w.kind = "image" => w.patch["image"] = w.doc
         /\ w.kind = "ref" => w.patch["ref"] = w.doc
         /\ w.kind \in {"add", "delete"} => w.patch["image"] = Absent
         /\ w.kind = "delete" => w.patch["user"] = Absent
  <1>1. w.kind \in Kinds /\ {"user", "ref", "image", "form"} \subseteq Fields
    BY DEF Writes, Fields
  <1>2. CASE w.kind = "add"
    <2>1. PICK form \in Forms : w.patch = AddPatch(form, UserOf[v])
      BY <1>2 DEF WriteOwn
    <2> QED
      BY <1>2, <2>1, AddPatchFields
  <1>3. CASE w.kind = "ref"
    BY <1>1, <1>3, MergeFields DEF WriteOwn
  <1>4. CASE w.kind = "image"
    BY <1>1, <1>4, MergeFields DEF WriteOwn
  <1>5. CASE w.kind = "form"
    <2>1. PICK form \in Forms : w.patch = Merge(Fields, "form", form)
      BY <1>5 DEF WriteOwn
    <2> QED
      BY <1>1, <1>5, <2>1, MergeFields
  <1>6. CASE w.kind = "delete"
    BY <1>1, <1>6, DeleteFields DEF WriteOwn
  <1> QED
    BY <1>1, <1>2, <1>3, <1>4, <1>5, <1>6 DEF Kinds

(* The last queued write of a field, or the stored one if there is none.   *)
LEMMA ViewLast ==
  ASSUME TypeOK, NEW v \in Devices, NEW d \in Docs, NEW f \in Fields
  PROVE  \/ /\ View(v)[d][f] = server[d][f]
            /\ \A i \in DOMAIN queue[v] :
                  queue[v][i].doc = d => queue[v][i].patch[f] = Keep
         \/ \E i \in DOMAIN queue[v] :
               /\ queue[v][i].doc = d /\ queue[v][i].patch[f] # Keep
               /\ View(v)[d][f] = queue[v][i].patch[f]
  <1> DEFINE q == queue[v]
  <1>1. q \in Seq(Writes)
    BY DEF TypeOK
  <1>2. View(v)[d][f] = FieldView(server, q, d, f)
    BY DEF View, LocalView, TypeOK, Posting
  <1>3. \/ /\ FieldView(server, q, d, f) = server[d][f]
           /\ \A i \in DOMAIN q : ~Touches(q, i, d, f)
        \/ \E i \in DOMAIN q :
              /\ LastTouch(q, i, d, f)
              /\ FieldView(server, q, d, f) = q[i].patch[f]
    BY <1>1, FieldViewSource
  <1> QED
    BY <1>2, <1>3 DEF LastTouch, Touches

(* A posting that nobody has deleted and whose Image a device has queued   *)
(* or can read from the collection shows its Image.                        *)
LEMMA ImageSeen ==
  ASSUME TypeOK, OwnInv, ImagesStored, NEW v \in Devices, NEW d \in Docs,
         ~AddQueued(d), Illustrated(v, d), d \notin deleted
  PROVE  View(v)[d]["image"] # Absent
  <1>1. "image" \in Fields /\ d # Absent
    BY ConstantsAssumption DEF Fields
  <1>2. \A i \in DOMAIN queue[v] : queue[v][i].doc = d =>
           /\ queue[v][i].kind \notin {"add", "delete"}
           /\ queue[v][i].patch["image"] # Keep =>
                 queue[v][i].patch["image"] = d
           /\ queue[v][i].kind = "image" => queue[v][i].patch["image"] = d
    <2> SUFFICES ASSUME NEW i \in DOMAIN queue[v], queue[v][i].doc = d
                 PROVE  /\ queue[v][i].kind \notin {"add", "delete"}
                        /\ queue[v][i].patch["image"] # Keep =>
                              queue[v][i].patch["image"] = d
                        /\ queue[v][i].kind = "image" =>
                              queue[v][i].patch["image"] = d
      OBVIOUS
    <2>1. queue[v][i].kind \notin {"add", "delete"}
      BY DEF AddQueued, ImagesStored
    <2> QED
      BY <2>1, QueuedOwn, Touched DEF OwnInv
  <1>3. d # Keep
    BY ConstantsAssumption
  <1>4. CASE \A i \in DOMAIN queue[v] :
                queue[v][i].doc = d => queue[v][i].patch["image"] = Keep
    <2>1. View(v)[d]["image"] = server[d]["image"]
      BY <1>1, <1>4, ViewLast
    <2>2. server[d]["image"] # Absent
      BY <1>2, <1>3, <1>4 DEF Illustrated
    <2> QED
      BY <2>1, <2>2
  <1>5. CASE \E i \in DOMAIN queue[v] :
                /\ queue[v][i].doc = d /\ queue[v][i].patch["image"] # Keep
                /\ View(v)[d]["image"] = queue[v][i].patch["image"]
    BY <1>1, <1>2, <1>5
  <1> QED
    BY <1>1, <1>4, <1>5, ViewLast

(* A row of the manage list that is drawn has a Ref and an Image.          *)
LEMMA DrawnRowOpens ==
  ASSUME TypeOK, OwnInv, OrderInv, ImagesStored, NEW v \in Devices,
         Drawable(v, "manage"), NEW r \in Refs(v)
  PROVE  r # Absent /\ Illustrated(v, r)
  <1>1. PICK d \in Docs : /\ View(v)[d]["user"] = UserOf[v]
                          /\ View(v)[d]["image"] # Absent
                          /\ r = View(v)[d]["ref"]
    BY DEF Refs, Listed, Drawable
  <1>2. {"user", "ref", "image"} \subseteq Fields
        /\ UserOf[v] # Absent /\ d # Absent /\ d # Keep
    BY UserReal, ConstantsAssumption DEF Fields
  <1>3. \A i \in DOMAIN queue[v] : queue[v][i].doc = d =>
           /\ queue[v][i] \in Writes
           /\ WriteOwn(v, queue[v][i], owner, storage)
    BY QueuedOwn DEF OwnInv
  <1>4. ~\E i \in DOMAIN queue[v] :
            queue[v][i].doc = d /\ queue[v][i].kind = "add"
    <2> SUFFICES ASSUME NEW i \in DOMAIN queue[v], queue[v][i].doc = d,
                        queue[v][i].kind = "add"
                 PROVE  FALSE
      OBVIOUS
    <2>1. \A j \in DOMAIN queue[v] : queue[v][j].doc = d => j = i
      BY DEF OrderInv, AddAlone
    <2>2. queue[v][i].patch["image"] = Absent
      BY <1>3, Touched
    <2>3. server[d]["image"] = Absent
      BY AddedBare DEF AddQueued, OrderInv
    <2> QED
      BY <1>1, <1>2, <2>1, <2>2, <2>3, ViewLast
  <1>5. PICK i \in DOMAIN queue[v] \cup {0} :
           \/ i = 0 /\ server[d]["image"] # Absent
           \/ /\ i \in DOMAIN queue[v]
              /\ queue[v][i].doc = d /\ queue[v][i].kind = "image"
    <2>1. CASE server[d]["image"] # Absent
      BY <2>1
    <2>2. CASE server[d]["image"] = Absent
      <3>1. PICK i \in DOMAIN queue[v] :
               /\ queue[v][i].doc = d /\ queue[v][i].patch["image"] # Keep
               /\ queue[v][i].patch["image"] # Absent
        BY <1>1, <1>2, <2>2, ViewLast
      <3>2. queue[v][i].kind = "image"
        BY <1>3, <3>1, Touched
      <3> QED
        BY <3>1, <3>2
    <2> QED
      BY <2>1, <2>2
  <1>6. Illustrated(v, d)
    BY <1>5 DEF Illustrated
  <1>7. r # Absent
    <2> SUFFICES ASSUME r = Absent PROVE FALSE
      OBVIOUS
    <2>1. View(v)[d]["user"] = server[d]["user"]
          /\ \A j \in DOMAIN queue[v] :
                queue[v][j].doc = d => queue[v][j].patch["user"] = Keep
      <3> SUFFICES ASSUME NEW j \in DOMAIN queue[v], queue[v][j].doc = d,
                          queue[v][j].patch["user"] # Keep,
                          View(v)[d]["user"] = queue[v][j].patch["user"]
                   PROVE  FALSE
        BY <1>2, ViewLast
      <3>1. queue[v][j].kind = "delete"
        BY <1>3, <1>4, Touched
      <3> QED
        BY <1>1, <1>2, <1>3, <3>1, Touched
    <2>2. \A j \in DOMAIN queue[v] :
             queue[v][j].doc = d => queue[v][j].kind \notin {"add", "delete"}
      BY <1>2, <1>3, <1>4, <2>1, MarkersDiffer, Touched
    <2>3. /\ r = server[d]["ref"]
          /\ \A j \in DOMAIN queue[v] : ~(/\ queue[v][j].doc = d
                                          /\ queue[v][j].kind = "ref")
      <3>1. \A j \in DOMAIN queue[v] :
               /\ queue[v][j].doc = d
               /\ queue[v][j].patch["ref"] # Keep
               => queue[v][j].patch["ref"] = d
        BY <1>3, <2>2, Touched
      <3>2. \A j \in DOMAIN queue[v] :
               queue[v][j].doc = d => queue[v][j].patch["ref"] = Keep
        BY <1>1, <1>2, <3>1, ViewLast
      <3>3. r = server[d]["ref"]
        BY <1>1, <1>2, <3>2, ViewLast
      <3> QED
        BY <1>2, <1>3, <3>2, <3>3, Touched
    <2>4. server[d]["user"] # Absent /\ server[d]["ref"] = Absent
      BY <1>1, <1>2, <2>1, <2>3
    <2>5. CASE server[d]["image"] # Absent
      BY <2>4, <2>5 DEF ImagesStored
    <2>6. CASE /\ i \in DOMAIN queue[v]
               /\ queue[v][i].doc = d /\ queue[v][i].kind = "image"
      <3>1. RefBefore(v, d, i)
        BY <2>6 DEF OrderInv, RefFirst
      <3> QED
        BY <2>3, <2>4, <3>1 DEF RefBefore
    <2> QED
      BY <1>5, <2>5, <2>6
  <1>8. r = d
    BY <1>1, <1>7, ViewOwn
  <1> QED
    BY <1>6, <1>7, <1>8

(* The screens of a device that show nothing new stay openable.            *)
LEMMA OpenKept ==
  ASSUME TypeOK, TypeOK', RowsOpen, NEW v \in Devices,
         ui'[v].screen = ui[v].screen, ui'[v].docPath = ui[v].docPath,
         ui'[v].refs = ui[v].refs,
         ui'[v].drawable["manage"] = ui[v].drawable["manage"],
         ui'[v].fetch["manage"] <= ui[v].fetch["manage"]
  PROVE  Openable(v, ui'[v])
  <1>1. ui[v] \in UIs /\ ui'[v] \in UIs /\ "manage" \in Loads
    BY DEF TypeOK, Loads, Tables
  <1>2. ui[v].fetch["manage"] \in Nat /\ ui'[v].fetch["manage"] \in Nat
    BY <1>1, ConstantsAssumption DEF UIs
  <1>3. Openable(v, ui[v])
    BY DEF RowsOpen
  <1> QED
    BY <1>2, <1>3 DEF Openable

LEMMA ClosedOpens == ASSUME NEW v PROVE Openable(v, Closed)
  BY DEF Openable, Closed, Loads, Tables

LEMMA AlertOpens ==
  ASSUME TypeOK, TypeOK', RowsOpen, NEW v \in Devices, NEW a,
         ui' = [ui EXCEPT ![v].alert = a]
  PROVE  \A u \in Devices : Openable(u, ui'[u])
  <1>1. ui \in [Devices -> UIs] /\ ui[v] \in UIs
    BY DEF TypeOK
  <1>2. ui' = [ui EXCEPT ![v] = [ui[v] EXCEPT !.alert = a]]
    OBVIOUS
  <1>3. /\ ui'[v].screen = ui[v].screen /\ ui'[v].docPath = ui[v].docPath
        /\ ui'[v].refs = ui[v].refs /\ ui'[v].drawable = ui[v].drawable
        /\ ui'[v].fetch = ui[v].fetch
        /\ \A u \in Devices : u # v => ui'[u] = ui[u]
    BY <1>1, <1>2 DEF UIs
  <1>4. ui[v].fetch["manage"] \in Nat
    BY <1>1, ConstantsAssumption DEF UIs, Loads, Tables
  <1>5. ui'[v].fetch["manage"] <= ui[v].fetch["manage"]
    BY <1>3, <1>4
  <1>6. Openable(v, ui'[v])
    BY <1>3, <1>5, OpenKept
  <1> QED
    BY <1>3, <1>6 DEF RowsOpen

LEMMA TrapOpens ==
  ASSUME TypeOK, RowsOpen, NEW v \in Devices, Trap(v)
  PROVE  \A u \in Devices : Openable(u, ui'[u])
  BY ClosedOpens DEF Trap, TypeOK, RowsOpen

LEMMA PopOpens ==
  ASSUME TypeOK, RowsOpen, NEW v \in Devices, Pop(v)
  PROVE  \A u \in Devices : Openable(u, ui'[u])
  <1> DEFINE scr == ui[v].screen
             list == Below(scr)
  <1>1. CASE ~ui[v].drawable[list]
    BY <1>1, TrapOpens DEF Pop
  <1>2. CASE ui[v].drawable[list]
    <2> DEFINE nf == [l \in Loads |-> IF l = scr THEN 0
                      ELSE ui[v].fetch[l] + (IF l = list THEN 1 ELSE 0)]
               nd == [l \in Tables |-> l = scr \/ ui[v].drawable[l]]
               nr == IF scr = "manage" THEN {} ELSE ui[v].refs
    <2>1. ui' = [ui EXCEPT ![v] =
              [Closed EXCEPT !.screen = list, !.fetch = nf, !.drawable = nd,
                             !.refs = nr]]
      BY <1>2 DEF Pop
    <2>2. ui'[v] =
              [Closed EXCEPT !.screen = list, !.fetch = nf, !.drawable = nd,
                             !.refs = nr]
          /\ \A u \in Devices : u # v => ui'[u] = ui[u]
      BY <2>1 DEF TypeOK
    <2>3. ui[v] \in UIs /\ "manage" \in Loads /\ Openable(v, ui[v])
      BY DEF TypeOK, Loads, Tables, RowsOpen
    <2>4. ui[v].fetch["manage"] \in Nat
      BY <2>3, ConstantsAssumption DEF UIs
    <2>5. nf["manage"] = IF "manage" = scr THEN 0 ELSE
              ui[v].fetch["manage"] + (IF "manage" = list THEN 1 ELSE 0)
      BY <2>3
    <2>6. list = IF scr = "update" THEN "manage" ELSE "market"
      BY DEF Below
    <2>7. scr = "update" => nd["manage"]
      BY <1>2, <2>6 DEF Tables
    <2> HIDE DEF nf, nd, nr, list, scr
    <2>8. /\ ui'[v].screen = list /\ ui'[v].fetch = nf /\ ui'[v].refs = nr
          /\ ui'[v].drawable = nd
      BY <2>2 DEF Closed
    <2>9. CASE scr = "update"
      <3>1. list = "manage" /\ nr = ui[v].refs /\ ui[v].drawable["manage"]
        BY <1>2, <2>6, <2>9 DEF nr, list
      <3>2. \A d \in nr : d # Absent /\ Illustrated(v, d)
        BY <2>3, <3>1 DEF Openable
      <3>3. Openable(v, ui'[v])
        BY <2>7, <2>8, <2>9, <3>1, <3>2 DEF Openable
      <3> QED
        BY <2>2, <3>3 DEF RowsOpen
    <2>10. CASE scr # "update"
      <3>1. list = "market"
        BY <2>6, <2>10
      <3>2. nr = {} /\ nf["manage"] = 0
        BY <2>3, <2>4, <2>5, <2>10, <3>1 DEF Openable, nr, scr
      <3> QED
        BY <2>2, <2>8, <3>1, <3>2 DEF Openable, RowsOpen
    <2> QED
      BY <2>9, <2>10
  <1> QED
    BY <1>1, <1>2

LEMMA ShowOpens ==
  ASSUME TypeOK, TypeOK', RowsOpen, NEW v \in Devices, ShowStep(v)
  PROVE  \A u \in Devices : Openable(u, ui'[u])
  <1>1. ui \in [Devices -> UIs] /\ ui[v] \in UIs
    BY DEF TypeOK
  <1>2. ui[v].fetch["manage"] \in Nat /\ Openable(v, ui[v])
    BY <1>1, ConstantsAssumption DEF UIs, Loads, Tables, RowsOpen
  <1>3. \A u \in Devices : u # v => ui'[u] = ui[u]
    BY <1>1 DEF ShowStep, Launch, CancelDelete, SwitchTab, InvalidDetails,
           imageTapped, OpenUpload, OpenManage, deleteButton,
           imagePickerController, SelectRow
  <1> SUFFICES Openable(v, ui'[v])
    BY <1>3 DEF RowsOpen
  <1>4. CASE Launch(v)
    <2>1. ui'[v] = [Closed EXCEPT !.screen = "market",
                                  !.fetch["market"] = FirstLoads]
      BY <1>1, <1>4 DEF Launch
    <2>2. /\ ui'[v].screen = "market" /\ ui'[v].refs = {}
          /\ ui'[v].fetch["manage"] = 0
      BY <2>1 DEF Closed, Loads, Tables
    <2> QED
      BY <2>2 DEF Openable
  <1>5. CASE \/ CancelDelete(v) \/ InvalidDetails(v) \/ imageTapped(v)
             \/ deleteButton(v)
    BY <1>5, AlertOpens
       DEF CancelDelete, InvalidDetails, imageTapped, deleteButton
  <1>6. CASE SwitchTab(v)
    <2>1. ui'[v] = [ui[v] EXCEPT !.fetch["market"] = ui[v].fetch["market"] + 1]
      BY <1>1, <1>6 DEF SwitchTab
    <2>2. /\ ui'[v].screen = ui[v].screen /\ ui'[v].docPath = ui[v].docPath
          /\ ui'[v].refs = ui[v].refs /\ ui'[v].drawable = ui[v].drawable
          /\ ui'[v].fetch["manage"] = ui[v].fetch["manage"]
      BY <1>1, <2>1 DEF UIs, Loads, Tables
    <2> QED
      BY <1>2, <2>2 DEF Openable
  <1>7. CASE OpenUpload(v)
    <2>1. ui[v].screen = "market" /\ ui'[v] = [ui[v] EXCEPT !.screen = "upload"]
      BY <1>1, <1>7 DEF OpenUpload, Touchable
    <2>2. /\ ui'[v].screen = "upload" /\ ui'[v].refs = ui[v].refs
          /\ ui'[v].fetch = ui[v].fetch
      BY <1>1, <2>1 DEF UIs
    <2> QED
      BY <1>2, <2>1, <2>2 DEF Openable
  <1>8. CASE OpenManage(v)
    <2>1. ui'[v] = [ui[v] EXCEPT !.screen = "manage",
                        !.fetch["manage"] = FirstLoads,
                        !.drawable["manage"] = TRUE, !.refs = {}]
      BY <1>1, <1>8 DEF OpenManage
    <2>2. /\ ui'[v].screen = "manage" /\ ui'[v].refs = {}
          /\ ui'[v].drawable["manage"]
      BY <1>1, <2>1 DEF UIs, Tables
    <2> QED
      BY <2>2 DEF Openable
  <1>9. ASSUME NEW p \in BOOLEAN, imagePickerController(v, p)
        PROVE  Openable(v, ui'[v])
    <2> DEFINE np == ui[v].picture \/ p
    <2>1. ui'[v] = [ui[v] EXCEPT !.alert = "none", !.picture = np]
      BY <1>1, <1>9 DEF imagePickerController
    <2> HIDE DEF np
    <2>2. /\ ui'[v].screen = ui[v].screen /\ ui'[v].docPath = ui[v].docPath
          /\ ui'[v].refs = ui[v].refs /\ ui'[v].drawable = ui[v].drawable
          /\ ui'[v].fetch = ui[v].fetch
      BY <1>1, <2>1 DEF UIs
    <2> QED
      BY <1>2, <2>2 DEF Openable
  <1>10. ASSUME NEW refNo \in ui[v].refs, SelectRow(v, refNo)
         PROVE  Openable(v, ui'[v])
    <2>1. ui'[v] = [ui[v] EXCEPT !.screen = "update", !.docPath = refNo,
                      !.fetch["update"] = 1, !.picture = TRUE,
                      !.loading = FALSE]
          /\ ui[v].screen = "manage"
      BY <1>1, <1>10 DEF SelectRow, Touchable
    <2>2. /\ ui'[v].screen = "update" /\ ui'[v].docPath = refNo
          /\ ui'[v].refs = ui[v].refs /\ ui'[v].drawable = ui[v].drawable
      BY <1>1, <2>1 DEF UIs
    <2>3. refNo # Absent /\ Illustrated(v, refNo)
      BY <1>2, <2>1 DEF Openable
    <2> QED
      BY <1>2, <2>2, <2>3 DEF Openable
  <1> QED
    BY <1>4, <1>5, <1>6, <1>7, <1>8, <1>9, <1>10 DEF ShowStep

LEMMA ReadOpens ==
  ASSUME TypeOK, TypeOK', OwnInv, OrderInv, PictureInv, NEW v \in Devices,
         ReadStep(v)
  PROVE  \A u \in Devices : Openable(u, ui'[u])
  <1> DEFINE Opens == \A u \in Devices : Openable(u, ui'[u])
  <1>1. CASE Trap(v)
    BY <1>1, TrapOpens DEF PictureInv
  <1>2. ui \in [Devices -> UIs] /\ ui[v] \in UIs /\ RowsOpen
    BY DEF TypeOK, PictureInv
  <1>3. ui[v].fetch["manage"] \in Nat /\ Openable(v, ui[v])
    BY <1>2, ConstantsAssumption DEF UIs, Loads, Tables, RowsOpen
  <1>4. ASSUME NEW list \in Tables, loadFireBaseData(v, list), ~Trap(v)
        PROVE  Opens
    <2>1. ~(ui[v].screen = list /\ ~Drawable(v, list))
      BY <1>4 DEF loadFireBaseData
    <2> DEFINE nr == IF list = "manage" THEN Refs(v) ELSE ui[v].refs
               dr == Drawable(v, list)
               nf == ui[v].fetch[list] - 1
    <2>2. /\ ui' = [ui EXCEPT ![v] = [ui[v] EXCEPT !.fetch[list] = nf,
                          !.drawable[list] = dr, !.refs = nr]]
          /\ ui[v].fetch[list] > 0
      BY <1>4, <2>1 DEF loadFireBaseData
    <2>3. \A u \in Devices : u # v => ui'[u] = ui[u]
      BY <2>2, <1>2
    <2> HIDE DEF nr, dr, nf
    <2>4. /\ ui'[v].screen = ui[v].screen /\ ui'[v].docPath = ui[v].docPath
          /\ ui'[v].refs = nr
          /\ ui'[v].drawable = [ui[v].drawable EXCEPT ![list] = dr]
          /\ ui'[v].fetch = [ui[v].fetch EXCEPT ![list] = nf]
      BY <1>2, <2>2 DEF UIs
    <2>5. CASE list = "manage"
      <3>1. ui'[v].drawable["manage"] = dr /\ nr = Refs(v)
        BY <1>2, <2>4, <2>5 DEF UIs, Tables, nr
      <3>2. ui[v].screen \in {"manage", "update"}
        BY <1>3, <2>2, <2>5 DEF Openable
      <3>3. dr => \A r \in Refs(v) : r # Absent /\ Illustrated(v, r)
        BY <2>5, DrawnRowOpens DEF dr, PictureInv
      <3>4. ui[v].screen = "manage" => dr
        BY <2>1, <2>5 DEF dr
      <3>5. Openable(v, ui'[v])
        BY <1>3, <2>4, <3>1, <3>2, <3>3, <3>4 DEF Openable
      <3> QED
        BY <1>2, <2>3, <3>5 DEF RowsOpen
    <2>6. CASE list # "manage"
      <3>1. /\ ui'[v].drawable["manage"] = ui[v].drawable["manage"]
            /\ ui'[v].fetch["manage"] = ui[v].fetch["manage"]
            /\ nr = ui[v].refs
        BY <1>2, <2>4, <2>6 DEF UIs, Tables, Loads, nr
      <3>2. Openable(v, ui'[v])
        BY <1>3, <2>4, <3>1 DEF Openable
      <3> QED
        BY <1>2, <2>3, <3>2 DEF RowsOpen
    <2> QED
      BY <2>5, <2>6
  <1>5. ASSUME loadPosting(v), ~Trap(v)
        PROVE  Opens
    <2> DEFINE nl == ui[v].loading \/ Matching(v) # {}
               nf == ui[v].fetch["update"] - 1
    <2>1. ui' = [ui EXCEPT ![v] = [ui[v] EXCEPT !.fetch["update"] = nf,
                                               !.loading = nl]]
      BY <1>5 DEF loadPosting
    <2> HIDE DEF nl, nf
    <2>2. /\ ui'[v].screen = ui[v].screen /\ ui'[v].docPath = ui[v].docPath
          /\ ui'[v].refs = ui[v].refs /\ ui'[v].drawable = ui[v].drawable
          /\ ui'[v].fetch["manage"] = ui[v].fetch["manage"]
          /\ \A u \in Devices : u # v => ui'[u] = ui[u]
      BY <1>2, <2>1 DEF UIs, Loads, Tables
    <2>3. Openable(v, ui'[v])
      BY <1>3, <2>2 DEF Openable
    <2> QED
      BY <1>2, <2>2, <2>3 DEF RowsOpen
  <1>6. ASSUME NEW l \in Loads, LoadError(v, l)
        PROVE  Opens
    <2> DEFINE nf == ui[v].fetch[l] - 1
    <2>1. /\ ui' = [ui EXCEPT ![v] = [ui[v] EXCEPT !.fetch[l] = nf]]
          /\ ui[v].fetch[l] > 0
      BY <1>6 DEF LoadError
    <2>2. /\ ui'[v].screen = ui[v].screen /\ ui'[v].docPath = ui[v].docPath
          /\ ui'[v].refs = ui[v].refs /\ ui'[v].drawable = ui[v].drawable
          /\ ui'[v].fetch = [ui[v].fetch EXCEPT ![l] = nf]
          /\ \A u \in Devices : u # v => ui'[u] = ui[u]
      BY <1>2, <2>1 DEF UIs
    <2>3. ui'[v].fetch["manage"] <= ui[v].fetch["manage"]
      BY <1>2, <1>3, <2>2 DEF UIs, Loads, Tables
    <2>4. Openable(v, ui'[v])
      BY <1>2, <2>2, <2>3, OpenKept
    <2> QED
      BY <1>2, <2>2, <2>4 DEF RowsOpen
  <1>7. ASSUME NEW ok \in BOOLEAN, ImageLoaded(v, ok)
        PROVE  Opens
    <2>1. ui' = [ui EXCEPT ![v] = [ui[v] EXCEPT !.loading = FALSE,
                                               !.picture = ok]]
      BY <1>7 DEF ImageLoaded
    <2>2. /\ ui'[v].screen = ui[v].screen /\ ui'[v].docPath = ui[v].docPath
          /\ ui'[v].refs = ui[v].refs /\ ui'[v].drawable = ui[v].drawable
          /\ ui'[v].fetch = ui[v].fetch
          /\ \A u \in Devices : u # v => ui'[u] = ui[u]
      BY <1>2, <2>1 DEF UIs
    <2>3. Openable(v, ui'[v])
      BY <1>3, <2>2 DEF Openable
    <2> QED
      BY <1>2, <2>2, <2>3 DEF RowsOpen
  <1> QED
    BY <1>1, <1>4, <1>5, <1>6, <1>7 DEF ReadStep

(* What is on the screens stays illustrated, so RowsOpen is kept.          *)
LEMMA RowsGrow ==
  ASSUME \A u \in Devices : Openable(u, ui'[u]),
         \A u \in Devices : \A d \in OnScreen(u)' :
            Illustrated(u, d) => IllustratedAfter(u, d)
  PROVE  RowsOpen'
  <1> SUFFICES ASSUME NEW u \in Devices PROVE Openable(u, ui[u])'
    BY DEF RowsOpen
  <1>1. Openable(u, ui'[u])
    OBVIOUS
  <1>2. ASSUME ui'[u].drawable["manage"], NEW d \in ui'[u].refs
        PROVE  d # Absent /\ IllustratedAfter(u, d)
    <2>1. d # Absent /\ Illustrated(u, d)
      BY <1>1, <1>2 DEF Openable
    <2>2. d \in OnScreen(u)'
      BY <2>1 DEF OnScreen
    <2> QED
      BY <2>1, <2>2
  <1>3. ASSUME ui'[u].screen = "update"
        PROVE  /\ ui'[u].docPath # Absent
               /\ IllustratedAfter(u, ui'[u].docPath)
    <2>1. ui'[u].docPath # Absent /\ Illustrated(u, ui'[u].docPath)
      BY <1>1, <1>3 DEF Openable
    <2>2. ui'[u].docPath \in OnScreen(u)'
      BY <2>1 DEF OnScreen
    <2> QED
      BY <2>1, <2>2
  <1> QED
    BY <1>1, <1>2, <1>3 DEF Openable, Illustrated, IllustratedAfter

LEMMA PictureGrows ==
  ASSUME TypeOK, SentApplied, PictureInv, Longer, UNCHANGED server,
         deleted \subseteq deleted',
         \A u \in Devices : sent'[u] \in {0, sent[u]},
         \A u \in Devices : \A i \in DOMAIN queue'[u] :
            \/ i \in DOMAIN queue[u]
            \/ queue'[u][i].kind = "delete" => queue'[u][i].doc \in deleted',
         \A u \in Devices : Openable(u, ui'[u])
  PROVE  PictureInv'
  <1>1. ASSUME NEW u \in Devices, NEW d, Illustrated(u, d)
        PROVE  IllustratedAfter(u, d)
    <2>1. CASE d \in deleted \/ server[d]["image"] # Absent
      BY <2>1 DEF IllustratedAfter
    <2>2. ASSUME NEW i \in DOMAIN queue[u], queue[u][i].kind = "image",
                 queue[u][i].doc = d
          PROVE  IllustratedAfter(u, d)
      <3>1. i \in DOMAIN queue'[u] /\ queue'[u][i] = queue[u][i]
        BY LongerElements
      <3> QED
        BY <2>2, <3>1 DEF IllustratedAfter
    <2> QED
      BY <1>1, <2>1, <2>2 DEF Illustrated
  <1>2. RowsOpen'
    BY <1>1, RowsGrow
  <1>3. ASSUME NEW u \in Devices, NEW i \in DOMAIN queue'[u],
               queue'[u][i].kind = "delete"
        PROVE  queue'[u][i].doc \in deleted'
    <2>1. CASE i \in DOMAIN queue[u]
      <3>1. queue'[u][i] = queue[u][i]
        BY <2>1, LongerElements
      <3> QED
        BY <1>3, <2>1, <3>1 DEF PictureInv, ImagesStored
    <2> QED
      BY <1>3, <2>1
  <1>4. ASSUME NEW u \in Devices, NEW i \in 1..sent'[u],
               queue'[u][i].kind = "image"
        PROVE  \/ queue'[u][i].doc \in deleted'
               \/ server'[queue'[u][i].doc]["image"] # Absent
    <2>1. sent[u] \in Nat /\ sent[u] <= Len(queue[u])
      BY DEF TypeOK, SentApplied
    <2>2. i \in 1..sent[u]
      BY <2>1
    <2>3. i \in DOMAIN queue[u] /\ queue'[u][i] = queue[u][i]
      BY <2>1, <2>2, LongerElements
    <2>4. \/ queue[u][i].doc \in deleted
          \/ server[queue[u][i].doc]["image"] # Absent
      BY <1>4, <2>2, <2>3 DEF PictureInv, ImagesStored
    <2> QED
      BY <2>3, <2>4
  <1>5. ImagesStored'
    BY <1>3, <1>4 DEF ImagesStored, PictureInv
  <1> QED
    BY <1>2, <1>5 DEF PictureInv

(* A step of the screens alone.                                            *)
LEMMA PictureShown ==
  ASSUME TypeOK, SentApplied, PictureInv,
         UNCHANGED <<server, queue, deleted>>,
         \A u \in Devices : sent'[u] \in {0, sent[u]},
         \A u \in Devices : Openable(u, ui'[u])
  PROVE  PictureInv'
  <1>1. Longer
    BY DEF Longer
  <1> QED
    BY <1>1, PictureGrows

LEMMA PictureEnqueued ==
  ASSUME TypeOK, SentApplied, PictureInv, NEW v \in Devices, NEW w \in Writes,
         Enqueue(v, w), UNCHANGED server, deleted \subseteq deleted',
         w.kind = "delete" => w.doc \in deleted',
         \A u \in Devices : sent'[u] \in {0, sent[u]},
         \A u \in Devices : Openable(u, ui'[u])
  PROVE  PictureInv'
  <1>1. /\ Longer
        /\ \A u \in Devices : \A i \in DOMAIN queue'[u] :
              i \in DOMAIN queue[u] \/ (u = v /\ queue'[u][i] = w)
    BY Enqueued
  <1> QED
    BY <1>1, PictureGrows

LEMMA PictureTrap ==
  ASSUME TypeOK, SentApplied, PictureInv, NEW v \in Devices,
         Trap(v) \/ Pop(v), UNCHANGED <<server, queue, deleted>>
  PROVE  PictureInv'
  <1>1. \A u \in Devices : sent'[u] \in {0, sent[u]}
    BY TrapEnds, PopEnds
  <1>2. \A u \in Devices : Openable(u, ui'[u])
    BY TrapOpens, PopOpens DEF PictureInv
  <1> QED
    BY <1>1, <1>2, PictureShown

LEMMA UserPicture ==
  ASSUME TypeOK, TypeOK', OwnInv, OrderInv, PictureInv, NEW v \in Devices,
         UserStep(v)
  PROVE  PictureInv'
  <1>0. SentApplied /\ RowsOpen
    BY DEF OrderInv, PictureInv
  <1>1. \A u \in Devices : Openable(u, ui[u])
    BY <1>0 DEF RowsOpen
  <1>2. CASE Back(v)
    BY <1>0, <1>2, PictureTrap DEF Back
  <1>3. CASE AlertOk(v)
    <2>1. CASE Pop(v)
      BY <1>0, <1>3, <2>1, PictureTrap DEF AlertOk
    <2>2. CASE ~Pop(v)
      <3>1. ui' = [ui EXCEPT ![v].alert = "none"] /\ UNCHANGED sent
        BY <1>3, <2>2 DEF AlertOk
      <3>2. \A u \in Devices : Openable(u, ui'[u])
        BY <1>0, <3>1, AlertOpens
      <3> QED
        BY <1>0, <1>3, <3>1, <3>2, PictureShown DEF AlertOk
    <2> QED
      BY <2>1, <2>2
  <1>4. CASE ShowStep(v)
    <2>1. \A u \in Devices : Openable(u, ui'[u])
      BY <1>0, <1>4, ShowOpens
    <2> QED
      BY <1>0, <1>4, <2>1, ShowStepShows, PictureShown
  <1>5. ASSUME NEW d \in Docs, NEW form \in Forms, NEW t \in Tasks,
               uploadButton(v, d, form, t)
        PROVE  PictureInv'
    <2> DEFINE w == Write("add", d, AddPatch(form, UserOf[v]))
    <2>1. w \in Writes /\ w.kind = "add" /\ Enqueue(v, w)
      BY <1>5, UserReal, WriteTypes DEF Write, uploadButton
    <2>2. UNCHANGED <<server, sent, ui, deleted>>
      BY <1>5 DEF uploadButton
    <2> HIDE DEF w
    <2> QED
      BY <1>0, <1>1, <2>1, <2>2, PictureEnqueued
  <1>6. ASSUME NEW form \in Forms, NEW t \in Tasks, updateButton(v, form, t)
        PROVE  PictureInv'
    <2> DEFINE d == ui[v].docPath
               w == Write("form", d, Merge(Fields, "form", form))
    <2>1. UNCHANGED <<server, deleted>>
      BY <1>6 DEF updateButton
    <2>2. CASE Trap(v) /\ UNCHANGED queue
      BY <1>0, <2>1, <2>2, PictureTrap
    <2>3. CASE d # Absent /\ Enqueue(v, w) /\ (Trap(v) \/ UNCHANGED <<ui, sent>>)
      <3>1. d \in Docs
        BY <2>3 DEF OwnInv, ScreensOwn, OnScreen
      <3>2. w \in Writes /\ w.kind = "form"
        BY <3>1, MergeTypes DEF Write
      <3>3. /\ \A u \in Devices : sent'[u] \in {0, sent[u]}
            /\ \A u \in Devices : Openable(u, ui'[u])
        BY <1>0, <1>1, <2>3, TrapEnds, TrapOpens
      <3> HIDE DEF w, d
      <3> QED
        BY <1>0, <2>1, <2>3, <3>2, <3>3, PictureEnqueued
    <2> QED
      BY <1>6, <2>2, <2>3 DEF updateButton
  <1>7. CASE ConfirmDelete(v)
    <2> DEFINE d == ui[v].docPath
               w == Write("delete", d, Delete(Fields))
    <2>1. CASE d = Absent
      BY <1>0, <1>7, <2>1, PictureTrap DEF ConfirmDelete
    <2>2. CASE d # Absent
      <3>1. d \in Docs
        BY <2>2 DEF OwnInv, ScreensOwn, OnScreen
      <3>2. w \in Writes /\ w.doc = d
        BY <3>1, MergeTypes DEF Write
      <3>3. /\ Enqueue(v, w) /\ UNCHANGED <<server, sent>>
            /\ deleted' = deleted \cup {d}
            /\ ui' = [ui EXCEPT ![v].alert = "deleted"]
        BY <1>7, <2>2 DEF ConfirmDelete
      <3>4. \A u \in Devices : Openable(u, ui'[u])
        BY <1>0, <3>3, AlertOpens
      <3> HIDE DEF w, d
      <3> QED
        BY <1>0, <3>2, <3>3, <3>4, PictureEnqueued
    <2> QED
      BY <2>1, <2>2
  <1> QED
    BY <1>2, <1>3, <1>4, <1>5, <1>6, <1>7 DEF UserStep, ShowStep

LEMMA ReadPicture ==
  ASSUME TypeOK, TypeOK', OwnInv, OrderInv, PictureInv, NEW v \in Devices,
         ReadStep(v)
  PROVE  PictureInv'
  <1>1. \A u \in Devices : sent'[u] \in {0, sent[u]}
    BY ReadShows, TrapEnds
  <1> QED
    BY <1>1, ReadShows, ReadOpens, PictureShown DEF OrderInv

LEMMA TaskPicture ==
  ASSUME TypeOK, TypeOK', OwnInv, OrderInv, PictureInv, NEW t \in Tasks,
         TaskStep(t)
  PROVE  PictureInv'
  <1> DEFINE v == task[t].dev
             d == task[t].doc
  <1>0. SentApplied /\ RowsOpen /\ \A u \in Devices : Openable(u, ui[u])
    BY DEF OrderInv, PictureInv, RowsOpen
  <1>1. task[t] \in ActiveTasks /\ task[t] # NoTask
    BY DEF TypeOK, TaskStep, AddCompleted, PutCompleted, PutFailed,
           UrlCompleted, UrlFailed, NoTask
  <1>2. v \in Devices /\ d \in Docs
    BY <1>1 DEF ActiveTasks
  <1>3. CASE AddCompleted(t)
    <2> DEFINE w == Write("ref", d, Merge(Fields, "ref", d))
    <2>1. Enqueue(v, w) /\ w \in Writes /\ w.kind = "ref"
          /\ UNCHANGED <<server, sent, ui, deleted>>
      BY <1>2, <1>3, MergeTypes DEF AddCompleted, Write
    <2> HIDE DEF w, v, d
    <2> QED
      BY <1>0, <1>2, <2>1, PictureEnqueued
  <1>4. CASE PutCompleted(t) \/ PutFailed(t)
    BY <1>0, <1>4, PictureShown DEF PutCompleted, PutFailed
  <1>5. CASE UrlCompleted(t)
    <2> DEFINE w == Write("image", d, Merge(Fields, "image", d))
    <2>1. Enqueue(v, w) /\ w \in Writes /\ w.kind = "image"
          /\ UNCHANGED <<server, sent, deleted>>
      BY <1>2, <1>5, MergeTypes DEF UrlCompleted, Write
    <2>2. \A u \in Devices : Openable(u, ui'[u])
      <3>1. CASE UNCHANGED ui
        BY <1>0, <3>1
      <3>2. CASE ui' = [ui EXCEPT ![v].alert = SuccessAlert(task[t].vc)]
        BY <1>0, <1>2, <3>2, AlertOpens
      <3> QED
        BY <1>5, <3>1, <3>2 DEF UrlCompleted
    <2> HIDE DEF w, v, d
    <2> QED
      BY <1>0, <1>2, <2>1, <2>2, PictureEnqueued
  <1>6. CASE UrlFailed(t)
    BY <1>0, <1>2, <1>6, PictureTrap DEF UrlFailed
  <1> QED
    BY <1>3, <1>4, <1>5, <1>6 DEF TaskStep

LEMMA WriteAppliedPicture ==
  ASSUME TypeOK, OwnInv, OrderInv, PictureInv, NEW v \in Devices,
         WriteApplied(v)
  PROVE  PictureInv'
  <1> DEFINE n == sent[v]
             w == queue[v][n + 1]
             e == w.doc
  <1>1. n + 1 \in DOMAIN queue[v] /\ w \in Writes
        /\ WriteOwn(v, w, owner, storage)
    BY NextWriteType, QueuedOwn DEF OwnInv
  <1>2. e \in Docs /\ n \in Nat /\ w.kind \in Kinds /\ e # Absent
        /\ server[e] \in [Fields -> Values \cup {Absent}]
    BY <1>1, ConstantsAssumption DEF Writes, TypeOK, Posting
  <1>3. /\ server' = [server EXCEPT ![e] = Apply(server[e], w.patch)]
        /\ UNCHANGED <<queue, ui, deleted>>
        /\ sent' = [sent EXCEPT ![v] = n + 1]
    BY DEF WriteApplied, Commit
  <1>4. /\ server'[e] = Apply(server[e], w.patch)
        /\ \A d \in Docs : d # e => server'[d] = server[d]
    BY <1>2, <1>3 DEF TypeOK
  <1>5. /\ w.kind = "add" => server'[e] = w.patch
        /\ w.kind = "ref" => server'[e] = [server[e] EXCEPT !["ref"] = e]
        /\ w.kind = "image" => server'[e] = [server[e] EXCEPT !["image"] = e]
        /\ w.kind = "form" => \E form \in Forms :
              server'[e] = [server[e] EXCEPT !["form"] = form]
        /\ w.kind = "delete" => server'[e] = NoPosting
    <2> HIDE DEF w
    <2> QED BY <1>1, <1>4, Written
  <1>6. w.kind \in {"add", "delete"} => server'[e]["image"] = Absent
    <2>1. w.kind = "add" => w.patch["image"] = Absent
      BY <1>1, Touched
    <2> QED
      BY <1>5, <2>1 DEF NoPosting, Missing, Fields
  <1>7. w.kind \in {"ref", "form"} =>
           server'[e]["image"] = server[e]["image"]
    <2> HIDE DEF w, e
    <2> QED
      BY <1>2, <1>5 DEF Fields
  <1>8. w.kind = "image" =>
           /\ server'[e]["image"] = e
           /\ server'[e]["user"] = server[e]["user"]
           /\ server'[e]["ref"] = server[e]["ref"]
    <2> HIDE DEF w, e
    <2> QED
      BY <1>2, <1>5 DEF Fields
  <1>9. ASSUME NEW d \in Docs, ~AddQueued(d), server[d]["image"] # Absent
        PROVE  d \in deleted \/ server'[d]["image"] # Absent
    <2>1. CASE d # e
      BY <1>4, <1>9, <2>1
    <2>2. CASE d = e
      <3>1. w.kind # "add"
        BY <1>1, <1>9, <2>2 DEF AddQueued
      <3>2. w.kind = "delete" => d \in deleted
        BY <1>1, <2>2 DEF PictureInv, ImagesStored
      <3> QED
        BY <1>2, <1>7, <1>8, <1>9, <2>2, <3>1, <3>2 DEF Kinds
    <2> QED
      BY <2>1, <2>2
  <1>10. \A d \in Docs : server'[d]["image"] # Absent =>
            server'[d]["user"] = Absent \/ server'[d]["ref"] # Absent
    <2> SUFFICES ASSUME server'[e]["image"] # Absent
                 PROVE  server'[e]["user"] = Absent \/ server'[e]["ref"] # Absent
      BY <1>4 DEF PictureInv, ImagesStored
    <2>1. CASE w.kind = "ref"
      <3> HIDE DEF w, e
      <3> QED BY <1>2, <1>5, <2>1 DEF Fields
    <2>2. CASE w.kind = "image"
      <3>1. server[e]["user"] = Absent \/ server[e]["ref"] # Absent
        BY <2>2, AppliedTagged DEF Board!Tagged
      <3> QED
        BY <1>8, <2>2, <3>1
    <2>3. CASE w.kind = "form"
      <3>1. server'[e]["user"] = server[e]["user"]
            /\ server'[e]["ref"] = server[e]["ref"]
        <4> HIDE DEF w, e
        <4> QED BY <1>2, <1>5, <2>3 DEF Fields
      <3>2. server[e]["user"] = Absent \/ server[e]["ref"] # Absent
        BY <1>2, <1>7, <2>3 DEF PictureInv, ImagesStored
      <3> QED
        BY <3>1, <3>2
    <2> QED
      BY <1>2, <1>6, <2>1, <2>2, <2>3 DEF Kinds
  <1>11. ASSUME NEW u \in Devices, NEW i \in 1..sent'[u],
                queue[u][i].kind = "image"
         PROVE  \/ queue[u][i].doc \in deleted
                \/ server'[queue[u][i].doc]["image"] # Absent
    <2>1. /\ sent[u] \in Nat /\ sent[u] <= Len(queue[u])
          /\ DOMAIN queue[u] = 1..Len(queue[u]) /\ Len(queue[u]) \in Nat
      BY DEF TypeOK, OrderInv, SentApplied
    <2>2. CASE u = v /\ i = n + 1
      BY <1>2, <1>8, <1>11, <2>2
    <2>3. CASE i \in 1..sent[u]
      <3>1. i \in DOMAIN queue[u]
        BY <2>1, <2>3
      <3>2. queue[u][i].doc \in Docs
        BY <3>1, QueuedOwn DEF OwnInv, Writes
      <3>3. ~AddQueued(queue[u][i].doc)
        BY <1>11, <3>1 DEF AddQueued, OrderInv, AddAlone
      <3>4. \/ queue[u][i].doc \in deleted
            \/ server[queue[u][i].doc]["image"] # Absent
        BY <1>11, <2>3 DEF PictureInv, ImagesStored
      <3> QED
        BY <1>9, <3>2, <3>3, <3>4
    <2>4. i \in 1..sent[u] \/ (u = v /\ i = n + 1)
      BY <1>2, <1>3, <2>1 DEF TypeOK
    <2> QED
      BY <2>2, <2>3, <2>4
  <1>12. ImagesStored'
    <2>1. ASSUME NEW u \in Devices, NEW i \in DOMAIN queue'[u],
                 queue'[u][i].kind = "delete"
          PROVE  queue'[u][i].doc \in deleted'
      BY <1>3, <2>1 DEF PictureInv, ImagesStored
    <2>2. ASSUME NEW u \in Devices, NEW i \in 1..sent'[u],
                 queue'[u][i].kind = "image"
          PROVE  \/ queue'[u][i].doc \in deleted'
                 \/ server'[queue'[u][i].doc]["image"] # Absent
      BY <1>3, <1>11, <2>2
    <2> QED
      BY <1>10, <2>1, <2>2 DEF ImagesStored
  <1>13. RowsOpen'
    <2>1. \A u \in Devices : Openable(u, ui'[u])
      BY <1>3 DEF PictureInv, RowsOpen
    <2>2. ASSUME NEW u \in Devices, NEW d \in OnScreen(u)', Illustrated(u, d)
          PROVE  IllustratedAfter(u, d)
      <3>1. d \in OnScreen(u)
        BY <1>3 DEF OnScreen
      <3>2. d \in Docs
        BY <3>1 DEF OwnInv, ScreensOwn
      <3>3. ~AddQueued(d)
        BY <3>1, Known
      <3> QED
        BY <1>3, <1>9, <2>2, <3>2, <3>3 DEF Illustrated, IllustratedAfter
    <2> QED
      BY <2>1, <2>2, RowsGrow
  <1> QED
    BY <1>12, <1>13 DEF PictureInv

LEMMA TailPicture ==
  ASSUME TypeOK, OrderInv, PictureInv, NEW v \in Devices, queue[v] # <<>>,
         queue' = [queue EXCEPT ![v] = Tail(@)],
         sent'[v] \in Nat, sent'[v] = 0 \/ sent'[v] + 1 = sent[v],
         \A u \in Devices : u # v => sent'[u] = sent[u],
         LET w == queue[v][1]
         IN  w.kind = "image" =>
                w.doc \in deleted \/ server[w.doc]["image"] # Absent,
         UNCHANGED <<server, ui, deleted>>
  PROVE  PictureInv'
  <1>1. queue \in [Devices -> Seq(Writes)] /\ queue[v] \in Seq(Writes)
    BY DEF TypeOK
  <1>2. \A u \in Devices : u # v => queue'[u] = queue[u]
    BY <1>1
  <1>3. /\ DOMAIN queue'[v] = 1..(Len(queue[v]) - 1)
        /\ DOMAIN queue[v] = 1..Len(queue[v]) /\ Len(queue[v]) \in Nat
        /\ \A i \in DOMAIN queue'[v] :
              /\ i + 1 \in DOMAIN queue[v]
              /\ queue'[v][i] = queue[v][i + 1]
        /\ \A i \in DOMAIN queue[v] : i # 1 =>
              /\ i - 1 \in DOMAIN queue'[v]
              /\ queue'[v][i - 1] = queue[v][i]
    BY <1>1
  <1>4. ASSUME NEW u \in Devices, NEW d, Illustrated(u, d)
        PROVE  IllustratedAfter(u, d)
    <2>1. CASE d \in deleted \/ server[d]["image"] # Absent
      BY <2>1 DEF IllustratedAfter
    <2>2. ASSUME NEW i \in DOMAIN queue[u], queue[u][i].kind = "image",
                 queue[u][i].doc = d
          PROVE  IllustratedAfter(u, d)
      <3>1. CASE u # v
        BY <1>2, <2>2, <3>1 DEF IllustratedAfter
      <3>2. CASE u = v /\ i = 1
        BY <2>2, <3>2 DEF IllustratedAfter
      <3>3. CASE u = v /\ i # 1
        <4>1. i - 1 \in DOMAIN queue'[v] /\ queue'[v][i - 1] = queue[v][i]
          BY <1>3, <3>3
        <4> QED
          BY <2>2, <3>3, <4>1 DEF IllustratedAfter
      <3> QED
        BY <3>1, <3>2, <3>3
    <2> QED
      BY <1>4, <2>1, <2>2 DEF Illustrated
  <1>5. RowsOpen'
    <2>1. \A u \in Devices : Openable(u, ui'[u])
      BY DEF PictureInv, RowsOpen
    <2> QED
      BY <1>4, <2>1, RowsGrow
  <1>6. ASSUME NEW u \in Devices, NEW i \in DOMAIN queue'[u],
               queue'[u][i].kind = "delete"
        PROVE  queue'[u][i].doc \in deleted'
    <2>1. CASE u # v
      BY <1>2, <1>6, <2>1 DEF PictureInv, ImagesStored
    <2>2. CASE u = v
      BY <1>3, <1>6, <2>2 DEF PictureInv, ImagesStored
    <2> QED
      BY <2>1, <2>2
  <1>7. ASSUME NEW u \in Devices, NEW i \in 1..sent'[u],
               queue'[u][i].kind = "image"
        PROVE  \/ queue'[u][i].doc \in deleted'
               \/ server'[queue'[u][i].doc]["image"] # Absent
    <2>1. CASE u # v
      BY <1>2, <1>7, <2>1 DEF PictureInv, ImagesStored
    <2>2. CASE u = v
      <3>1. /\ sent[v] \in Nat /\ sent[v] <= Len(queue[v])
        BY DEF TypeOK, OrderInv, SentApplied
      <3>2. i + 1 \in 1..sent[v] /\ i \in DOMAIN queue'[v]
        BY <1>3, <2>2, <3>1
      <3>3. queue'[v][i] = queue[v][i + 1]
        BY <1>3, <3>2
      <3> QED
        BY <1>7, <2>2, <3>2, <3>3 DEF PictureInv, ImagesStored
    <2> QED
      BY <2>1, <2>2
  <1>8. ImagesStored'
    BY <1>6, <1>7 DEF ImagesStored, PictureInv
  <1> QED
    BY <1>5, <1>8 DEF PictureInv

LEMMA StreamPicture ==
  ASSUME ImagesAccepted, TypeOK, OwnInv, OrderInv, PictureInv,
         NEW v \in Devices, StreamStep(v)
  PROVE  PictureInv'
  <1>1. CASE WriteApplied(v)
    BY <1>1, WriteAppliedPicture
  <1>2. CASE StreamBroken(v)
    <2>1. \A u \in Devices : sent'[u] \in {0, sent[u]}
      BY <1>2 DEF StreamBroken, TypeOK
    <2>2. \A u \in Devices : Openable(u, ui'[u])
      BY <1>2 DEF StreamBroken, PictureInv, RowsOpen
    <2> QED
      BY <1>2, <2>1, <2>2, PictureShown DEF StreamBroken, OrderInv
  <1>3. CASE WriteAcknowledged(v) \/ WriteRejected(v)
    <2> DEFINE w == queue[v][1]
    <2>1. /\ queue[v] # <<>> /\ queue[v] \in Seq(Writes) /\ sent[v] \in Nat
          /\ sent[v] <= Len(queue[v])
      BY <1>3 DEF WriteAcknowledged, WriteRejected, TypeOK, OrderInv, SentApplied
    <2>2. w.kind = "image" =>
             w.doc \in deleted \/ server[w.doc]["image"] # Absent
      <3>1. CASE sent[v] > 0
        BY <2>1, <3>1 DEF PictureInv, ImagesStored
      <3>2. CASE sent[v] = 0
        BY <1>3, <3>2 DEF WriteAcknowledged, WriteRejected, ImagesAccepted
      <3> QED
        BY <2>1, <3>1, <3>2
    <2>3. /\ sent'[v] \in Nat /\ (sent'[v] = 0 \/ sent'[v] + 1 = sent[v])
          /\ \A u \in Devices : u # v => sent'[u] = sent[u]
      BY <1>3, <2>1 DEF WriteAcknowledged, WriteRejected, TypeOK
    <2>4. /\ queue' = [queue EXCEPT ![v] = Tail(@)]
          /\ UNCHANGED <<server, ui, deleted>>
      BY <1>3 DEF WriteAcknowledged, WriteRejected
    <2> QED
      BY <2>1, <2>2, <2>3, <2>4, TailPicture
  <1> QED
    BY <1>1, <1>2, <1>3 DEF StreamStep

LEMMA PictureInit == Init => PictureInv
  <1> SUFFICES ASSUME Init PROVE PictureInv
    OBVIOUS
  <1>1. ImagesStored
    BY DEF Init, ImagesStored, NoPosting, Missing, Fields
  <1>2. RowsOpen
    BY ClosedOpens DEF Init, RowsOpen
  <1> QED
    BY <1>1, <1>2 DEF PictureInv

LEMMA PictureStep ==
  ImagesAccepted /\ TypeOK /\ OwnInv /\ OrderInv /\ PictureInv /\ [Next]_vars
    => PictureInv'
  <1> SUFFICES ASSUME ImagesAccepted, TypeOK, OwnInv, OrderInv, PictureInv,
                      [Next]_vars
               PROVE  PictureInv'
    OBVIOUS
  <1>0. TypeOK'
    BY TypeStep
  <1>1. ASSUME NEW v \in Devices, Kill(v) PROVE PictureInv'
    BY <1>1, PictureTrap DEF Kill, OrderInv
  <1>2. CASE UNCHANGED vars
    <2>1. \A u \in Devices : Openable(u, ui'[u])
      BY <1>2 DEF vars, PictureInv, RowsOpen
    <2> QED
      BY <1>2, <2>1, PictureShown DEF vars, OrderInv
  <1> QED
    BY <1>0, <1>1, <1>2, UserPicture, ReadPicture, StreamPicture, TaskPicture
       DEF Next

(* The update screen always has a DocPath, and the Image of a posting that *)
(* nobody has deleted is there when loadPosting unwraps it, as long as the *)
(* backend refuses no Ref and no Image (UpdatePostingsViewController).     *)
THEOREM UpdateScreenIsSafe ==
  RefsAccepted /\ ImagesAccepted /\ Spec => []UpdateScreenSafe
  <1> SUFFICES ASSUME RefsAccepted, ImagesAccepted
               PROVE  Spec => []UpdateScreenSafe
    OBVIOUS
  <1>1. TypeOK /\ OwnInv /\ OrderInv /\ [Next]_vars => OrderInv'
    BY OrderStep
  <1>2. TypeOK /\ OwnInv /\ OrderInv /\ PictureInv /\ [Next]_vars => PictureInv'
    BY PictureStep
  <1>3. TypeOK /\ OwnInv /\ OrderInv /\ PictureInv => UpdateScreenSafe
    <2> SUFFICES ASSUME TypeOK, OwnInv, OrderInv, PictureInv,
                        NEW v \in Devices, ui[v].screen = "update"
                 PROVE  /\ ui[v].docPath # Absent
                        /\ \A d \in Matching(v) \ deleted :
                              View(v)[d]["image"] # Absent
      BY DEF UpdateScreenSafe
    <2>1. ui[v].docPath # Absent /\ Illustrated(v, ui[v].docPath)
      BY DEF PictureInv, RowsOpen, Openable
    <2>2. ui[v].docPath \in OnScreen(v)
      BY <2>1 DEF OnScreen
    <2>3. ~AddQueued(ui[v].docPath)
      BY <2>2, Known
    <2>4. ASSUME NEW d \in Matching(v) \ deleted
          PROVE  View(v)[d]["image"] # Absent
      <3>1. d \in Docs /\ View(v)[d]["ref"] = ui[v].docPath
        BY DEF Matching
      <3>2. d = ui[v].docPath
        BY <2>1, <3>1, ViewOwn
      <3> QED
        BY <2>1, <2>3, <3>1, <3>2, ImageSeen DEF PictureInv
    <2> QED
      BY <2>1, <2>4
  <1> QED
    BY <1>1, <1>2, <1>3, TypeInit, TypeStep, OwnInit, OwnStep, OrderInit,
       PictureInit, PTL DEF Spec

-----------------------------------------------------------------------------
(* An announced photo is never lost.                                       *)

(* Whatever is no step of a write stream only adds to a queue.             *)
LEMMA UserAppends ==
  ASSUME TypeOK, NEW v \in Devices, UserStep(v)
  PROVE  /\ UNCHANGED server /\ deleted \subseteq deleted'
         /\ UNCHANGED queue \/ \E w : Enqueue(v, w)
  <1>1. ASSUME Back(v) \/ AlertOk(v)
        PROVE  UNCHANGED <<server, queue, deleted>>
    BY <1>1 DEF Back, AlertOk
  <1>2. CASE ShowStep(v)
    BY <1>2, ShowStepShows
  <1>3. ASSUME NEW d \in Docs, NEW form \in Forms, NEW t \in Tasks,
               uploadButton(v, d, form, t)
        PROVE  UNCHANGED <<server, deleted>> /\ \E w : Enqueue(v, w)
    BY <1>3 DEF uploadButton
  <1>4. ASSUME NEW form \in Forms, NEW t \in Tasks, updateButton(v, form, t)
        PROVE  UNCHANGED <<server, deleted>>
               /\ (UNCHANGED queue \/ \E w : Enqueue(v, w))
    BY <1>4 DEF updateButton
  <1>5. ASSUME ConfirmDelete(v)
        PROVE  /\ UNCHANGED server /\ deleted \subseteq deleted'
               /\ (UNCHANGED queue \/ \E w : Enqueue(v, w))
    BY <1>5 DEF ConfirmDelete
  <1> QED
    BY <1>1, <1>2, <1>3, <1>4, <1>5 DEF UserStep, ShowStep

LEMMA ReadKill ==
  ASSUME NEW v \in Devices, ReadStep(v) \/ Kill(v)
  PROVE  UNCHANGED <<server, queue, deleted>>
  <1>1. ASSUME NEW list \in Tables, loadFireBaseData(v, list)
        PROVE  UNCHANGED <<server, queue, deleted>>
    BY <1>1 DEF loadFireBaseData
  <1>2. ASSUME loadPosting(v) \/ Kill(v)
        PROVE  UNCHANGED <<server, queue, deleted>>
    BY <1>2 DEF loadPosting, Kill
  <1>3. ASSUME NEW l \in Loads, LoadError(v, l)
        PROVE  UNCHANGED <<server, queue, deleted>>
    BY <1>3 DEF LoadError
  <1>4. ASSUME NEW ok \in BOOLEAN, ImageLoaded(v, ok)
        PROVE  UNCHANGED <<server, queue, deleted>>
    BY <1>4 DEF ImageLoaded
  <1> QED
    BY <1>1, <1>2, <1>3, <1>4 DEF ReadStep

LEMMA OthersAppend ==
  ASSUME TypeOK, [Next]_vars, \A v \in Devices : ~StreamStep(v)
  PROVE  /\ UNCHANGED server /\ deleted \subseteq deleted'
         /\ \/ UNCHANGED queue
            \/ \E v \in Devices : \E w : Enqueue(v, w)
  <1>1. ASSUME NEW v \in Devices, ReadStep(v) \/ Kill(v)
        PROVE  UNCHANGED <<server, queue, deleted>>
    BY <1>1, ReadKill
  <1>2. ASSUME NEW t \in Tasks, TaskStep(t)
        PROVE  /\ UNCHANGED <<server, deleted>>
               /\ \/ UNCHANGED queue
                  \/ \E v \in Devices : \E w : Enqueue(v, w)
    <2>1. task[t].dev \in Devices
      <3>1. task[t] \in ActiveTasks
        BY <1>2 DEF TypeOK, TaskStep, AddCompleted, PutCompleted, PutFailed,
                    UrlCompleted, UrlFailed, NoTask
      <3> QED
        BY <3>1 DEF ActiveTasks
    <2>2. CASE AddCompleted(t)
      BY <2>1, <2>2 DEF AddCompleted
    <2>3. CASE UrlCompleted(t)
      BY <2>1, <2>3 DEF UrlCompleted
    <2>4. CASE PutCompleted(t) \/ PutFailed(t) \/ UrlFailed(t)
      BY <2>4 DEF PutCompleted, PutFailed, UrlFailed
    <2> QED
      BY <1>2, <2>2, <2>3, <2>4 DEF TaskStep
  <1> QED
    BY <1>1, <1>2, UserAppends DEF Next, vars

(* A write that is appended leaves the others where they were.             *)
LEMMA AppendedAfter ==
  ASSUME TypeOK, NEW v \in Devices, NEW w, Enqueue(v, w),
         NEW u \in Devices, NEW i \in DOMAIN queue[u]
  PROVE  i \in DOMAIN queue'[u] /\ queue'[u][i] = queue[u][i]
  <1>1. queue \in [Devices -> Seq(Writes)]
    BY DEF TypeOK
  <1>2. CASE u # v
    BY <1>1, <1>2 DEF Enqueue
  <1>3. CASE u = v
    <2>1. queue[v] \in Seq(Writes) /\ queue'[v] = Append(queue[v], w)
      BY <1>1 DEF Enqueue
    <2> QED
      BY <1>3, <2>1
  <1> QED
    BY <1>2, <1>3

(* A stored Image outlives every write but a deletion the user confirmed.  *)
LEMMA ImageStays ==
  ASSUME TypeOK, OwnInv, OrderInv, PictureInv, NEW v \in Devices,
         WriteApplied(v), NEW d \in Docs, server[d]["image"] # Absent
  PROVE  d \in deleted \/ server'[d]["image"] # Absent
  <1> DEFINE n == sent[v] + 1
             w == queue[v][n]
  <1>1. /\ n \in DOMAIN queue[v] /\ w \in Writes
        /\ WriteOwn(v, w, owner, storage)
    BY NextWriteType, QueuedOwn DEF OwnInv
  <1>2. server' = [server EXCEPT ![w.doc] = Apply(server[w.doc], w.patch)]
    BY DEF WriteApplied, Commit
  <1>3. server[d] \in [Fields -> Values \cup {Absent}] /\ "image" \in Fields
    BY DEF TypeOK, Posting, Fields
  <1> HIDE DEF w
  <1>4. CASE w.doc # d
    BY <1>2, <1>4 DEF TypeOK
  <1>5. CASE w.doc = d
    <2>1. server'[d]["image"] = IF w.patch["image"] = Keep
                                THEN server[d]["image"] ELSE w.patch["image"]
      BY <1>2, <1>3, <1>5 DEF Apply, TypeOK
    <2>2. w.kind # "add"
      BY <1>1, <1>5, AddedBare DEF AddQueued, OrderInv, w
    <2>3. w.kind = "delete" => d \in deleted
      BY <1>1, <1>5 DEF PictureInv, ImagesStored, w
    <2>4. w.kind = "image" => w.patch["image"] # Absent
      BY <1>1, <1>5, Touched, ConstantsAssumption
    <2>5. w.patch["image"] # Keep => w.kind \in {"add", "image", "delete"}
      BY <1>1, Touched
    <2> QED
      BY <2>1, <2>2, <2>3, <2>4, <2>5
  <1> QED
    BY <1>4, <1>5

(* A write leaves its queue when it has been applied, or been refused.     *)
LEMMA HeadIsStored ==
  ASSUME ImagesAccepted, TypeOK, OwnInv, OrderInv, PictureInv,
         NEW v \in Devices, WriteAcknowledged(v) \/ WriteRejected(v),
         queue[v][1].kind = "image"
  PROVE  \/ queue[v][1].doc \in deleted
         \/ server[queue[v][1].doc]["image"] # Absent
  <1>1. /\ queue[v] # <<>> /\ queue[v] \in Seq(Writes) /\ sent[v] \in Nat
        /\ sent[v] <= Len(queue[v])
    BY DEF WriteAcknowledged, WriteRejected, TypeOK, OrderInv, SentApplied
  <1>2. CASE sent[v] > 0
    BY <1>1, <1>2 DEF PictureInv, ImagesStored
  <1>3. CASE sent[v] = 0
    BY <1>3 DEF WriteAcknowledged, WriteRejected, ImagesAccepted
  <1> QED
    BY <1>1, <1>2, <1>3

LEMMA PromiseKept ==
  ASSUME ImagesAccepted, TypeOK, OwnInv, OrderInv, PictureInv, OwnInv',
         [Next]_vars, NEW d \in Docs, Promised(d), d \notin deleted
  PROVE  Promised(d)'
  <1>0. d # Absent
    BY ConstantsAssumption
  <1>1. server'[d]["image"] # Absent => Promised(d)'
    BY DEF OwnInv, FieldsOwn, Promised
  <1>2. CASE \A v \in Devices : ~StreamStep(v)
    <2>1. /\ UNCHANGED server
          /\ \/ UNCHANGED queue
             \/ \E v \in Devices : \E w : Enqueue(v, w)
      BY <1>2, OthersAppend
    <2>2. ASSUME ImageQueued(d)
          PROVE  ImageQueued(d)'
      BY <2>1, <2>2, AppendedAfter DEF ImageQueued
    <2> QED
      BY <2>1, <2>2 DEF Promised
  <1>3. ASSUME NEW v \in Devices, StreamStep(v)
        PROVE  Promised(d)'
    <2>1. CASE WriteApplied(v)
      <3>1. CASE server[d]["image"] # Absent
        BY <1>1, <2>1, <3>1, ImageStays
      <3>2. CASE ImageQueued(d)
        BY <2>1, <3>2 DEF WriteApplied, ImageQueued, Promised
      <3> QED
        BY <1>0, <3>1, <3>2 DEF Promised
    <2>2. CASE StreamBroken(v)
      BY <2>2 DEF StreamBroken, Promised, ImageQueued
    <2>3. CASE WriteAcknowledged(v) \/ WriteRejected(v)
      <3>1. /\ queue' = [queue EXCEPT ![v] = Tail(@)] /\ UNCHANGED server
            /\ queue[v] # <<>> /\ queue[v] \in Seq(Writes)
            /\ queue \in [Devices -> Seq(Writes)]
        BY <2>3 DEF WriteAcknowledged, WriteRejected, TypeOK
      <3>2. ASSUME NEW u \in Devices, NEW i \in DOMAIN queue[u],
                   queue[u][i].doc = d, queue[u][i].kind = "image"
            PROVE  Promised(d)'
        <4>1. CASE u # v
          BY <3>1, <3>2, <4>1 DEF Promised, ImageQueued
        <4>2. CASE u = v /\ i = 1
          BY <1>1, <2>3, <3>1, <3>2, <4>2, HeadIsStored
        <4>3. CASE u = v /\ i # 1
          <5>1. /\ i - 1 \in DOMAIN queue'[v]
                /\ queue'[v][i - 1] = queue[v][i]
            BY <3>1, <4>3
          <5> QED
            BY <3>2, <4>3, <5>1 DEF Promised, ImageQueued
        <4> QED
          BY <4>1, <4>2, <4>3
      <3> QED
        BY <3>1, <3>2 DEF Promised, ImageQueued
    <2> QED
      BY <1>3, <2>1, <2>2, <2>3 DEF StreamStep
  <1> QED
    BY <1>2, <1>3

(* From the moment the Image of a posting is queued, and "Upload           *)
(* Sucessfull" is due, it is stored or queued after every step until the   *)
(* deletion of the posting is confirmed: neither a restart, a broken       *)
(* stream, a repeated addDocument nor another device's write loses it, as  *)
(* long as the backend refuses no Ref and no Image.                        *)
THEOREM AnnouncedIsKept ==
  RefsAccepted /\ ImagesAccepted /\ Spec => AnnouncedKept
  <1> SUFFICES ASSUME RefsAccepted, ImagesAccepted
               PROVE  Spec => AnnouncedKept
    OBVIOUS
  <1>1. TypeOK /\ OwnInv /\ OrderInv /\ [Next]_vars => OrderInv'
    BY OrderStep
  <1>2. TypeOK /\ OwnInv /\ OrderInv /\ PictureInv /\ [Next]_vars => PictureInv'
    BY PictureStep
  <1>3. TypeOK /\ OwnInv /\ OrderInv /\ PictureInv /\ OwnInv' /\ [Next]_vars
          => [\A d \in Docs : Promised(d) => Promised(d)' \/ d \in deleted']_vars
    <2> SUFFICES ASSUME TypeOK, OwnInv, OrderInv, PictureInv, OwnInv',
                        [Next]_vars, NEW d \in Docs, Promised(d)
                 PROVE  Promised(d)' \/ d \in deleted'
      OBVIOUS
    <2>1. deleted \subseteq deleted'
      BY OthersAppend
         DEF StreamStep, WriteApplied, StreamBroken, WriteAcknowledged,
             WriteRejected
    <2> QED
      BY <2>1, PromiseKept
  <1> QED
    BY <1>1, <1>2, <1>3, TypeInit, TypeStep, OwnInit, OwnStep, OrderInit,
       PictureInit, PTL DEF Spec, AnnouncedKept

-----------------------------------------------------------------------------
(* No chain waits for what cannot come.                                    *)

(* A process that ends takes its chains with it.                           *)
DiesWithChains ==
    \A u \in Devices : \/ ui'[u].screen # "down"
                       \/ ui[u].screen = "down"
                       \/ \A t \in Tasks : task'[t].dev # u

LEMMA TrapDies ==
  ASSUME TypeOK, NEW v \in Devices, Trap(v)
  PROVE  DiesWithChains
  <1>1. \A u \in Devices : u # v => ui'[u] = ui[u]
    BY DEF Trap, TypeOK
  <1>2. \A t \in Tasks : task'[t].dev # v
    BY ConstantsAssumption DEF Trap, NoTask
  <1> QED
    BY <1>1, <1>2 DEF DiesWithChains

LEMMA PopDies ==
  ASSUME TypeOK, NEW v \in Devices, Pop(v)
  PROVE  DiesWithChains
  <1> DEFINE list == Below(ui[v].screen)
  <1>1. CASE ~ui[v].drawable[list]
    BY <1>1, TrapDies DEF Pop
  <1>2. CASE ui[v].drawable[list]
    <2> DEFINE scr == ui[v].screen
               nf == [l \in Loads |-> IF l = scr THEN 0
                          ELSE ui[v].fetch[l] + (IF l = list THEN 1 ELSE 0)]
               nr == IF scr = "manage" THEN {} ELSE ui[v].refs
               nd == [l \in Tables |-> l = scr \/ ui[v].drawable[l]]
               x == [Closed EXCEPT !.screen = list, !.fetch = nf,
                                   !.drawable = nd, !.refs = nr]
    <2>1. ui' = [ui EXCEPT ![v] = x]
      BY <1>2 DEF Pop
    <2>2. x.screen = list
      BY DEF Closed
    <2>3. list # "down"
      BY DEF Below
    <2>4. ui \in [Devices -> UIs]
      BY DEF TypeOK
    <2> HIDE DEF list, x
    <2>5. ui'[v].screen = list
      BY <2>1, <2>2, <2>4
    <2>6. \A u \in Devices : u # v => ui'[u] = ui[u]
      BY <2>1, <2>4
    <2> QED
      BY <2>3, <2>5, <2>6 DEF DiesWithChains
  <1> QED
    BY <1>1, <1>2

LEMMA AlertDies ==
  ASSUME TypeOK, NEW v \in Devices, NEW a, ui' = [ui EXCEPT ![v].alert = a]
  PROVE  DiesWithChains
  <1>1. ui \in [Devices -> UIs] /\ ui[v] \in UIs
    BY DEF TypeOK
  <1>2. ui'[v].screen = ui[v].screen
    BY <1>1 DEF UIs
  <1>3. \A u \in Devices : u # v => ui'[u] = ui[u]
    BY <1>1
  <1> QED
    BY <1>2, <1>3 DEF DiesWithChains

LEMMA ShowDies ==
  ASSUME TypeOK, NEW v \in Devices, ShowStep(v)
  PROVE  DiesWithChains
  <1>1. ui \in [Devices -> UIs] /\ ui[v] \in UIs
    BY DEF TypeOK
  <1>2. \A u \in Devices : u # v => ui'[u] = ui[u]
    <2>1. ASSUME NEW x, ui' = [ui EXCEPT ![v] = x]
          PROVE  \A u \in Devices : u # v => ui'[u] = ui[u]
      BY <1>1, <2>1
    <2>2. CASE Launch(v) \/ OpenManage(v)
      BY <2>1, <2>2 DEF Launch, OpenManage
    <2>3. ASSUME NEW refNo \in ui[v].refs, SelectRow(v, refNo)
          PROVE  \A u \in Devices : u # v => ui'[u] = ui[u]
      BY <2>1, <2>3 DEF SelectRow
    <2>4. ASSUME NEW picked \in BOOLEAN, imagePickerController(v, picked)
          PROVE  \A u \in Devices : u # v => ui'[u] = ui[u]
      BY <1>1, <2>4 DEF imagePickerController
    <2>5. CASE CancelDelete(v) \/ InvalidDetails(v) \/ imageTapped(v)
                  \/ deleteButton(v)
      BY <1>1, <2>5 DEF CancelDelete, InvalidDetails, imageTapped, deleteButton
    <2>6. CASE SwitchTab(v) \/ OpenUpload(v)
      BY <1>1, <2>6 DEF SwitchTab, OpenUpload
    <2> QED
      BY <2>2, <2>3, <2>4, <2>5, <2>6 DEF ShowStep
  <1>3. CASE \/ CancelDelete(v) \/ InvalidDetails(v) \/ imageTapped(v)
             \/ deleteButton(v)
    BY <1>3, AlertDies DEF CancelDelete, InvalidDetails, imageTapped, deleteButton
  <1>4. ASSUME \/ Launch(v) \/ OpenUpload(v) \/ OpenManage(v)
               \/ \E refNo \in ui[v].refs : SelectRow(v, refNo)
        PROVE  ui'[v].screen # "down"
    <2>1. CASE Launch(v)
      <3> DEFINE x == [Closed EXCEPT !.screen = "market",
                                     !.fetch["market"] = FirstLoads]
      <3>1. ui' = [ui EXCEPT ![v] = x]
        BY <2>1 DEF Launch
      <3>2. x.screen = "market"
        BY DEF Closed
      <3> HIDE DEF x
      <3> QED
        BY <1>1, <3>1, <3>2
    <2>2. CASE OpenUpload(v)
      BY <1>1, <2>2 DEF OpenUpload, UIs
    <2>3. CASE OpenManage(v)
      BY <1>1, <2>3 DEF OpenManage, UIs
    <2>4. ASSUME NEW refNo \in ui[v].refs, SelectRow(v, refNo)
          PROVE  ui'[v].screen # "down"
      BY <1>1, <2>4 DEF SelectRow, UIs
    <2> QED
      BY <1>4, <2>1, <2>2, <2>3, <2>4
  <1>5. ASSUME SwitchTab(v)
        PROVE  ui'[v].screen # "down"
    BY <1>1, <1>5 DEF SwitchTab, Touchable, UIs
  <1>6. ASSUME NEW picked \in BOOLEAN, imagePickerController(v, picked)
        PROVE  ui'[v].screen = ui[v].screen
    BY <1>1, <1>6 DEF imagePickerController, UIs
  <1> QED
    BY <1>2, <1>3, <1>4, <1>5, <1>6 DEF DiesWithChains, ShowStep

LEMMA ReadDies ==
  ASSUME TypeOK, NEW v \in Devices, ReadStep(v)
  PROVE  DiesWithChains /\ TasksEnd
  <1>1. ui \in [Devices -> UIs] /\ ui[v] \in UIs
    BY DEF TypeOK
  <1>2. CASE Trap(v)
    BY <1>2, TrapDies, TrapEnds
  <1>3. CASE ~Trap(v)
    <2>1. ASSUME NEW list \in Tables, loadFireBaseData(v, list)
          PROVE  UNCHANGED task /\ ui'[v].screen = ui[v].screen
                 /\ \A u \in Devices : u # v => ui'[u] = ui[u]
      <3> DEFINE nd == Drawable(v, list)
                 nr == IF list = "manage" THEN Refs(v) ELSE ui[v].refs
                 nf == ui[v].fetch[list] - 1
      <3>1. /\ ui' = [ui EXCEPT ![v] = [@ EXCEPT !.fetch[list] = nf,
                            !.drawable[list] = nd, !.refs = nr]]
            /\ UNCHANGED task
        BY <1>3, <2>1 DEF loadFireBaseData
      <3> HIDE DEF nd, nr, nf
      <3> QED
        BY <1>1, <3>1 DEF UIs
    <2>2. ASSUME loadPosting(v)
          PROVE  UNCHANGED task /\ ui'[v].screen = ui[v].screen
                 /\ \A u \in Devices : u # v => ui'[u] = ui[u]
      <3> DEFINE nl == ui[v].loading \/ Matching(v) # {}
      <3>1. /\ ui' = [ui EXCEPT ![v].fetch["update"] = @ - 1, ![v].loading = nl]
            /\ UNCHANGED task
        BY <1>3, <2>2 DEF loadPosting
      <3> HIDE DEF nl
      <3> QED
        BY <1>1, <3>1 DEF UIs
    <2>3. ASSUME NEW l \in Loads, LoadError(v, l)
          PROVE  UNCHANGED task /\ ui'[v].screen = ui[v].screen
                 /\ \A u \in Devices : u # v => ui'[u] = ui[u]
      BY <1>1, <2>3 DEF LoadError, UIs
    <2>4. ASSUME NEW ok \in BOOLEAN, ImageLoaded(v, ok)
          PROVE  UNCHANGED task /\ ui'[v].screen = ui[v].screen
                 /\ \A u \in Devices : u # v => ui'[u] = ui[u]
      BY <1>1, <2>4 DEF ImageLoaded, UIs
    <2>5. /\ UNCHANGED task /\ ui'[v].screen = ui[v].screen
          /\ \A u \in Devices : u # v => ui'[u] = ui[u]
      BY <2>1, <2>2, <2>3, <2>4 DEF ReadStep
    <2> QED
      BY <2>5 DEF DiesWithChains, TasksEnd
  <1> QED
    BY <1>2, <1>3

(* Chains that end or go on, while no write leaves a queue.                *)
LEMMA ChainsKept ==
  ASSUME TypeOK, ChainsAwaited, DiesWithChains,
         UNCHANGED queue \/ \E v \in Devices : \E w : Enqueue(v, w),
         NEW t \in Tasks, task[t] # NoTask, task'[t] # NoTask,
         task'[t].dev = task[t].dev, task'[t].doc = task[t].doc,
         task'[t].stage = "add" => task[t].stage = "add"
  PROVE  LET v == task'[t].dev
         IN  /\ ui'[v].screen # "down"
             /\ task'[t].stage = "add" => \E i \in DOMAIN queue'[v] :
                  queue'[v][i].kind = "add" /\ queue'[v][i].doc = task'[t].doc
  <1> DEFINE v == task[t].dev
             d == task[t].doc
  <1>1. task[t] \in ActiveTasks
    BY DEF TypeOK
  <1>2. v \in Devices
    BY <1>1 DEF ActiveTasks
  <1>3. ui[v].screen # "down"
    BY DEF ChainsAwaited, Up
  <1>4. ui'[v].screen # "down"
    BY <1>2, <1>3 DEF DiesWithChains
  <1>5. ASSUME task[t].stage = "add"
        PROVE  \E i \in DOMAIN queue'[v] :
                  queue'[v][i].kind = "add" /\ queue'[v][i].doc = d
    <2>1. PICK i \in DOMAIN queue[v] :
                  queue[v][i].kind = "add" /\ queue[v][i].doc = d
      BY <1>5 DEF ChainsAwaited
    <2> HIDE DEF v, d
    <2>2. i \in DOMAIN queue'[v] /\ queue'[v][i] = queue[v][i]
      BY <1>2, AppendedAfter
    <2> QED
      BY <2>1, <2>2
  <1> QED
    BY <1>4, <1>5

LEMMA ChainsEnd ==
  ASSUME TypeOK, TypeOK', ChainsAwaited, DiesWithChains, TasksEnd,
         UNCHANGED queue \/ \E v \in Devices : \E w : Enqueue(v, w)
  PROVE  ChainsAwaited'
  <1> SUFFICES ASSUME NEW t \in Tasks, task'[t] # NoTask
               PROVE  LET v == task'[t].dev
                      IN  /\ ui'[v].screen # "down"
                          /\ task'[t].stage = "add" =>
                                \E i \in DOMAIN queue'[v] :
                                   /\ queue'[v][i].kind = "add"
                                   /\ queue'[v][i].doc = task'[t].doc
    BY DEF ChainsAwaited, Up
  <1>1. /\ task'[t].stage = task[t].stage
        /\ task'[t].doc = task[t].doc /\ task'[t].dev = task[t].dev
    BY DEF TasksEnd
  <1>2. task[t] # NoTask
    <2>1. task'[t] \in ActiveTasks
      BY DEF TypeOK
    <2>2. task'[t].stage # "idle"
      BY <2>1 DEF ActiveTasks
    <2> QED
      BY <1>1, <2>2 DEF NoTask
  <1> QED
    BY <1>1, <1>2, ChainsKept

LEMMA UserChains ==
  ASSUME TypeOK, TypeOK', ChainsAwaited, NEW v \in Devices, UserStep(v)
  PROVE  ChainsAwaited'
  <1>0. UNCHANGED queue \/ \E u \in Devices : \E w : Enqueue(u, w)
    BY UserAppends
  <1>1. CASE Back(v) \/ AlertOk(v)
    <2>1. CASE Pop(v)
      BY <1>0, <2>1, PopDies, PopEnds, ChainsEnd
    <2>2. CASE ~Pop(v)
      <3>1. ui' = [ui EXCEPT ![v].alert = "none"] /\ UNCHANGED task
        BY <1>1, <2>2 DEF Back, AlertOk
      <3> QED
        BY <1>0, <3>1, AlertDies, ChainsEnd DEF TasksEnd
    <2> QED
      BY <2>1, <2>2
  <1>2. CASE ShowStep(v)
    <2>1. TasksEnd
      BY <1>2, ShowStepShows DEF TasksEnd
    <2> QED
      BY <1>0, <1>2, <2>1, ShowDies, ChainsEnd
  <1>3. ASSUME NEW d \in Docs, NEW form \in Forms, NEW t \in Tasks,
               uploadButton(v, d, form, t)
        PROVE  ChainsAwaited'
    <2> DEFINE w == Write("add", d, AddPatch(form, UserOf[v]))
    <2>1. /\ Enqueue(v, w) /\ w \in Writes /\ w.kind = "add" /\ w.doc = d
          /\ UNCHANGED ui /\ ui[v].screen # "down"
          /\ task' = [task EXCEPT ![t] = [stage |-> "add", dev |-> v,
                                          doc |-> d, vc |-> "upload"]]
      BY <1>3, UserReal, WriteTypes DEF uploadButton, Write, Touchable
    <2> HIDE DEF w
    <2>2. DiesWithChains
      BY <2>1 DEF DiesWithChains
    <2>3. task'[t].dev = v /\ task'[t].doc = d
      BY <2>1 DEF TypeOK
    <2>4. \E i \in DOMAIN queue'[v] :
             queue'[v][i].kind = "add" /\ queue'[v][i].doc = d
      BY <2>1, Enqueued
    <2>5. \A s \in Tasks : s # t => task'[s] = task[s]
      BY <2>1 DEF TypeOK
    <2>6. ASSUME NEW s \in Tasks, s # t, task[s] # NoTask
          PROVE  LET u == task'[s].dev
                 IN  /\ ui'[u].screen # "down"
                     /\ task'[s].stage = "add" => \E i \in DOMAIN queue'[u] :
                           /\ queue'[u][i].kind = "add"
                           /\ queue'[u][i].doc = task'[s].doc
      BY <1>0, <2>2, <2>5, <2>6, ChainsKept
    <2> QED
      BY <2>1, <2>3, <2>4, <2>5, <2>6 DEF ChainsAwaited, Up
  <1>4. ASSUME NEW form \in Forms, NEW t \in Tasks, updateButton(v, form, t)
        PROVE  ChainsAwaited'
    <2>1. CASE Trap(v)
      BY <1>0, <2>1, TrapDies, TrapEnds, ChainsEnd
    <2>2. CASE ~Trap(v)
      <3>1. /\ UNCHANGED ui /\ ui[v].screen # "down" /\ task[t] = NoTask
            /\ \/ task' = [task EXCEPT ![t] =
                      [stage |-> "put", dev |-> v, doc |-> ui[v].docPath,
                       vc |-> "update"]]
               \/ task' = [task EXCEPT ![t] = NoTask]
        BY <1>4, <2>2 DEF updateButton, uploadImage, Touchable
      <3>2. DiesWithChains
        BY <3>1 DEF DiesWithChains
      <3>3. \A s \in Tasks : s # t => task'[s] = task[s]
        BY <3>1 DEF TypeOK
      <3>4. task'[t] = NoTask \/ (task'[t].dev = v /\ task'[t].stage = "put")
        BY <3>1 DEF TypeOK
      <3>5. ASSUME NEW s \in Tasks, s # t, task[s] # NoTask
            PROVE  LET u == task'[s].dev
                   IN  /\ ui'[u].screen # "down"
                       /\ task'[s].stage = "add" => \E i \in DOMAIN queue'[u] :
                             /\ queue'[u][i].kind = "add"
                             /\ queue'[u][i].doc = task'[s].doc
        BY <1>0, <3>2, <3>3, <3>5, ChainsKept
      <3> QED
        BY <3>1, <3>3, <3>4, <3>5 DEF ChainsAwaited, Up
    <2> QED
      BY <2>1, <2>2
  <1>5. CASE ConfirmDelete(v)
    <2>1. CASE Trap(v)
      BY <1>0, <2>1, TrapDies, TrapEnds, ChainsEnd
    <2>2. CASE ~Trap(v)
      <3>1. ui' = [ui EXCEPT ![v].alert = "deleted"] /\ UNCHANGED task
        BY <1>5, <2>2 DEF ConfirmDelete
      <3> QED
        BY <1>0, <3>1, AlertDies, ChainsEnd DEF TasksEnd
    <2> QED
      BY <2>1, <2>2
  <1> QED
    BY <1>1, <1>2, <1>3, <1>4, <1>5 DEF UserStep, ShowStep

LEMMA TaskChains ==
  ASSUME TypeOK, TypeOK', ChainsAwaited, [Next]_vars,
         \A v \in Devices : ~StreamStep(v),
         NEW t \in Tasks, TaskStep(t)
  PROVE  ChainsAwaited'
  <1> DEFINE v == task[t].dev
  <1>0. UNCHANGED queue \/ \E u \in Devices : \E w : Enqueue(u, w)
    BY OthersAppend
  <1>1. task[t] \in ActiveTasks /\ task[t] # NoTask /\ v \in Devices
    <2>1. task[t].stage \in {"acked", "put", "url"}
      BY DEF TaskStep, AddCompleted, PutCompleted, PutFailed, UrlCompleted,
             UrlFailed
    <2>2. task[t] # NoTask
      BY <2>1 DEF NoTask
    <2> QED
      BY <2>2 DEF TypeOK, ActiveTasks
  <1>2. CASE UrlFailed(t)
    <2>1. Trap(v)
      BY <1>2 DEF UrlFailed
    <2> HIDE DEF v
    <2> QED
      BY <1>0, <1>1, <2>1, TrapDies, TrapEnds, ChainsEnd
  <1>3. CASE ~UrlFailed(t)
    <2>1. DiesWithChains
      <3>1. CASE UNCHANGED ui
        BY <3>1 DEF DiesWithChains
      <3>2. CASE ui' = [ui EXCEPT ![v].alert = SuccessAlert(task[t].vc)]
        <4> HIDE DEF v
        <4> QED
          BY <1>1, <3>2, AlertDies
      <3> QED
        BY <1>3, <3>1, <3>2 DEF TaskStep, AddCompleted, PutCompleted,
           PutFailed, UrlCompleted
    <2>2. \/ task' = [task EXCEPT ![t] = NoTask]
          \/ task' = [task EXCEPT ![t].stage = "put"]
          \/ task' = [task EXCEPT ![t].stage = "url"]
      BY <1>3 DEF TaskStep, AddCompleted, uploadImage, PutCompleted,
         PutFailed, UrlCompleted
    <2>3. \A s \in Tasks : s # t => task'[s] = task[s]
      BY <2>2 DEF TypeOK
    <2>4. \/ task'[t] = NoTask
          \/ /\ task'[t].dev = v /\ task'[t].doc = task[t].doc
             /\ task'[t].stage # "add"
      BY <1>1, <2>2 DEF TypeOK, ActiveTasks
    <2>5. ASSUME NEW s \in Tasks, task'[s] # NoTask
          PROVE  LET u == task'[s].dev
                 IN  /\ ui'[u].screen # "down"
                     /\ task'[s].stage = "add" => \E i \in DOMAIN queue'[u] :
                           /\ queue'[u][i].kind = "add"
                           /\ queue'[u][i].doc = task'[s].doc
      BY <1>0, <1>1, <2>1, <2>3, <2>4, <2>5, ChainsKept
    <2> QED
      BY <2>5 DEF ChainsAwaited, Up
  <1> QED
    BY <1>2, <1>3

(* An answer takes the head of the queue, and with it the wait for it.     *)
LEMMA StreamChains ==
  ASSUME TypeOK, TypeOK', ChainsAwaited, NEW v \in Devices, StreamStep(v)
  PROVE  ChainsAwaited'
  <1>1. CASE WriteApplied(v) \/ StreamBroken(v)
    BY <1>1 DEF WriteApplied, StreamBroken, ChainsAwaited, Up
  <1>2. CASE WriteAcknowledged(v) \/ WriteRejected(v)
    <2> DEFINE w == Head(queue[v])
    <2>1. /\ queue' = [queue EXCEPT ![v] = Tail(@)] /\ UNCHANGED ui
          /\ queue[v] # <<>> /\ queue[v] \in Seq(Writes)
          /\ queue \in [Devices -> Seq(Writes)] /\ w = queue[v][1]
      BY <1>2 DEF WriteAcknowledged, WriteRejected, TypeOK
    <2>2. ASSUME NEW t \in Tasks, task'[t] # NoTask
          PROVE  /\ task[t] # NoTask
                 /\ task'[t].dev = task[t].dev /\ task'[t].doc = task[t].doc
                 /\ task'[t].stage = "add" =>
                       task[t].stage = "add" /\ ~Awaits(t, v, w)
      <3>1. CASE Awaits(t, v, w)
        <4>1. task[t] # NoTask /\ task[t] \in ActiveTasks
          BY <3>1 DEF Awaits, NoTask, TypeOK
        <4>2. task'[t] \in {NoTask, [task[t] EXCEPT !.stage = "acked"]}
          BY <1>2, <3>1 DEF WriteAcknowledged, WriteRejected
        <4> QED
          BY <2>2, <4>1, <4>2 DEF ActiveTasks
      <3>2. CASE ~Awaits(t, v, w)
        BY <1>2, <2>2, <3>2 DEF WriteAcknowledged, WriteRejected
      <3> QED
        BY <3>1, <3>2
    <2>3. ASSUME NEW t \in Tasks, task'[t] # NoTask, task'[t].stage = "add"
          PROVE  LET u == task'[t].dev
                 IN  \E i \in DOMAIN queue'[u] :
                        /\ queue'[u][i].kind = "add"
                        /\ queue'[u][i].doc = task'[t].doc
      <3> DEFINE u == task[t].dev
                 d == task[t].doc
      <3>1. /\ task'[t].dev = u /\ task'[t].doc = d
            /\ task[t].stage = "add" /\ ~Awaits(t, v, w) /\ task[t] # NoTask
        BY <2>2, <2>3
      <3>2. PICK i \in DOMAIN queue[u] :
                    queue[u][i].kind = "add" /\ queue[u][i].doc = d
        BY <3>1 DEF ChainsAwaited
      <3>3. CASE u # v
        <4>1. u \in Devices
          BY <3>1 DEF TypeOK, ActiveTasks
        <4>2. queue'[u] = queue[u]
          BY <2>1, <3>3, <4>1
        <4> QED
          BY <3>1, <3>2, <4>2
      <3>4. CASE u = v
        <4>1. i # 1
          BY <2>1, <3>1, <3>2, <3>4 DEF Awaits
        <4> HIDE DEF u, d, w
        <4>2. /\ i - 1 \in DOMAIN queue'[v]
              /\ queue'[v][i - 1] = queue[v][i]
          BY <2>1, <3>2, <3>4, <4>1
        <4> QED
          BY <3>1, <3>2, <3>4, <4>2
      <3> QED
        BY <3>3, <3>4
    <2> QED
      BY <2>1, <2>2, <2>3 DEF ChainsAwaited, Up
  <1> QED
    BY <1>1, <1>2 DEF StreamStep

LEMMA ChainsStep == TypeOK /\ ChainsAwaited /\ [Next]_vars => ChainsAwaited'
  <1> SUFFICES ASSUME TypeOK, ChainsAwaited, [Next]_vars
               PROVE  ChainsAwaited'
    OBVIOUS
  <1>0. TypeOK'
    BY TypeStep
  <1>1. ASSUME NEW v \in Devices, ReadStep(v) \/ Kill(v)
        PROVE  ChainsAwaited'
    <2>1. UNCHANGED queue
      BY <1>1, ReadKill
    <2> QED
      BY <1>0, <1>1, <2>1, ReadDies, TrapDies, TrapEnds, ChainsEnd DEF Kill
  <1>2. CASE UNCHANGED vars
    BY <1>2 DEF vars, ChainsAwaited, Up
  <1>3. CASE \A v \in Devices : ~StreamStep(v)
    BY <1>0, <1>1, <1>2, <1>3, UserChains, TaskChains DEF Next
  <1>4. ASSUME NEW v \in Devices, StreamStep(v)
        PROVE  ChainsAwaited'
    BY <1>0, <1>4, StreamChains
  <1> QED
    BY <1>3, <1>4

(* No chain of closures waits for a completion that cannot come: whatever  *)
(* is refused, dropped or resent, an addDocument somebody waits for is     *)
(* still queued on that device, and chains die with their process.         *)
THEOREM ChainsAreAwaited == Spec => []ChainsAwaited
  <1>1. Init => ChainsAwaited
    BY DEF Init, ChainsAwaited
  <1> QED
    BY <1>1, ChainsStep, TypeInit, TypeStep, PTL DEF Spec

-----------------------------------------------------------------------------
(* What has its Image has everything.                                      *)

Later == {"acked", "put", "url"}

(* Posted, of the state after a step.                                      *)
PostedAfter(d) == d \in deleted' \/ server'[d]["user"] # Absent

(* Steps that only add to the queues.                                      *)
LEMMA PostedGrows ==
  ASSUME TypeOK, SentApplied, PostedInv, Longer, UNCHANGED server,
         deleted \subseteq deleted',
         \A u \in Devices : sent'[u] \in {0, sent[u]},
         \A u \in Devices : \A i \in DOMAIN queue'[u] :
            \/ i \in DOMAIN queue[u]
            \/ /\ queue'[u][i].kind # "add" => PostedAfter(queue'[u][i].doc)
               /\ queue'[u][i].kind = "delete" => queue'[u][i].doc \in deleted',
         \A t \in Tasks :
            \/ task'[t].stage \notin Later
            \/ task[t].stage \in Later /\ task'[t].doc = task[t].doc
            \/ PostedAfter(task'[t].doc),
         \A v \in Devices : \A d \in OnScreen(v)' :
            d \in OnScreen(v) \/ PostedAfter(d)
  PROVE  PostedInv'
  <1>1. \A d : Posted(d) => PostedAfter(d)
    BY DEF Posted, PostedAfter
  <1>2. ASSUME NEW d \in Docs, server'[d]["image"] # Absent
        PROVE  /\ PostedAfter(d)
               /\ server'[d]["user"] = Absent \/ server'[d]["ref"] # Absent
    BY <1>1, <1>2 DEF PostedInv
  <1>6. \A d \in Docs : server'[d]["user"] # Absent => server'[d]["form"] # Absent
    BY DEF PostedInv
  <1>3. ASSUME NEW v \in Devices, NEW i \in DOMAIN queue'[v]
        PROVE  /\ i <= sent'[v] \/ queue'[v][i].kind # "add" =>
                     PostedAfter(queue'[v][i].doc)
               /\ queue'[v][i].kind = "delete" => queue'[v][i].doc \in deleted'
    <2>1. /\ sent[v] \in Nat /\ sent[v] <= Len(queue[v])
          /\ DOMAIN queue[v] = 1..Len(queue[v]) /\ Len(queue[v]) \in Nat
          /\ DOMAIN queue'[v] = 1..Len(queue'[v]) /\ Len(queue'[v]) \in Nat
      BY LongerElements DEF TypeOK, SentApplied
    <2>2. CASE i \in DOMAIN queue[v]
      <3>1. queue'[v][i] = queue[v][i]
        BY <2>2, LongerElements
      <3>2. i <= sent'[v] => i <= sent[v]
        BY <2>1
      <3>3. /\ i <= sent[v] \/ queue[v][i].kind # "add" =>
                  Posted(queue[v][i].doc)
            /\ queue[v][i].kind = "delete" => queue[v][i].doc \in deleted
        BY <2>2 DEF PostedInv
      <3> QED
        BY <1>1, <3>1, <3>2, <3>3
    <2>3. CASE i \notin DOMAIN queue[v]
      <3>1. ~(i <= sent'[v])
        BY <2>1, <2>3
      <3> QED
        BY <2>3, <3>1
    <2> QED
      BY <2>2, <2>3
  <1>4. ASSUME NEW t \in Tasks, task'[t].stage \in {"acked", "put", "url"}
        PROVE  PostedAfter(task'[t].doc)
    <2>1. task[t].stage \in Later => Posted(task[t].doc)
      BY DEF PostedInv, Later
    <2> QED
      BY <1>1, <1>4, <2>1 DEF Later
  <1>5. ASSUME NEW v \in Devices, NEW d \in OnScreen(v)'
        PROVE  PostedAfter(d)
    <2>1. d \in OnScreen(v) => Posted(d)
      BY DEF PostedInv
    <2> QED
      BY <1>1, <2>1
  <1> QED
    BY <1>2, <1>3, <1>4, <1>5, <1>6 DEF PostedInv, Posted, PostedAfter

LEMMA PostedEnds ==
  ASSUME TypeOK, SentApplied, PostedInv, UNCHANGED <<server, queue, deleted>>,
         \A u \in Devices : sent'[u] \in {0, sent[u]}, TasksEnd, ScreensEnd
  PROVE  PostedInv'
  <1>1. Longer
    BY DEF Longer
  <1>2. \A t \in Tasks :
            \/ task'[t].stage \notin Later
            \/ task[t].stage \in Later /\ task'[t].doc = task[t].doc
            \/ PostedAfter(task'[t].doc)
    BY DEF TasksEnd, NoTask, Later
  <1> QED
    BY <1>1, <1>2, PostedGrows DEF ScreensEnd

LEMMA PostedTrap ==
  ASSUME TypeOK, SentApplied, PostedInv, NEW v \in Devices,
         Trap(v) \/ Pop(v), UNCHANGED <<server, queue, deleted>>
  PROVE  PostedInv'
BY TrapEnds, PopEnds, PostedEnds

LEMMA PostedEnqueued ==
  ASSUME TypeOK, SentApplied, PostedInv, NEW v \in Devices, NEW w \in Writes,
         Enqueue(v, w), UNCHANGED server, deleted \subseteq deleted',
         w.kind # "add" => PostedAfter(w.doc),
         w.kind = "delete" => w.doc \in deleted',
         \A u \in Devices : sent'[u] \in {0, sent[u]},
         \A t \in Tasks :
            \/ task'[t].stage \notin Later
            \/ task[t].stage \in Later /\ task'[t].doc = task[t].doc
            \/ PostedAfter(task'[t].doc),
         ScreensEnd
  PROVE  PostedInv'
  <1>1. /\ Longer
        /\ \A u \in Devices : \A i \in DOMAIN queue'[u] :
              i \in DOMAIN queue[u] \/ (u = v /\ queue'[u][i] = w)
    BY Enqueued
  <1>2. \A u \in Devices : \A i \in DOMAIN queue'[u] :
            \/ i \in DOMAIN queue[u]
            \/ /\ queue'[u][i].kind # "add" => PostedAfter(queue'[u][i].doc)
               /\ queue'[u][i].kind = "delete" => queue'[u][i].doc \in deleted'
    BY <1>1
  <1> QED
    BY <1>1, <1>2, PostedGrows DEF ScreensEnd

(* A row of the manage list has its posting in the collection: the User it *)
(* was listed by is stored, for a queued add has no Ref to read.           *)
LEMMA RowsPosted ==
  ASSUME TypeOK, OwnInv, OrderInv, PostedInv, NEW v \in Devices,
         NEW r \in Refs(v), r # Absent
  PROVE  Posted(r)
  <1>1. PICK d \in Docs : /\ View(v)[d]["user"] = UserOf[v]
                          /\ r = View(v)[d]["ref"]
    BY DEF Refs, Listed
  <1>2. r = d
    BY <1>1, ViewOwn
  <1>3. ~AddQueued(d)
    BY <1>2, RowsKnown DEF OrderInv
  <1>5. CASE \E i \in DOMAIN queue[v] :
                queue[v][i].doc = d /\ queue[v][i].kind # "add"
    BY <1>2, <1>5 DEF PostedInv
  <1>6. CASE \A i \in DOMAIN queue[v] : queue[v][i].doc # d
    <2>1. "user" \in Fields
      BY DEF Fields
    <2>2. View(v)[d]["user"] = server[d]["user"]
      BY <1>6, <2>1, ViewSource
    <2>3. server[d]["user"] # Absent
      BY <1>1, <2>2, UserReal
    <2> QED
      BY <1>2, <2>3 DEF Posted
  <1>7. \A i \in DOMAIN queue[v] :
           queue[v][i].doc = d => queue[v][i].kind # "add"
    BY <1>3 DEF AddQueued
  <1> QED
    BY <1>5, <1>6, <1>7

LEMMA UserPosted ==
  ASSUME TypeOK, OwnInv, OrderInv, PostedInv, NEW v \in Devices, UserStep(v)
  PROVE  PostedInv'
  <1>0. SentApplied
    BY DEF OrderInv
  <1>1. CASE Back(v) \/ AlertOk(v)
    <2>1. UNCHANGED <<server, queue, deleted>>
      BY <1>1 DEF Back, AlertOk
    <2>2. CASE Pop(v)
      BY <1>0, <2>1, <2>2, PostedTrap
    <2>3. CASE ~Pop(v)
      <3>1. ui' = [ui EXCEPT ![v].alert = "none"] /\ UNCHANGED <<task, sent>>
        BY <1>1, <2>3 DEF Back, AlertOk
      <3>2. ScreensEnd
        BY <3>1, AlertShows DEF ScreensEnd
      <3> QED
        BY <1>0, <2>1, <3>1, <3>2, PostedEnds DEF TasksEnd
    <2> QED
      BY <2>2, <2>3
  <1>2. CASE ShowStep(v)
    BY <1>0, <1>2, ShowStepShows, PostedEnds DEF TasksEnd, ScreensEnd
  <1>3. ASSUME NEW d \in Docs, NEW form \in Forms, NEW t \in Tasks,
               uploadButton(v, d, form, t)
        PROVE  PostedInv'
    <2> DEFINE w == Write("add", d, AddPatch(form, UserOf[v]))
               new == [stage |-> "add", dev |-> v, doc |-> d, vc |-> "upload"]
    <2>1. /\ Enqueue(v, w) /\ w \in Writes /\ w.kind = "add" /\ w.doc = d
          /\ UNCHANGED <<server, sent, ui, deleted>>
          /\ task' = [task EXCEPT ![t] = new]
      BY <1>3, UserReal, WriteTypes DEF uploadButton, Write
    <2>2. new.stage \notin Later
      BY DEF Later
    <2> HIDE DEF w, new
    <2>3. \A s \in Tasks : task'[s] = task[s] \/ task'[s] = new
      BY <2>1 DEF TypeOK
    <2>4. ScreensEnd
      BY <2>1 DEF ScreensEnd, OnScreen
    <2>5. \A s \in Tasks :
            \/ task'[s].stage \notin Later
            \/ task[s].stage \in Later /\ task'[s].doc = task[s].doc
            \/ PostedAfter(task'[s].doc)
      BY <2>2, <2>3
    <2> QED
      BY <1>0, <2>1, <2>4, <2>5, PostedEnqueued
  <1>4. ASSUME NEW form \in Forms, NEW t \in Tasks, updateButton(v, form, t)
        PROVE  PostedInv'
    <2> DEFINE d == ui[v].docPath
               edit == Write("form", d, Merge(Fields, "form", form))
               next == [stage |-> "put", dev |-> v, doc |-> d, vc |-> "update"]
    <2>0. UNCHANGED <<server, deleted>>
      BY <1>4 DEF updateButton
    <2>1. CASE Trap(v) /\ UNCHANGED queue
      BY <1>0, <2>0, <2>1, PostedTrap
    <2>2. d # Absent => d \in OnScreen(v) /\ d \in Docs
      BY DEF OnScreen, OwnInv, ScreensOwn
    <2>3. d # Absent => PostedAfter(d)
      BY <2>0, <2>2 DEF PostedInv, Posted, PostedAfter
    <2>4. d # Absent => edit \in Writes
      BY <2>2, MergeTypes
    <2>5. edit.kind = "form" /\ edit.doc = d
      BY DEF Write
    <2>6. CASE d # Absent /\ Enqueue(v, edit) /\ Trap(v)
      <3>1. TasksEnd /\ ScreensEnd
            /\ \A u \in Devices : sent'[u] \in {0, sent[u]}
        BY <2>6, TrapEnds
      <3>2. \A s \in Tasks :
              \/ task'[s].stage \notin Later
              \/ task[s].stage \in Later /\ task'[s].doc = task[s].doc
              \/ PostedAfter(task'[s].doc)
        BY <3>1 DEF TasksEnd, NoTask, Later
      <3> HIDE DEF edit, d
      <3> QED
        BY <1>0, <2>0, <2>3, <2>4, <2>5, <2>6, <3>1, <3>2, PostedEnqueued
    <2>7. CASE /\ d # Absent /\ Enqueue(v, edit)
               /\ uploadImage(t, next) /\ UNCHANGED <<ui, sent>>
      <3>1. ScreensEnd
        BY <2>7 DEF ScreensEnd, OnScreen
      <3>2. [next EXCEPT !.stage = "put"] = next /\ next.doc = d
        OBVIOUS
      <3> HIDE DEF next, edit, d
      <3>3. \A s \in Tasks :
               task'[s] = NoTask \/ task'[s] = task[s] \/ task'[s] = next
        BY <2>7, <3>2 DEF uploadImage, TypeOK
      <3>4. \A s \in Tasks :
              \/ task'[s].stage \notin Later
              \/ task[s].stage \in Later /\ task'[s].doc = task[s].doc
              \/ PostedAfter(task'[s].doc)
        BY <2>3, <2>7, <3>2, <3>3 DEF NoTask, Later
      <3> QED
        BY <1>0, <2>0, <2>3, <2>4, <2>5, <2>7, <3>1, <3>4, PostedEnqueued
    <2> QED
      BY <1>4, <2>1, <2>6, <2>7 DEF updateButton
  <1>5. CASE ConfirmDelete(v)
    <2> DEFINE d == ui[v].docPath
               del == Write("delete", d, Delete(Fields))
    <2>1. CASE d = Absent
      BY <1>0, <1>5, <2>1, PostedTrap DEF ConfirmDelete
    <2>2. CASE d # Absent
      <3>1. d \in Docs
        BY <2>2 DEF OnScreen, OwnInv, ScreensOwn
      <3>2. /\ Enqueue(v, del) /\ UNCHANGED <<server, task, sent>>
            /\ ui' = [ui EXCEPT ![v].alert = "deleted"]
            /\ deleted' = deleted \cup {d}
        BY <1>5, <2>2 DEF ConfirmDelete
      <3>3. del \in Writes /\ del.kind = "delete" /\ del.doc = d
        BY <3>1, MergeTypes DEF Write
      <3>4. ScreensEnd
        BY <3>2, AlertShows DEF ScreensEnd
      <3> HIDE DEF del, d
      <3>5. d \in deleted' /\ deleted \subseteq deleted' /\ PostedAfter(d)
        BY <3>2 DEF PostedAfter
      <3>6. \A t \in Tasks :
               \/ task'[t].stage \notin Later
               \/ task[t].stage \in Later /\ task'[t].doc = task[t].doc
        BY <3>2
      <3> QED
        BY <1>0, <3>2, <3>3, <3>4, <3>5, <3>6, PostedEnqueued
    <2> QED
      BY <2>1, <2>2
  <1> QED
    BY <1>1, <1>2, <1>3, <1>4, <1>5 DEF UserStep, ShowStep

LEMMA ReadPosted ==
  ASSUME TypeOK, OwnInv, OrderInv, PostedInv, NEW v \in Devices, ReadStep(v)
  PROVE  PostedInv'
  <1>1. UNCHANGED <<server, queue, deleted>>
    BY ReadShows
  <1>2. CASE Trap(v)
    BY <1>1, <1>2, PostedTrap DEF OrderInv
  <1>3. CASE ~Trap(v)
    <2>1. Longer
      BY <1>1 DEF Longer
    <2>2. UNCHANGED <<task, sent>>
      BY <1>3, ReadShows
    <2>3. \A u \in Devices : \A d \in OnScreen(u)' :
             d \in OnScreen(u) \/ PostedAfter(d)
      <3>1. \A d \in Refs(v) : d # Absent => PostedAfter(d)
        BY <1>1, RowsPosted DEF Posted, PostedAfter
      <3> QED
        BY <1>3, <3>1, ReadShows
    <2> QED
      BY <1>1, <2>1, <2>2, <2>3, PostedGrows DEF OrderInv
  <1> QED
    BY <1>2, <1>3

LEMMA TaskPosted ==
  ASSUME TypeOK, OwnInv, OrderInv, PostedInv, NEW t \in Tasks, TaskStep(t)
  PROVE  PostedInv'
  <1> DEFINE v == task[t].dev
             d == task[t].doc
  <1>1. task[t].stage \in Later
    BY DEF Later, TaskStep, AddCompleted, PutCompleted, PutFailed,
           UrlCompleted, UrlFailed
  <1>2. task[t] \in ActiveTasks
    BY <1>1 DEF TypeOK, NoTask, Later
  <1>3. v \in Devices /\ d \in Docs /\ SentApplied
    BY <1>2 DEF ActiveTasks, OrderInv
  <1>4. UNCHANGED <<server, deleted>>
    BY DEF TaskStep, AddCompleted, PutCompleted, PutFailed, UrlCompleted,
           UrlFailed
  <1>5. PostedAfter(d)
    BY <1>1, <1>4 DEF PostedInv, Posted, PostedAfter, Later
  <1>6. CASE UrlFailed(t)
    <2>1. Trap(v) /\ UNCHANGED queue
      BY <1>6 DEF UrlFailed
    <2> HIDE DEF v
    <2> QED
      BY <1>3, <1>4, <2>1, PostedTrap
  <1>7. CASE ~UrlFailed(t)
    <2>1. \/ task' = [task EXCEPT ![t] = NoTask]
          \/ task' = [task EXCEPT ![t].stage = "put"]
          \/ task' = [task EXCEPT ![t].stage = "url"]
      BY <1>7 DEF TaskStep, AddCompleted, uploadImage, PutCompleted,
         PutFailed, UrlCompleted
    <2>2. \A s \in Tasks : s # t => task'[s] = task[s]
      BY <2>1 DEF TypeOK
    <2>3. task'[t] = NoTask \/ task'[t].doc = d
      BY <1>2, <2>1 DEF TypeOK, ActiveTasks
    <2>4. \A s \in Tasks :
            \/ task'[s].stage \notin Later
            \/ task[s].stage \in Later /\ task'[s].doc = task[s].doc
            \/ PostedAfter(task'[s].doc)
      <3> HIDE DEF d
      <3> QED
        BY <1>5, <2>2, <2>3 DEF NoTask, Later
    <2>5. UNCHANGED sent
      BY <1>7 DEF TaskStep, AddCompleted, PutCompleted, PutFailed, UrlCompleted
    <2>6. ScreensEnd
      <3>1. CASE UNCHANGED ui
        BY <3>1 DEF ScreensEnd, OnScreen
      <3>2. CASE ui' = [ui EXCEPT ![v].alert = SuccessAlert(task[t].vc)]
        <4> HIDE DEF v
        <4> QED
          BY <1>3, <3>2, AlertShows DEF ScreensEnd
      <3> QED
        BY <1>7, <3>1, <3>2 DEF TaskStep, AddCompleted, PutCompleted,
           PutFailed, UrlCompleted
    <2>7. ASSUME NEW w \in Writes, Enqueue(v, w), w.doc = d,
                 w.kind \in {"ref", "image"}
          PROVE  PostedInv'
      <3> HIDE DEF v, d
      <3> QED
        BY <1>3, <1>4, <1>5, <2>4, <2>5, <2>6, <2>7, PostedEnqueued
    <2>8. CASE AddCompleted(t)
      <3>1. Enqueue(v, Write("ref", d, Merge(Fields, "ref", d)))
        BY <2>8 DEF AddCompleted
      <3> QED
        BY <1>3, <2>7, <3>1, MergeTypes DEF Write
    <2>9. CASE UrlCompleted(t)
      <3>1. Enqueue(v, Write("image", d, Merge(Fields, "image", d)))
        BY <2>9 DEF UrlCompleted
      <3> QED
        BY <1>3, <2>7, <3>1, MergeTypes DEF Write
    <2>10. CASE PutCompleted(t) \/ PutFailed(t)
      <3>1. UNCHANGED queue
        BY <2>10 DEF PutCompleted, PutFailed
      <3>2. Longer
        BY <3>1 DEF Longer
      <3> HIDE DEF v, d
      <3> QED
        BY <1>3, <1>4, <2>4, <2>5, <2>6, <3>1, <3>2, PostedGrows DEF ScreensEnd
    <2> QED
      BY <1>7, <2>8, <2>9, <2>10 DEF TaskStep
  <1> QED
    BY <1>6, <1>7

(* A write that is applied leaves its posting with an author and a form,   *)
(* unless it is a deletion the user has confirmed.                         *)
LEMMA WriteAppliedPosted ==
  ASSUME TypeOK, OwnInv, OrderInv, PostedInv, NEW v \in Devices,
         WriteApplied(v)
  PROVE  PostedInv'
  <1> DEFINE n == sent[v] + 1
             w == queue[v][n]
             e == w.doc
  <1>1. /\ n \in DOMAIN queue[v] /\ w \in Writes
        /\ WriteOwn(v, w, owner, storage)
    BY NextWriteType, QueuedOwn DEF OwnInv
  <1>2. e \in Docs /\ w.kind \in Kinds
        /\ server[e] \in [Fields -> Values \cup {Absent}]
    BY <1>1 DEF Writes, TypeOK, Posting
  <1>3. /\ server' = [server EXCEPT ![e] = Apply(server[e], w.patch)]
        /\ UNCHANGED <<queue, task, ui, deleted>>
        /\ sent' = [sent EXCEPT ![v] = n]
    BY DEF WriteApplied, Commit
  <1>4. /\ server'[e] = Apply(server[e], w.patch)
        /\ \A d \in Docs : d # e => server'[d] = server[d]
    BY <1>2, <1>3 DEF TypeOK
  <1>5. /\ w.kind = "add" => server'[e] = w.patch
        /\ w.kind = "ref" => server'[e] = [server[e] EXCEPT !["ref"] = e]
        /\ w.kind = "image" => server'[e] = [server[e] EXCEPT !["image"] = e]
        /\ w.kind = "form" => \E form \in Forms :
              server'[e] = [server[e] EXCEPT !["form"] = form]
        /\ w.kind = "delete" => server'[e] = NoPosting
    <2> HIDE DEF w
    <2> QED BY <1>1, <1>4, Written
  <1>6. w.kind = "add" => /\ server'[e]["user"] # Absent
                          /\ server'[e]["form"] # Absent
                          /\ server'[e]["image"] = Absent
    <2> SUFFICES ASSUME w.kind = "add"
                 PROVE  /\ server'[e]["user"] # Absent
                        /\ server'[e]["form"] # Absent
                        /\ server'[e]["image"] = Absent
      OBVIOUS
    <2>1. PICK form \in Forms : w.patch = AddPatch(form, UserOf[v])
      BY <1>1 DEF WriteOwn
    <2>2. server'[e] = AddPatch(form, UserOf[v])
      BY <1>5, <2>1
    <2> HIDE DEF w, e
    <2> QED
      BY <2>2, AddPatchFields, UserReal, ConstantsAssumption
  <1>7. w.kind = "ref" => /\ server'[e]["user"] = server[e]["user"]
                          /\ server'[e]["form"] = server[e]["form"]
                          /\ server'[e]["image"] = server[e]["image"]
                          /\ server'[e]["ref"] # Absent
    <2>1. e # Absent
      BY <1>2, ConstantsAssumption
    <2> HIDE DEF w, e
    <2> QED
      BY <1>2, <1>5, <2>1 DEF Fields
  <1>8. w.kind = "image" => /\ server'[e]["user"] = server[e]["user"]
                            /\ server'[e]["form"] = server[e]["form"]
                            /\ server'[e]["ref"] = server[e]["ref"]
    <2> HIDE DEF w, e
    <2> QED
      BY <1>2, <1>5 DEF Fields
  <1>9. w.kind = "form" => /\ server'[e]["user"] = server[e]["user"]
                           /\ server'[e]["form"] # Absent
                           /\ server'[e]["image"] = server[e]["image"]
                           /\ server'[e]["ref"] = server[e]["ref"]
    <2> HIDE DEF w, e
    <2> QED
      BY <1>2, <1>5, ConstantsAssumption DEF Fields
  <1>10. w.kind = "delete" => /\ e \in deleted
                              /\ server'[e]["user"] = Absent
                              /\ server'[e]["image"] = Absent
    <2>1. w.kind = "delete" => e \in deleted
      BY <1>1 DEF PostedInv
    <2> HIDE DEF w, e
    <2> QED
      BY <1>5, <2>1 DEF NoPosting, Missing, Fields
  <1>11. ASSUME NEW d \in Docs, Posted(d)
         PROVE  PostedAfter(d)
    <2>1. CASE d # e
      BY <1>3, <1>4, <1>11, <2>1 DEF Posted, PostedAfter
    <2>2. CASE d = e
      <3> HIDE DEF w, e
      <3> QED
        BY <1>2, <1>3, <1>6, <1>7, <1>8, <1>9, <1>10, <1>11, <2>2
           DEF Kinds, Posted, PostedAfter
    <2> QED
      BY <2>1, <2>2
  <1>12. PostedAfter(e)
    <2>1. CASE w.kind = "add"
      BY <1>6, <2>1 DEF PostedAfter
    <2>2. CASE w.kind # "add"
      <3>1. Posted(e)
        BY <1>1, <2>2 DEF PostedInv
      <3> QED
        BY <1>2, <1>11, <3>1
    <2> QED
      BY <2>1, <2>2
  <1>13. \A d \in Docs :
            /\ server'[d]["user"] # Absent => server'[d]["form"] # Absent
            /\ server'[d]["image"] # Absent =>
                  /\ PostedAfter(d)
                  /\ server'[d]["user"] = Absent \/ server'[d]["ref"] # Absent
    <2> SUFFICES ASSUME NEW d \in Docs
                 PROVE  /\ server'[d]["user"] # Absent =>
                              server'[d]["form"] # Absent
                        /\ server'[d]["image"] # Absent =>
                              /\ PostedAfter(d)
                              /\ \/ server'[d]["user"] = Absent
                                 \/ server'[d]["ref"] # Absent
      OBVIOUS
    <2>1. /\ server[d]["user"] # Absent => server[d]["form"] # Absent
          /\ server[d]["image"] # Absent =>
                /\ Posted(d)
                /\ server[d]["user"] = Absent \/ server[d]["ref"] # Absent
      BY DEF PostedInv
    <2>2. CASE d # e
      BY <1>4, <1>11, <2>1, <2>2
    <2>3. CASE d = e
      <3>1. w.kind = "image" =>
               server[e]["user"] = Absent \/ server[e]["ref"] # Absent
        BY AppliedTagged DEF Board!Tagged
      <3> HIDE DEF w, e
      <3> QED
        BY <1>2, <1>6, <1>7, <1>8, <1>9, <1>10, <1>12, <2>1, <2>3, <3>1
           DEF Kinds
    <2> QED
      BY <2>2, <2>3
  <1>14. ASSUME NEW u \in Devices, NEW i \in DOMAIN queue[u]
         PROVE  /\ i <= sent'[u] \/ queue[u][i].kind # "add" =>
                      PostedAfter(queue[u][i].doc)
                /\ queue[u][i].kind = "delete" => queue[u][i].doc \in deleted
    <2>1. queue[u][i].doc \in Docs
      BY QueuedOwn DEF OwnInv, Writes
    <2>2. CASE u = v /\ i = n
      BY <1>1, <1>12, <2>2 DEF PostedInv
    <2>3. CASE ~(u = v /\ i = n)
      <3>1. i \in Nat /\ sent[v] \in Nat
        <4>1. queue[u] \in Seq(Writes)
          BY DEF TypeOK
        <4> QED
          BY <4>1 DEF TypeOK
      <3>2. i <= sent'[u] => i <= sent[u]
        BY <1>3, <2>3, <3>1 DEF TypeOK
      <3> QED
        BY <1>11, <2>1, <3>2 DEF PostedInv
    <2> QED
      BY <2>2, <2>3
  <1>15. ASSUME NEW t \in Tasks, task[t].stage \in {"acked", "put", "url"}
         PROVE  PostedAfter(task[t].doc)
    <2>1. task[t] \in ActiveTasks
      BY <1>15 DEF TypeOK, NoTask
    <2>2. task[t].doc \in Docs /\ Posted(task[t].doc)
      BY <1>15, <2>1 DEF ActiveTasks, PostedInv
    <2> QED
      BY <1>11, <2>2
  <1>16. ASSUME NEW u \in Devices, NEW d \in OnScreen(u)
         PROVE  PostedAfter(d)
    BY <1>11 DEF PostedInv, OwnInv, ScreensOwn
  <1>17. \A u \in Devices : OnScreen(u)' = OnScreen(u)
    BY <1>3 DEF OnScreen
  <1> HIDE DEF n, w, e
  <1>18. UNCHANGED <<queue, task, deleted>>
    BY <1>3
  <1> QED
    BY <1>13, <1>14, <1>15, <1>16, <1>17, <1>18
       DEF PostedInv, Posted, PostedAfter

LEMMA TailPosted ==
  ASSUME TypeOK, SentApplied, PostedInv, NEW v \in Devices, queue[v] # <<>>,
         queue' = [queue EXCEPT ![v] = Tail(@)],
         sent'[v] \in Nat, sent'[v] = 0 \/ sent'[v] + 1 = sent[v],
         \A u \in Devices : u # v => sent'[u] = sent[u],
         \A t \in Tasks :
            \/ task'[t].stage \notin Later
            \/ task[t].stage \in Later /\ task'[t].doc = task[t].doc
            \/ Posted(task'[t].doc),
         UNCHANGED <<server, ui, deleted>>
  PROVE  PostedInv'
  <1>1. queue \in [Devices -> Seq(Writes)] /\ queue[v] \in Seq(Writes)
    BY DEF TypeOK
  <1>2. \A u \in Devices : u # v => queue'[u] = queue[u]
    BY <1>1
  <1>3. \A i \in DOMAIN queue'[v] : /\ i \in Nat /\ i + 1 \in DOMAIN queue[v]
                                    /\ queue'[v][i] = queue[v][i + 1]
    BY <1>1
  <1>4. \A d : Posted(d) <=> PostedAfter(d)
    BY DEF Posted, PostedAfter
  <1>5. ASSUME NEW u \in Devices, NEW i \in DOMAIN queue'[u]
        PROVE  /\ i <= sent'[u] \/ queue'[u][i].kind # "add" =>
                     PostedAfter(queue'[u][i].doc)
               /\ queue'[u][i].kind = "delete" => queue'[u][i].doc \in deleted'
    <2>1. CASE u # v
      BY <1>2, <1>4, <2>1 DEF PostedInv
    <2>2. CASE u = v
      <3>1. /\ i \in Nat /\ i + 1 \in DOMAIN queue[v]
            /\ queue'[v][i] = queue[v][i + 1]
        BY <1>3, <2>2
      <3>2. i # 0
        BY <1>1, <2>2
      <3>3. i <= sent'[v] => i + 1 <= sent[v]
        BY <3>1, <3>2 DEF TypeOK
      <3>4. /\ \/ i + 1 <= sent[v]
               \/ queue[v][i + 1].kind # "add" => Posted(queue[v][i + 1].doc)
            /\ i + 1 <= sent[v] => Posted(queue[v][i + 1].doc)
            /\ queue[v][i + 1].kind = "delete" =>
                  queue[v][i + 1].doc \in deleted
        BY <3>1 DEF PostedInv
      <3> QED
        BY <1>4, <2>2, <3>1, <3>3, <3>4
    <2> QED
      BY <2>1, <2>2
  <1>6. ASSUME NEW t \in Tasks, task'[t].stage \in {"acked", "put", "url"}
        PROVE  PostedAfter(task'[t].doc)
    <2>1. task[t].stage \in Later => Posted(task[t].doc)
      BY DEF PostedInv, Later
    <2> QED
      BY <1>4, <1>6, <2>1 DEF Later
  <1>7. ASSUME NEW u \in Devices, NEW d \in OnScreen(u)'
        PROVE  PostedAfter(d)
    BY <1>4 DEF PostedInv, OnScreen
  <1>8. \A d \in Docs :
            /\ server'[d]["user"] # Absent => server'[d]["form"] # Absent
            /\ server'[d]["image"] # Absent =>
                  /\ PostedAfter(d)
                  /\ server'[d]["user"] = Absent \/ server'[d]["ref"] # Absent
    BY <1>4 DEF PostedInv
  <1> QED
    BY <1>5, <1>6, <1>7, <1>8 DEF PostedInv, Posted, PostedAfter

LEMMA StreamPosted ==
  ASSUME TypeOK, OwnInv, OrderInv, PostedInv, NEW v \in Devices, StreamStep(v)
  PROVE  PostedInv'
  <1>1. CASE WriteApplied(v)
    BY <1>1, WriteAppliedPosted
  <1>2. CASE StreamBroken(v)
    <2>1. \A u \in Devices : sent'[u] \in {0, sent[u]}
      BY <1>2 DEF StreamBroken, TypeOK
    <2>2. /\ UNCHANGED <<server, queue, deleted>> /\ TasksEnd /\ ScreensEnd
      BY <1>2 DEF StreamBroken, TasksEnd, ScreensEnd, OnScreen
    <2> QED
      BY <2>1, <2>2, PostedEnds DEF OrderInv
  <1>3. CASE WriteAcknowledged(v) \/ WriteRejected(v)
    <2> DEFINE w == Head(queue[v])
    <2>1. /\ queue[v] # <<>> /\ queue[v] \in Seq(Writes) /\ sent[v] \in Nat
          /\ w = queue[v][1] /\ 1 \in DOMAIN queue[v]
      BY <1>3 DEF WriteAcknowledged, WriteRejected, TypeOK
    <2>2. /\ sent'[v] \in Nat /\ (sent'[v] = 0 \/ sent'[v] + 1 = sent[v])
          /\ \A u \in Devices : u # v => sent'[u] = sent[u]
      BY <1>3, <2>1 DEF WriteAcknowledged, WriteRejected, TypeOK
    <2>3. /\ queue' = [queue EXCEPT ![v] = Tail(@)]
          /\ UNCHANGED <<server, ui, deleted>>
      BY <1>3 DEF WriteAcknowledged, WriteRejected
    <2>4. ASSUME NEW t \in Tasks, task'[t].stage \in Later
          PROVE  \/ task[t].stage \in Later /\ task'[t].doc = task[t].doc
                 \/ Posted(task'[t].doc)
      <3>1. CASE ~Awaits(t, v, w)
        <4>1. task'[t] = task[t]
          BY <1>3, <3>1 DEF WriteAcknowledged, WriteRejected
        <4> QED
          BY <2>4, <4>1
      <3>2. CASE Awaits(t, v, w) /\ WriteRejected(v)
        <4>1. task'[t] = NoTask
          BY <3>2 DEF WriteRejected
        <4> QED
          BY <2>4, <4>1 DEF NoTask, Later
      <3>3. CASE Awaits(t, v, w) /\ WriteAcknowledged(v)
        <4>1. sent[v] > 0 /\ task'[t] = [task[t] EXCEPT !.stage = "acked"]
          BY <3>3 DEF WriteAcknowledged
        <4>2. task[t] \in ActiveTasks /\ task[t].doc = w.doc
          BY <3>3 DEF Awaits, TypeOK, NoTask
        <4>3. task'[t].doc = w.doc
          BY <4>1, <4>2 DEF ActiveTasks
        <4>4. 1 <= sent[v]
          BY <2>1, <4>1
        <4>5. Posted(w.doc)
          BY <2>1, <4>4 DEF PostedInv
        <4> QED
          BY <4>3, <4>5
      <3> QED
        BY <1>3, <3>1, <3>2, <3>3
    <2> HIDE DEF w
    <2> QED
      BY <2>1, <2>2, <2>3, <2>4, TailPosted DEF OrderInv
  <1> QED
    BY <1>1, <1>2, <1>3 DEF StreamStep

LEMMA PostedInit == Init => PostedInv
  <1> SUFFICES ASSUME Init PROVE PostedInv
    OBVIOUS
  <1>1. \A d \in Docs : \A f \in Fields : server[d][f] = Absent
    BY DEF Init, NoPosting, Missing
  <1>2. \A v \in Devices : OnScreen(v) = {} /\ DOMAIN queue[v] = {}
    BY DEF Init, OnScreen, Closed
  <1>3. \A t \in Tasks : task[t].stage = "idle"
    BY DEF Init, NoTask
  <1>4. {"user", "form", "image"} \subseteq Fields
    BY DEF Fields
  <1> QED
    BY <1>1, <1>2, <1>3, <1>4 DEF PostedInv

LEMMA PostedStep ==
  TypeOK /\ OwnInv /\ OrderInv /\ PostedInv /\ [Next]_vars => PostedInv'
  <1> SUFFICES ASSUME TypeOK, OwnInv, OrderInv, PostedInv, [Next]_vars
               PROVE  PostedInv'
    OBVIOUS
  <1>1. ASSUME NEW v \in Devices, Kill(v) PROVE PostedInv'
    BY <1>1, PostedTrap DEF Kill, OrderInv
  <1>2. CASE UNCHANGED vars
    <2>1. /\ UNCHANGED <<server, queue, deleted>> /\ TasksEnd /\ ScreensEnd
          /\ \A u \in Devices : sent'[u] \in {0, sent[u]}
      BY <1>2 DEF vars, TasksEnd, ScreensEnd, OnScreen
    <2> QED
      BY <2>1, PostedEnds DEF OrderInv
  <1> QED
    BY <1>1, <1>2, UserPosted, ReadPosted, StreamPosted, TaskPosted DEF Next

(* A posting whose Image is stored has its Ref, its author and its form    *)
(* too, until its deletion is confirmed, as long as the backend refuses no *)
(* Ref: nothing that restarts, is refused or is written twice leaves a     *)
(* picture without its posting.                                            *)
THEOREM ShownIsComplete == RefsAccepted /\ Spec => []ShownComplete
  <1> SUFFICES ASSUME RefsAccepted
               PROVE  Spec => []ShownComplete
    OBVIOUS
  <1>1. TypeOK /\ OwnInv /\ OrderInv /\ [Next]_vars => OrderInv'
    BY OrderStep
  <1>2. PostedInv => ShownComplete
    BY DEF PostedInv, Posted, ShownComplete, Complete, Fields
  <1> QED
    BY <1>1, <1>2, TypeInit, TypeStep, OwnInit, OwnStep, OrderInit,
       PostedInit, PostedStep, PTL DEF Spec
=============================================================================
