------------------------- MODULE WritePipelineProofs -------------------------
(***************************************************************************)
(* No HARD_ASSERT of the write half of the Firestore client ever fails, no *)
(* write is lost and none takes the answer of another, for every set of    *)
(* users, every number of writes and every size of the pipeline, whatever  *)
(* breaks: WriteInv is inductive, and the client implements WriteQueue.    *)
(***************************************************************************)
EXTENDS RemoteStoreProofs, SequenceTheorems

USE PipelineAssumption

-----------------------------------------------------------------------------
(* The operators on queues.                                                *)

(* Two sequences are equal if they agree everywhere.                       *)
LEMMA SameSeq ==
    ASSUME NEW S, NEW s \in Seq(S), NEW t \in Seq(S), Len(s) = Len(t),
           \A i \in 1..Len(s) : s[i] = t[i]
    PROVE  s = t
OBVIOUS

LEMMA PrefixElements ==
    ASSUME NEW S, NEW s \in Seq(S), NEW t \in Seq(S)
    PROVE  IsPrefix(s, t) <=> /\ Len(s) <= Len(t)
                              /\ \A i \in 1..Len(s) : s[i] = t[i]
<1>1. CASE Len(s) <= Len(t)
  <2> DEFINE a == SubSeq(s, 1, Len(s))
             b == SubSeq(t, 1, Len(s))
  <2>1. a \in Seq(S) /\ Len(a) = Len(s) /\ \A i \in 1..Len(s) : a[i] = s[i]
    OBVIOUS
  <2>2. b \in Seq(S) /\ Len(b) = Len(s) /\ \A i \in 1..Len(s) : b[i] = t[i]
    BY <1>1
  <2> QED
    BY <1>1, <2>1, <2>2, SameSeq DEF IsPrefix
<1> QED
  BY <1>1 DEF IsPrefix

LEMMA ConcatElements ==
    ASSUME NEW S, NEW s \in Seq(S), NEW t \in Seq(S), NEW w \in Seq(S),
           Len(w) = Len(s) + Len(t),
           \A i \in 1..Len(s) : w[i] = s[i],
           \A i \in 1..Len(t) : w[Len(s) + i] = t[i]
    PROVE  s \o t = w
<1> DEFINE c == s \o t
<1>1. c \in Seq(S) /\ Len(c) = Len(w)
  OBVIOUS
<1>2. \A i \in 1..Len(c) : c[i] = IF i <= Len(s) THEN s[i] ELSE t[i - Len(s)]
  OBVIOUS
<1> HIDE DEF c
<1>3. ASSUME NEW i \in 1..Len(c) PROVE c[i] = w[i]
  <2>0. i \in Int /\ Len(s) \in Nat /\ Len(t) \in Nat
    BY <1>1
  <2>1. CASE i <= Len(s)
    BY <1>1, <1>2, <2>0, <2>1
  <2>2. CASE ~(i <= Len(s))
    <3>1. i - Len(s) \in 1..Len(t) /\ Len(s) + (i - Len(s)) = i
      BY <1>1, <2>0, <2>2
    <3> QED
      BY <1>2, <2>2, <3>1
  <2> QED
    BY <2>1, <2>2
<1>4. c = w
  BY <1>1, <1>3, SameSeq
<1> QED
  BY <1>4 DEF c

(* The oldest n of a queue.                                                *)
LEMMA OldestElements ==
    ASSUME NEW S, NEW q \in Seq(S), NEW n \in Nat
    PROVE  /\ Oldest(q, n) \in Seq(S)
           /\ Len(Oldest(q, n)) = IF Len(q) < n THEN Len(q) ELSE n
           /\ \A i \in 1..Len(Oldest(q, n)) : Oldest(q, n)[i] = q[i]
BY DEF Oldest

(* What follows a pipeline that is the front of the queue is its rest.     *)
LEMMA LaterIsRest ==
    ASSUME NEW p \in Seq(Batches), NEW q \in Seq(Batches), Increasing(q),
           Len(p) <= Len(q), \A i \in 1..Len(p) : p[i] = q[i]
    PROVE  Later(p, q) = SubSeq(q, Len(p) + 1, Len(q))
<1> DEFINE after == {i \in DOMAIN q : p = <<>> \/ q[i] > Last(p)}
           from == CHOOSE n \in 1..(Len(q) + 1) : n..Len(q) = after
<1>1. after = (Len(p) + 1)..Len(q)
  <2>1. CASE p = <<>>
    BY <2>1
  <2>2. CASE p # <<>>
    <3>1. Len(p) \in 1..Len(q) /\ Last(p) = q[Len(p)]
      BY <2>2 DEF Last
    <3>2. ASSUME NEW i \in 1..Len(q)
          PROVE  q[i] > q[Len(p)] <=> i > Len(p)
      <4>1. q[i] \in Nat /\ q[Len(p)] \in Nat
        BY <3>1 DEF Batches
      <4>2. CASE i < Len(p)
        BY <3>1, <4>1, <4>2 DEF Increasing
      <4>3. CASE i = Len(p)
        BY <4>1, <4>3
      <4>4. CASE i > Len(p)
        BY <3>1, <4>1, <4>4 DEF Increasing
      <4> QED
        BY <3>1, <4>2, <4>3, <4>4
    <3> QED
      BY <2>2, <3>1, <3>2
  <2> QED
    BY <2>1, <2>2
<1>2. Len(p) + 1 \in 1..(Len(q) + 1)
  OBVIOUS
<1>3. ASSUME NEW n \in 1..(Len(q) + 1), n..Len(q) = after
      PROVE  n = Len(p) + 1
  <2>1. n..Len(q) = (Len(p) + 1)..Len(q)
    BY <1>1, <1>3
  <2> HIDE DEF after
  <2>2. n <= Len(q) => Len(p) + 1 <= n
    BY <2>1
  <2>3. Len(p) + 1 <= Len(q) => n <= Len(p) + 1
    BY <2>1
  <2> QED
    BY <1>2, <2>2, <2>3
<1>4. from = Len(p) + 1
  <2> HIDE DEF after
  <2> QED
    BY <1>1, <1>2, <1>3
<1> QED
  BY <1>4 DEF Later

(* So filling the pipeline makes it the oldest of the queue.               *)
LEMMA FilledIsOldest ==
    ASSUME NEW p \in Seq(Batches), NEW q \in Seq(Batches), Increasing(q),
           Len(p) <= Len(q), \A i \in 1..Len(p) : p[i] = q[i],
           Len(p) <= MaxPending
    PROVE  Filled(p, q) = Oldest(q, MaxPending)
<1> DEFINE r == SubSeq(q, Len(p) + 1, Len(q))
           n == MaxPending - Len(p)
           o == Oldest(r, n)
           f == Oldest(q, MaxPending)
<1>1. Filled(p, q) = p \o o
  BY LaterIsRest DEF Filled
<1>2. /\ r \in Seq(Batches) /\ Len(r) = Len(q) - Len(p)
      /\ \A i \in 1..Len(r) : r[i] = q[Len(p) + i]
  OBVIOUS
<1>3. n \in Nat
  OBVIOUS
<1> HIDE DEF r, n
<1>4. /\ o \in Seq(Batches)
      /\ Len(o) = IF Len(r) < n THEN Len(r) ELSE n
      /\ \A i \in 1..Len(o) : o[i] = r[i]
  BY <1>2, <1>3, OldestElements
<1>5. /\ f \in Seq(Batches)
      /\ Len(f) = IF Len(q) < MaxPending THEN Len(q) ELSE MaxPending
      /\ \A i \in 1..Len(f) : f[i] = q[i]
  BY OldestElements
<1> HIDE DEF o, f
<1>6. Len(f) = Len(p) + Len(o) /\ Len(o) <= Len(r)
  BY <1>2, <1>4, <1>5 DEF n
<1>7. \A i \in 1..Len(p) : f[i] = p[i]
  BY <1>5, <1>6
<1>8. ASSUME NEW i \in 1..Len(o) PROVE f[Len(p) + i] = o[i]
  <2>1. i \in 1..Len(r) /\ Len(p) + i \in 1..Len(f)
    BY <1>4, <1>6
  <2>2. o[i] = r[i] /\ r[i] = q[Len(p) + i]
    BY <1>2, <1>4, <2>1
  <2> QED
    BY <1>5, <2>1, <2>2
<1>9. p \o o = f
  BY <1>4, <1>5, <1>6, <1>7, <1>8, ConcatElements
<1> QED
  BY <1>1, <1>9 DEF f

(* And what is added is what makes the old pipeline the new one.           *)
LEMMA AddedCompletes ==
    ASSUME NEW p \in Seq(Batches), NEW q \in Seq(Batches),
           Filled(p, q) \in Seq(Batches), Len(p) <= Len(Filled(p, q)),
           \A i \in 1..Len(p) : p[i] = Filled(p, q)[i]
    PROVE  /\ Added(p, q) \in Seq(Batches)
           /\ Filled(p, q) = p \o Added(p, q)
<1> DEFINE f == Filled(p, q)
           a == SubSeq(f, Len(p) + 1, Len(f))
<1> HIDE DEF f
<1>0. f \in Seq(Batches) /\ Len(p) <= Len(f)
      /\ \A i \in 1..Len(p) : p[i] = f[i]
  BY DEF f
<1>1. /\ a \in Seq(Batches) /\ Len(a) = Len(f) - Len(p)
      /\ \A i \in 1..Len(a) : a[i] = f[Len(p) + i]
  BY <1>0
<1> HIDE DEF a
<1>2. Len(f) = Len(p) + Len(a) /\ \A i \in 1..Len(p) : f[i] = p[i]
  BY <1>0, <1>1
<1>3. \A i \in 1..Len(a) : f[Len(p) + i] = a[i]
  BY <1>1
<1>4. p \o a = f
  BY <1>0, <1>1, <1>2, <1>3, ConcatElements
<1> QED
  BY <1>1, <1>4 DEF Added, f, a
(* Filling a pipeline that is the front of a queue, in the terms the       *)
(* actions use.                                                            *)
FrontOf(p, q) ==
    /\ p \in Seq(Batches) /\ Len(p) <= MaxPending
    /\ Len(p) <= Len(q) /\ \A i \in 1..Len(p) : p[i] = q[i]

LEMMA FrontFilled ==
    ASSUME NEW p, NEW q \in Seq(Batches), Increasing(q), FrontOf(p, q)
    PROVE  /\ Filled(p, q) = Oldest(q, MaxPending)
           /\ Filled(p, q) \in Seq(Batches) /\ Len(Filled(p, q)) <= MaxPending
           /\ Len(p) <= Len(Filled(p, q))
           /\ \A i \in 1..Len(p) : p[i] = Filled(p, q)[i]
           /\ Added(p, q) \in Seq(Batches)
           /\ Filled(p, q) = p \o Added(p, q)
<1>1. Filled(p, q) = Oldest(q, MaxPending)
  BY FilledIsOldest DEF FrontOf
<1>2. /\ Oldest(q, MaxPending) \in Seq(Batches)
      /\ Len(Oldest(q, MaxPending))
           = IF Len(q) < MaxPending THEN Len(q) ELSE MaxPending
      /\ \A i \in 1..Len(Oldest(q, MaxPending)) :
            Oldest(q, MaxPending)[i] = q[i]
  BY OldestElements
<1>3. /\ Filled(p, q) \in Seq(Batches) /\ Len(Filled(p, q)) <= MaxPending
      /\ Len(p) <= Len(Filled(p, q))
      /\ \A i \in 1..Len(p) : p[i] = Filled(p, q)[i]
  BY <1>1, <1>2 DEF FrontOf
<1> QED
  BY <1>1, <1>3, AddedCompletes DEF FrontOf

(* The empty pipeline is in front of every queue, the full one stays there *)
(* when a batch is appended, and its tail is in front of the queue's.      *)
LEMMA EmptyFront ==
    ASSUME NEW q \in Seq(Batches)
    PROVE  FrontOf(<<>>, q)
BY DEF FrontOf

LEMMA OldestFront ==
    ASSUME NEW q \in Seq(Batches)
    PROVE  FrontOf(Oldest(q, MaxPending), q)
BY OldestElements DEF FrontOf

LEMMA AppendFront ==
    ASSUME NEW q \in Seq(Batches), NEW p, FrontOf(p, q), NEW b \in Batches
    PROVE  FrontOf(p, Append(q, b))
BY DEF FrontOf

LEMMA TailFront ==
    ASSUME NEW q \in Seq(Batches), NEW p, FrontOf(p, q), p # <<>>
    PROVE  /\ q # <<>> /\ Head(p) = Head(q) /\ Head(p) = q[1]
           /\ FrontOf(Tail(p), Tail(q))
<1>1. p \in Seq(Batches) /\ Len(p) \in Nat \ {0} /\ Len(q) \in Nat \ {0}
      /\ p[1] = q[1] /\ Len(p) <= MaxPending /\ Len(p) <= Len(q)
  BY DEF FrontOf
<1>2. /\ Tail(p) \in Seq(Batches) /\ Len(Tail(p)) = Len(p) - 1
      /\ \A i \in 1..(Len(p) - 1) : Tail(p)[i] = p[i + 1]
  BY <1>1
<1>3. /\ Tail(q) \in Seq(Batches) /\ Len(Tail(q)) = Len(q) - 1
      /\ \A i \in 1..(Len(q) - 1) : Tail(q)[i] = q[i + 1]
  BY <1>1
<1>4. FrontOf(Tail(p), Tail(q))
  BY <1>1, <1>2, <1>3 DEF FrontOf
<1> QED
  BY <1>1, <1>4

(* Deleting the row of the first batch leaves the tail.                    *)
LEMMA RemoveFirstIsTail ==
    ASSUME NEW q \in Seq(Batches), Increasing(q), q # <<>>
    PROVE  RemoveFirst(q, q[1]) = Tail(q)
<1> DEFINE same == {i \in 1..Len(q) : q[i] = q[1]}
<1>1. same = {1}
  BY DEF Increasing, Batches
<1>2. Min({1}) = 1
  BY DEF Min
<1>3. SelectInSeq(q, LAMBDA v : v = q[1]) = 1
  BY <1>1, <1>2 DEF SelectInSeq
<1>4. RemoveAt(q, 1) = Tail(q)
  BY DEF RemoveAt
<1>5. 1 \in 1..Len(q) /\ q[1] = q[1]
  OBVIOUS
<1> QED
  BY <1>3, <1>4, <1>5 DEF RemoveFirst

LEMMA TailIncreasing ==
    ASSUME NEW q \in Seq(Batches), Increasing(q), q # <<>>
    PROVE  Increasing(Tail(q))
BY DEF Increasing
-----------------------------------------------------------------------------
(* What FillWritePipeline makes of a stream that is regular, idles only    *)
(* after the handshake and without writes, and is open if that is over.    *)
LEMMA FillRegular ==
    ASSUME NEW s, Regular(s), NEW shaken \in BOOLEAN,
           NEW p, NEW q \in Seq(Batches), Increasing(q), FrontOf(p, q),
           s.idle => shaken /\ p = <<>>,
           IsOpen(s) => shaken \/ q # <<>>
    PROVE  LET f == FillWritePipeline(s, shaken, p, q)
           IN  /\ Regular(f) /\ (IsOpen(f) <=> IsOpen(s))
               /\ Filled(p, q) # <<>> => IsStarted(f)
               /\ f.idle => shaken /\ Filled(p, q) = <<>>
<1> DEFINE f == FillWritePipeline(s, shaken, p, q)
<1>0. /\ Filled(p, q) = Oldest(q, MaxPending)
      /\ Filled(p, q) = p \o Added(p, q)
      /\ Added(p, q) \in Seq(Batches) /\ Filled(p, q) \in Seq(Batches)
      /\ p \in Seq(Batches)
  BY FrontFilled DEF FrontOf
<1>1. CASE Filled(p, q) = <<>>
  <2>1. f = MarkIdle(s)
    BY <1>1 DEF FillWritePipeline
  <2>2. q = <<>>
    <3>1. Len(Oldest(q, MaxPending)) = 0
      BY <1>0, <1>1
    <3>2. Len(Oldest(q, MaxPending))
            = IF Len(q) < MaxPending THEN Len(q) ELSE MaxPending
      BY OldestElements
    <3> QED
      BY <3>1, <3>2
  <2>3. CASE IsOpen(s)
    BY <1>1, <2>1, <2>2, <2>3, OpenRegular
  <2>4. CASE ~IsOpen(s)
    <3>1. s \in Streams /\ s.idle = FALSE
      BY <2>4 DEF Regular, Streams
    <3>2. MarkIdle(s) = s
      BY <2>4, <3>1 DEF MarkIdle, Streams
    <3> QED
      BY <1>1, <2>1, <2>4, <3>1, <3>2
  <2> QED
    BY <2>3, <2>4
<1>2. CASE Filled(p, q) # <<>> /\ ~IsStarted(s)
  <2>1. f = Start(s)
    BY <1>2 DEF FillWritePipeline
  <2>2. ~IsOpen(s)
    BY <1>2 DEF IsOpen, IsStarted
  <2> QED
    BY <1>2, <2>1, <2>2, StartRegular
<1>3. CASE /\ Filled(p, q) # <<>> /\ IsStarted(s)
           /\ SentAtOnce(s, shaken, p, q) # <<>>
  <2>1. f = Written(s) /\ IsOpen(s)
    BY <1>3 DEF FillWritePipeline, SentAtOnce
  <2>2. Regular(f) /\ IsOpen(f) /\ ~f.idle
    BY <2>1, OpenRegular
  <2> QED
    BY <2>1, <2>2 DEF IsOpen, IsStarted
<1>4. CASE /\ Filled(p, q) # <<>> /\ IsStarted(s)
           /\ SentAtOnce(s, shaken, p, q) = <<>>
  <2>1. f = s
    BY <1>4 DEF FillWritePipeline
  <2>2. ~s.idle
    <3> SUFFICES ASSUME s.idle PROVE FALSE
      OBVIOUS
    <3>1. IsOpen(s) /\ shaken /\ p = <<>>
      BY DEF Regular
    <3>2. Added(p, q) = <<>>
      BY <1>4, <3>1 DEF SentAtOnce
    <3> QED
      BY <1>0, <1>4, <3>1, <3>2
  <2> QED
    BY <1>4, <2>1, <2>2
<1> QED
  BY <1>1, <1>2, <1>3, <1>4

-----------------------------------------------------------------------------
(* WriteInv in the terms of the proof.                                     *)
Kept ==
    /\ user \in Users /\ queue \in [Users -> Seq(Batches)]
    /\ result \in [Batches -> Results]
    /\ landed \subseteq Batches /\ refused \subseteq Batches
    /\ KeysInOrder /\ NoneLost

Served ==
    /\ PipelineIsFull
    /\ write.idle => handshake /\ pipeline = <<>>
    /\ IsOpen(write) \/ (call = NoCall /\ ~handshake)

Talked ==
    /\ handshake \in BOOLEAN /\ call \in Calls
    /\ IF handshake THEN Shaken ELSE Shaking

LEMMA WriteInvParts ==
    WriteInv <=> Kept /\ Regular(write) /\ Served /\ Talked
<1>1. WriteInv => Kept /\ Regular(write) /\ Served /\ Talked
  BY DEF WriteInv, WriteTypes, StreamInOrder, Kept, Regular, Served, Talked
<1>2. ASSUME Kept, Served
      PROVE  pipeline \in Seq(Batches) /\ Len(pipeline) <= MaxPending
  BY <1>2, OldestElements DEF Kept, Served, PipelineIsFull
<1>3. Kept /\ Regular(write) /\ Served /\ Talked => WriteInv
  BY <1>2 DEF WriteInv, WriteTypes, StreamInOrder, Kept, Regular, Served, Talked
<1> QED
  BY <1>1, <1>3

LEMMA WriteInvPartsNext ==
    Kept' /\ Regular(write') /\ Served' /\ Talked' => WriteInv'
<1>1. ASSUME Kept', Served'
      PROVE  pipeline' \in Seq(Batches) /\ Len(pipeline') <= MaxPending
  BY <1>1, OldestElements DEF Kept, Served, PipelineIsFull
<1> QED
  BY <1>1 DEF WriteInv, WriteTypes, StreamInOrder, Kept, Regular, Served, Talked

(* Nothing is said before the stream opens, and nothing of a closed call   *)
(* is left.                                                                *)
LEMMA NoCallTalked ==
    ASSUME handshake' = FALSE, call' = NoCall
    PROVE  Talked'
<1>1. NoCall \in Calls /\ NoCall.wire = <<>> /\ NoCall.answers = <<>>
      /\ NoCall.status = "none"
  BY DEF NoCall, Calls
<1> QED
  BY <1>1 DEF Talked, Shaking

LEMMA PipelineFront ==
    ASSUME Kept, Served
    PROVE  /\ queue[user] \in Seq(Batches) /\ Increasing(queue[user])
           /\ pipeline \in Seq(Batches) /\ Len(pipeline) <= MaxPending
           /\ FrontOf(pipeline, queue[user])
<1>1. queue[user] \in Seq(Batches) /\ Increasing(queue[user])
  BY DEF Kept, KeysInOrder
<1> QED
  BY <1>1, OldestFront DEF Served, PipelineIsFull, FrontOf

(* The first batch of the pipeline, which the backend has answered, leaves *)
(* its queue.                                                              *)
LEMMA DoneKept ==
    ASSUME WriteInv, pipeline # <<>>, NEW o \in {"ok", "refused"},
           BatchDone(Head(pipeline), o),
           Head(pipeline) \in landed \cup refused,
           o = "ok" => Head(pipeline) \in landed,
           UNCHANGED <<user, backendVars>>
    PROVE  /\ Kept' /\ Queued(Head(pipeline))
           /\ queue' = [queue EXCEPT ![user] = Tail(queue[user])]
           /\ Increasing(queue'[user]) /\ queue'[user] \in Seq(Batches)
           /\ FrontOf(Tail(pipeline), queue'[user])
<1>0. Kept /\ Served
  BY WriteInvParts
<1> DEFINE q == queue[user]
           b == Head(pipeline)
<1>1. /\ q \in Seq(Batches) /\ Increasing(q)
      /\ pipeline \in Seq(Batches) /\ FrontOf(pipeline, q)
  BY <1>0, PipelineFront
<1>2. q # <<>> /\ b = q[1] /\ FrontOf(Tail(pipeline), Tail(q))
  BY <1>1, TailFront
<1>3. RemoveFirst(q, b) = Tail(q)
  BY <1>1, <1>2, RemoveFirstIsTail
<1>4. queue' = [queue EXCEPT ![user] = Tail(q)]
  BY <1>3 DEF BatchDone
<1>5. /\ Tail(q) \in Seq(Batches) /\ Increasing(Tail(q))
      /\ Len(q) \in Nat \ {0} /\ Len(Tail(q)) = Len(q) - 1
      /\ \A i \in 1..Len(Tail(q)) : Tail(q)[i] = q[i + 1]
  BY <1>1, <1>2, TailIncreasing
<1>6. queue' \in [Users -> Seq(Batches)] /\ queue'[user] = Tail(q)
  BY <1>0, <1>4, <1>5 DEF Kept
<1>7. /\ b \in Batches /\ result' \in [Batches -> Results]
      /\ \A c \in Batches : result'[c] = "none" <=> result[c] = "none"
      /\ \A c \in Batches : c # b => result'[c] = result[c]
      /\ result'[b] = "ok" => result[b] = "ok" \/ o = "ok"
  <2>1. b \in Batches
    BY <1>1, <1>2, <1>5
  <2>2. result' = [result EXCEPT ![b] = IF result[b] = "waits" THEN o
                                        ELSE result[b]]
    BY DEF BatchDone
  <2>3. result \in [Batches -> Results]
    BY <1>0 DEF Kept
  <2> QED
    BY <2>1, <2>2, <2>3 DEF Results
<1>8. ASSUME NEW u \in Users, NEW i \in DOMAIN queue'[u]
      PROVE  \E j \in DOMAIN queue[u] : queue'[u][i] = queue[u][j]
  <2>1. CASE u = user
    <3>1. i \in 1..Len(Tail(q)) /\ i + 1 \in 1..Len(q)
      BY <1>5, <1>6, <1>8, <2>1
    <3> QED
      BY <1>1, <1>5, <1>6, <2>1, <3>1
  <2>2. CASE u # user
    BY <1>0, <1>4, <1>8, <2>2 DEF Kept
  <2> QED
    BY <2>1, <2>2
<1>9. KeysInOrder'
  <2>1. \A u \in Users : Increasing(queue'[u])
    BY <1>0, <1>4, <1>5, <1>6 DEF Kept, KeysInOrder
  <2>2. ASSUME NEW u \in Users, NEW i \in DOMAIN queue'[u]
        PROVE  result'[queue'[u][i]] # "none"
    <3>1. PICK j \in DOMAIN queue[u] : queue'[u][i] = queue[u][j]
      BY <1>8
    <3>2. queue[u][j] \in Batches /\ result[queue[u][j]] # "none"
      BY <1>0 DEF Kept, KeysInOrder
    <3> QED
      BY <1>7, <3>1, <3>2
  <2>3. /\ \E n \in 0..MaxWrites :
             \A c \in Batches : result'[c] = "none" <=> c > n
        /\ \A c \in landed' \cup refused' : result'[c] # "none"
    BY <1>0, <1>7 DEF Kept, KeysInOrder, backendVars
  <2> QED
    BY <2>1, <2>2, <2>3 DEF KeysInOrder
<1>10. NoneLost'
  <2>1. ASSUME NEW c \in Batches, NEW u \in Users, c \in Range(queue[u]),
               c # b
        PROVE  c \in Range(queue'[u])
    <3>1. PICK j \in DOMAIN queue[u] : c = queue[u][j]
      BY <2>1 DEF Range
    <3>2. CASE u = user
      <4>1. j \in 1..Len(q) /\ j # 1
        BY <1>1, <1>2, <2>1, <3>1, <3>2
      <4>2. j - 1 \in 1..Len(Tail(q)) /\ Tail(q)[j - 1] = q[(j - 1) + 1]
        BY <1>5, <4>1
      <4>3. j - 1 \in DOMAIN queue'[u] /\ queue'[u][j - 1] = c
        BY <1>5, <1>6, <3>1, <3>2, <4>1, <4>2
      <4> QED
        BY <4>3 DEF Range
    <3>3. CASE u # user
      BY <1>0, <1>4, <3>1, <3>3 DEF Range, Kept
    <3> QED
      BY <3>2, <3>3
  <2>2. \A c \in Batches : result'[c] = "none" \/ c \in landed' \cup refused'
                           \/ \E u \in Users : c \in Range(queue'[u])
    BY <1>0, <1>7, <2>1 DEF Kept, NoneLost, backendVars
  <2>3. \A c \in Batches : result'[c] = "ok" => c \in landed'
    BY <1>0, <1>7 DEF Kept, NoneLost, backendVars
  <2> QED
    BY <2>2, <2>3 DEF NoneLost, Range
<1>11. Kept'
  BY <1>0, <1>6, <1>7, <1>9, <1>10 DEF Kept, backendVars
<1>12. Queued(b)
  BY <1>1, <1>2, <1>5 DEF Queued, Range
<1> QED
  BY <1>2, <1>4, <1>5, <1>6, <1>11, <1>12

-----------------------------------------------------------------------------
(* The actions.                                                            *)
LEMMA InitWriteInv == Init => WriteInv
<1> SUFFICES ASSUME Init PROVE WriteInv
  OBVIOUS
<1>1. /\ user \in Users /\ queue = [u \in Users |-> <<>>]
      /\ result = [b \in Batches |-> "none"] /\ pipeline = <<>>
      /\ write = NewStream /\ handshake = FALSE /\ call = NoCall
      /\ landed = {} /\ refused = {}
  BY DEF Init, WriteInit
<1>2. Regular(write) /\ ~write.idle
  BY <1>1 DEF Regular, NewStream, Streams, States, IsOpen
<1>3. queue \in [Users -> Seq(Batches)] /\ queue[user] = <<>>
  BY <1>1
<1>4. KeysInOrder
  <2>1. 0 \in 0..MaxWrites /\ \A b \in Batches : b > 0
    BY DEF Batches
  <2>2. \A u \in Users : DOMAIN queue[u] = {}
    BY <1>1
  <2> QED
    BY <1>1, <2>1, <2>2 DEF KeysInOrder, Increasing
<1>5. Kept
  BY <1>1, <1>3, <1>4 DEF Kept, NoneLost, Results
<1>6. Oldest(<<>>, MaxPending) = <<>>
  BY DEF Oldest
<1>7. Served
  BY <1>1, <1>2, <1>3, <1>6 DEF Served, PipelineIsFull
<1>8. NoCall \in Calls /\ NoCall.wire = <<>> /\ NoCall.answers = <<>>
      /\ NoCall.status = "none"
  BY DEF NoCall, Calls
<1>9. Talked
  BY <1>1, <1>8 DEF Talked, Shaking
<1> QED
  BY <1>2, <1>5, <1>7, <1>9, WriteInvParts

(* A write is made: it gets the next key, and goes out if there is room.   *)
LEMMA NewWriteKept ==
    ASSUME WriteInv, WriteMutations
    PROVE  \E b \in Unused :
             /\ b \notin landed
             /\ queue' = [queue EXCEPT ![user] = Append(queue[user], b)]
             /\ queue'[user] = Append(queue[user], b)
             /\ Increasing(Append(queue[user], b))
             /\ Kept'
<1>0. Kept /\ Served
  BY WriteInvParts
<1> DEFINE b == CHOOSE b \in Unused : \A c \in Unused : b <= c
           q == queue[user]
<1>1. q \in Seq(Batches) /\ Increasing(q)
  BY <1>0, PipelineFront
<1>2. PICK n \in 0..MaxWrites : \A c \in Batches : result[c] = "none" <=> c > n
  BY <1>0 DEF Kept, KeysInOrder
<1>3. b = n + 1 /\ b \in Unused
  <2>1. PICK c \in Batches : result[c] = "none"
    BY DEF WriteMutations, Unused
  <2>2. n + 1 \in Batches /\ result[n + 1] = "none"
    BY <1>2, <2>1 DEF Batches
  <2>3. n + 1 \in Unused /\ \A c2 \in Unused : n + 1 <= c2
    BY <1>2, <2>2 DEF Unused, Batches
  <2>4. b \in Unused /\ \A c2 \in Unused : b <= c2
    BY <2>3
  <2>5. b \in Int
    BY <2>4 DEF Unused, Batches
  <2> HIDE DEF b
  <2> QED
    BY <2>3, <2>4, <2>5
<1>4. /\ queue' = [queue EXCEPT ![user] = Append(q, b)]
      /\ result' = [result EXCEPT ![b] = "waits"]
      /\ UNCHANGED <<user, landed, refused>>
  BY DEF WriteMutations, backendVars
<1> HIDE DEF b
<1>5. result[b] = "none" /\ b \in Batches
  BY <1>3 DEF Unused
<1>6. /\ Append(q, b) \in Seq(Batches) /\ Len(Append(q, b)) = Len(q) + 1
      /\ \A i \in 1..Len(q) : Append(q, b)[i] = q[i]
      /\ Append(q, b)[Len(q) + 1] = b
  BY <1>1, <1>5
<1>7. \A i \in 1..Len(q) : q[i] \in Batches /\ q[i] < b
  <2> SUFFICES ASSUME NEW i \in 1..Len(q) PROVE q[i] \in Batches /\ q[i] < b
    OBVIOUS
  <2>1. q[i] \in Batches /\ result[q[i]] # "none"
    BY <1>0, <1>1 DEF Kept, KeysInOrder
  <2> QED
    BY <1>2, <1>3, <2>1 DEF Batches
<1>8. Increasing(Append(q, b))
  <2> DEFINE w == Append(q, b)
  <2>1. DOMAIN w = 1..(Len(q) + 1) /\ \A i \in 1..Len(q) : w[i] = q[i]
        /\ w[Len(q) + 1] = b
    BY <1>1, <1>6
  <2> HIDE DEF w
  <2>2. ASSUME NEW i \in DOMAIN w, NEW j \in DOMAIN w, i < j
        PROVE  w[i] < w[j]
    <3>1. CASE j <= Len(q)
      BY <1>1, <2>1, <2>2, <3>1 DEF Increasing
    <3>2. CASE j = Len(q) + 1
      BY <1>1, <1>7, <2>1, <2>2, <3>2
    <3> QED
      BY <1>1, <2>1, <3>1, <3>2
  <2>3. Increasing(w)
    BY <2>2 DEF Increasing
  <2> QED
    BY <2>3 DEF w
<1>9. /\ queue' \in [Users -> Seq(Batches)] /\ queue'[user] = Append(q, b)
      /\ \A u \in Users : u # user => queue'[u] = queue[u]
  BY <1>0, <1>4, <1>6 DEF Kept
<1>10. /\ result' \in [Batches -> Results] /\ result'[b] = "waits"
       /\ \A c \in Batches : c # b => result'[c] = result[c]
  BY <1>0, <1>4, <1>5 DEF Kept, Results
<1>11. KeysInOrder'
  <2>1. \A u \in Users : Increasing(queue'[u])
    BY <1>0, <1>8, <1>9 DEF Kept, KeysInOrder
  <2>2. ASSUME NEW u \in Users, NEW i \in DOMAIN queue'[u]
        PROVE  result'[queue'[u][i]] # "none"
    <3>1. CASE u # user
      <4>1. i \in DOMAIN queue[u] /\ queue'[u][i] = queue[u][i]
            /\ queue[u][i] \in Batches
        BY <1>0, <1>9, <2>2, <3>1 DEF Kept
      <4> QED
        BY <1>0, <1>10, <4>1 DEF Kept, KeysInOrder
    <3>2. CASE u = user
      <4>1. i \in 1..(Len(q) + 1)
        BY <1>6, <1>9, <2>2, <3>2
      <4>2. CASE i \in 1..Len(q)
        <5>1. queue'[u][i] = q[i] /\ q[i] \in Batches
          BY <1>6, <1>7, <1>9, <3>2, <4>2
        <5>2. result[q[i]] # "none"
          BY <1>0, <1>1, <4>2 DEF Kept, KeysInOrder
        <5> QED
          BY <1>10, <5>1, <5>2
      <4>3. CASE i = Len(q) + 1
        BY <1>6, <1>9, <1>10, <3>2, <4>3
      <4> QED
        BY <1>1, <4>1, <4>2, <4>3
    <3> QED
      BY <3>1, <3>2
  <2>3. \E m \in 0..MaxWrites :
          \A c \in Batches : result'[c] = "none" <=> c > m
    <3>1. n + 1 \in 0..MaxWrites
      BY <1>3, <1>5 DEF Batches
    <3>2. \A c \in Batches : result'[c] = "none" <=> c > n + 1
      BY <1>2, <1>3, <1>5, <1>10 DEF Batches
    <3> QED
      BY <3>1, <3>2
  <2>4. \A c \in landed' \cup refused' : result'[c] # "none"
    BY <1>0, <1>4, <1>10 DEF Kept, KeysInOrder
  <2> QED
    BY <2>1, <2>2, <2>3, <2>4 DEF KeysInOrder
<1>12. NoneLost'
  <2>1. ASSUME NEW c \in Batches, NEW u \in Users, c \in Range(queue[u])
        PROVE  c \in Range(queue'[u])
    <3>1. PICK j \in DOMAIN queue[u] : c = queue[u][j]
      BY <2>1 DEF Range
    <3>2. CASE u = user
      <4>1. j \in 1..Len(q) /\ c = q[j]
        BY <1>1, <3>1, <3>2
      <4>2. j \in DOMAIN queue'[u] /\ queue'[u][j] = c
        BY <1>1, <1>6, <1>9, <3>2, <4>1
      <4> QED
        BY <4>2 DEF Range
    <3>3. CASE u # user
      BY <1>9, <3>1, <3>3 DEF Range
    <3> QED
      BY <3>2, <3>3
  <2>2. b \in Range(queue'[user])
    <3>1. Len(q) + 1 \in DOMAIN queue'[user]
      BY <1>1, <1>6, <1>9
    <3> QED
      BY <1>6, <1>9, <3>1 DEF Range
  <2>3. \A c \in Batches : result'[c] = "none" \/ c \in landed' \cup refused'
                           \/ \E u \in Users : c \in Range(queue'[u])
    BY <1>0, <1>4, <1>10, <2>1, <2>2 DEF Kept, NoneLost
  <2>4. \A c \in Batches : result'[c] = "ok" => c \in landed'
    BY <1>0, <1>4, <1>10 DEF Kept, NoneLost
  <2> QED
    BY <2>3, <2>4 DEF NoneLost, Range
<1>13. Kept'
  BY <1>0, <1>4, <1>9, <1>10, <1>11, <1>12 DEF Kept
<1>14. b \notin landed
  BY <1>0, <1>5 DEF Kept, KeysInOrder
<1> QED
  BY <1>3, <1>4, <1>8, <1>9, <1>13, <1>14

-----------------------------------------------------------------------------
(* Shaken, of answers a, a wire w, a status, a pipeline p and the batches  *)
(* L and R that the backend has applied and refused.                       *)
Fits(a, w, status, p, L, R) ==
    /\ Len(a) <= Len(p) /\ \A i \in 1..Len(a) : a[i] = p[i]
    /\ status = "none" => p = a \o w
    /\ \A i \in 1..Len(a) : a[i] \in L
    /\ status = "permanent" => Len(a) < Len(p) /\ p[Len(a) + 1] \in R

LEMMA BatchesAreMessages ==
    ASSUME NEW s \in Seq(Batches)
    PROVE  s \in Seq(Messages)
BY DEF Messages

LEMMA ShakenFits ==
    ASSUME call \in Calls, pipeline \in Seq(Batches)
    PROVE  Shaken <=> Fits(call.answers, call.wire, call.status, pipeline,
                           landed, refused)
<1>1. call.answers \in Seq(Messages)
  BY DEF Calls
<1>2. pipeline \in Seq(Messages)
  BY BatchesAreMessages
<1>3. IsPrefix(call.answers, pipeline) <=>
        /\ Len(call.answers) <= Len(pipeline)
        /\ \A i \in 1..Len(call.answers) : call.answers[i] = pipeline[i]
  BY <1>1, <1>2, PrefixElements
<1>4. DOMAIN call.answers = 1..Len(call.answers)
  BY <1>1
<1> QED
  BY <1>3, <1>4 DEF Shaken, Fits

LEMMA ShakenFitsNext ==
    ASSUME call' \in Calls, pipeline' \in Seq(Batches),
           Fits(call'.answers, call'.wire, call'.status, pipeline',
                landed', refused')
    PROVE  Shaken'
<1>1. call'.answers \in Seq(Messages)
  BY DEF Calls
<1>2. pipeline' \in Seq(Messages)
  BY BatchesAreMessages
<1>3. IsPrefix(call'.answers, pipeline') <=>
        /\ Len(call'.answers) <= Len(pipeline')
        /\ \A i \in 1..Len(call'.answers) : call'.answers[i] = pipeline'[i]
  BY <1>1, <1>2, PrefixElements
<1>4. DOMAIN call'.answers = 1..Len(call'.answers)
  BY <1>1
<1> QED
  BY <1>3, <1>4 DEF Shaken, Fits

(* What is added to the pipeline is added to the wire.                     *)
LEMMA FitsExtended ==
    ASSUME NEW a \in Seq(Messages), NEW w \in Seq(Messages), NEW status,
           NEW p \in Seq(Batches), NEW e \in Seq(Batches), NEW L, NEW R,
           Fits(a, w, status, p, L, R)
    PROVE  Fits(a, w \o e, status, p \o e, L, R)
<1>1. p \in Seq(Messages) /\ e \in Seq(Messages)
  BY BatchesAreMessages
<1>2. (a \o w) \o e = a \o (w \o e)
  BY <1>1, ConcatAssociative
<1>3. /\ Len(p \o e) = Len(p) + Len(e) /\ Len(p) \in Nat /\ Len(e) \in Nat
      /\ Len(a) \in Nat
      /\ \A i \in 1..Len(p) : (p \o e)[i] = p[i]
  OBVIOUS
<1>4. Len(a) <= Len(p)
  BY DEF Fits
<1>5. Len(a) <= Len(p \o e)
  BY <1>3, <1>4
<1>6. \A i \in 1..Len(a) : a[i] = (p \o e)[i]
  BY <1>3, <1>4 DEF Fits
<1>7. status = "permanent" =>
        Len(a) < Len(p \o e) /\ (p \o e)[Len(a) + 1] \in R
  BY <1>3 DEF Fits
<1>8. status = "none" => p \o e = a \o (w \o e)
  BY <1>2 DEF Fits
<1> QED
  BY <1>5, <1>6, <1>7, <1>8 DEF Fits

(* The first answer is read: its batch leaves the pipeline.                *)
LEMMA FitsShifted ==
    ASSUME NEW a \in Seq(Messages), NEW w \in Seq(Messages), NEW status,
           NEW p \in Seq(Batches), NEW L, NEW R,
           Fits(a, w, status, p, L, R), a # <<>>
    PROVE  Fits(Tail(a), w, status, Tail(p), L, R)
<1>1. /\ Len(a) \in Nat \ {0} /\ Len(p) \in Nat \ {0} /\ Len(a) <= Len(p)
      /\ \A i \in 1..Len(a) : a[i] = p[i]
      /\ \A i \in 1..Len(a) : a[i] \in L
  BY DEF Fits
<1>2. /\ Tail(a) \in Seq(Messages) /\ Len(Tail(a)) = Len(a) - 1
      /\ \A i \in 1..(Len(a) - 1) : Tail(a)[i] = a[i + 1]
  BY <1>1
<1>3. /\ Tail(p) \in Seq(Batches) /\ Len(Tail(p)) = Len(p) - 1
      /\ \A i \in 1..(Len(p) - 1) : Tail(p)[i] = p[i + 1]
  BY <1>1
<1>4. /\ Len(Tail(a)) <= Len(Tail(p))
      /\ \A i \in 1..Len(Tail(a)) : Tail(a)[i] = Tail(p)[i]
      /\ \A i \in 1..Len(Tail(a)) : Tail(a)[i] \in L
  BY <1>1, <1>2, <1>3
<1>5. status = "permanent" =>
        Len(Tail(a)) < Len(Tail(p)) /\ Tail(p)[Len(Tail(a)) + 1] \in R
  BY <1>1, <1>2, <1>3 DEF Fits
<1>6. status = "none" => Tail(p) = Tail(a) \o w
  <2> SUFFICES ASSUME status = "none" PROVE Tail(p) = Tail(a) \o w
    OBVIOUS
  <2>1. p = a \o w
    BY DEF Fits
  <2>2. Len(p) = Len(a) + Len(w) /\ Len(w) \in Nat
        /\ \A i \in 1..Len(w) : p[Len(a) + i] = w[i]
    BY <2>1
  <2>3. Tail(p) \in Seq(Messages) /\ Len(Tail(p)) = Len(Tail(a)) + Len(w)
    BY <1>1, <1>2, <1>3, <2>2, BatchesAreMessages
  <2>4. ASSUME NEW i \in 1..Len(w) PROVE Tail(p)[Len(Tail(a)) + i] = w[i]
    <3>1. Len(Tail(a)) + i \in 1..(Len(p) - 1)
          /\ Len(Tail(a)) + i + 1 = Len(a) + i
      BY <1>1, <1>2, <2>2
    <3>2. Tail(p)[Len(Tail(a)) + i] = p[Len(a) + i]
      BY <1>3, <3>1
    <3> QED
      BY <2>2, <3>2
  <2>5. \A i \in 1..Len(Tail(a)) : Tail(p)[i] = Tail(a)[i]
    BY <1>4
  <2> QED
    BY <1>2, <2>3, <2>4, <2>5, ConcatElements
<1> QED
  BY <1>4, <1>5, <1>6 DEF Fits

(* The first answer is that to the first batch of the pipeline, which the  *)
(* backend has applied; and if there is no answer left when the backend    *)
(* has refused a batch, it is the first.                                   *)
LEMMA FirstAnswered ==
    ASSUME NEW a \in Seq(Messages), NEW w, NEW status,
           NEW p \in Seq(Batches), NEW L, NEW R, Fits(a, w, status, p, L, R)
    PROVE  /\ a # <<>> => p # <<>> /\ Head(p) \in L
           /\ status = "permanent" => p # <<>> /\ Head(p) \in L \cup R
<1>1. a # <<>> => Len(a) \in Nat \ {0} /\ a[1] = p[1] /\ a[1] \in L
                  /\ Len(p) # 0
  BY DEF Fits
<1>2. a = <<>> /\ status = "permanent" => Len(p) > 0 /\ p[1] \in R
  BY DEF Fits
<1> QED
  BY <1>1, <1>2

-----------------------------------------------------------------------------
(* The pipeline p, which is the front of the queue of the current user, is *)
(* filled up, and what is new is sent, over the call with the answers a.   *)
LEMMA FillTalked ==
    ASSUME Kept', Talked, IsOpen(write) \/ (call = NoCall /\ ~handshake),
           NEW p, FrontOf(p, queue'[user']),
           pipeline' = Filled(p, queue'[user']), handshake' = handshake,
           NEW a \in Seq(Messages), handshake \/ a = call.answers,
           handshake => Fits(a, call.wire, call.status, p, landed', refused'),
           call' = [call EXCEPT !.answers = a, !.wire =
                      @ \o SentAtOnce(write, handshake, p, queue'[user'])],
           IsOpen(write') <=> IsOpen(write)
    PROVE  Talked' /\ (IsOpen(write') \/ (call' = NoCall /\ ~handshake'))
<1> DEFINE q == queue'[user']
           e == SentAtOnce(write, handshake, p, q)
<1>1. q \in Seq(Batches) /\ Increasing(q)
  BY DEF Kept, KeysInOrder
<1>2. /\ p \in Seq(Batches) /\ Added(p, q) \in Seq(Batches)
      /\ pipeline' = p \o Added(p, q) /\ pipeline' \in Seq(Batches)
  BY <1>1, FrontFilled DEF FrontOf
<1>3. e = IF handshake THEN Added(p, q) ELSE <<>>
  BY DEF SentAtOnce, Talked
<1>4. call \in Calls /\ call.wire \in Seq(Messages)
      /\ call.answers \in Seq(Messages)
  BY DEF Talked, Calls
<1> HIDE DEF e, q
<1>5. e \in Seq(Batches) /\ e \in Seq(Messages)
  BY <1>2, <1>3, BatchesAreMessages
<1> DEFINE w == call.wire \o e
<1>6. w \in Seq(Messages)
  BY <1>4, <1>5
<1>7. call' = [call EXCEPT !.answers = a, !.wire = w]
  BY DEF e, q
<1> HIDE DEF w
<1>8. /\ call' \in Calls /\ call'.wire = w /\ call'.answers = a
      /\ call'.status = call.status
  BY <1>4, <1>6, <1>7 DEF Calls
<1>9. CASE handshake
  <2>1. Fits(a, w, call.status, pipeline', landed', refused')
    BY <1>2, <1>3, <1>4, <1>9, FitsExtended DEF w
  <2>2. Shaken'
    BY <1>2, <1>8, <2>1, ShakenFitsNext
  <2> QED
    BY <1>8, <1>9, <2>2 DEF Talked
<1>10. CASE ~handshake
  <2>1. w = call.wire
    BY <1>3, <1>4, <1>10 DEF w
  <2>2. call' = call
    BY <1>4, <1>7, <1>10, <2>1 DEF Calls
  <2>3. Shaking'
    BY <1>10, <2>2 DEF Talked, Shaking
  <2> QED
    BY <1>4, <1>10, <2>2, <2>3 DEF Talked, NoCall
<1> QED
  BY <1>9, <1>10

LEMMA WriteMutationsInv == WriteInv /\ WriteMutations => WriteInv'
<1> SUFFICES ASSUME WriteInv, WriteMutations PROVE WriteInv'
  OBVIOUS
<1>0. Kept /\ Regular(write) /\ Served /\ Talked
  BY WriteInvParts
<1> DEFINE q == queue'[user]
<1>1. PICK b \in Unused :
        /\ queue'[user] = Append(queue[user], b)
        /\ Increasing(Append(queue[user], b))
        /\ Kept'
  BY NewWriteKept
<1>2. /\ user' = user /\ handshake' = handshake
      /\ landed' = landed /\ refused' = refused
      /\ pipeline' = Filled(pipeline, q)
      /\ write' = FillWritePipeline(write, handshake, pipeline, q)
      /\ call' = [call EXCEPT !.wire =
                    @ \o SentAtOnce(write, handshake, pipeline, q)]
  BY DEF WriteMutations, backendVars
<1>3. /\ queue[user] \in Seq(Batches) /\ FrontOf(pipeline, queue[user])
      /\ pipeline \in Seq(Batches) /\ b \in Batches
  BY <1>0, PipelineFront DEF Unused
<1>4. q \in Seq(Batches) /\ Increasing(q) /\ q # <<>> /\ FrontOf(pipeline, q)
  <2> DEFINE r == Append(queue[user], b)
  <2>1. r \in Seq(Batches) /\ r # <<>>
    BY <1>3
  <2>2. FrontOf(pipeline, r)
    BY <1>3, AppendFront
  <2> QED
    BY <1>1, <2>1, <2>2
<1>5. /\ Regular(write') /\ (IsOpen(write') <=> IsOpen(write))
      /\ pipeline' # <<>> => IsStarted(write')
      /\ write'.idle => handshake' /\ pipeline' = <<>>
  <2> DEFINE filled == FillWritePipeline(write, handshake, pipeline, q)
  <2>1. /\ handshake \in BOOLEAN
        /\ write.idle => handshake /\ pipeline = <<>>
    BY <1>0 DEF Talked, Served
  <2> HIDE DEF q
  <2>2. /\ Regular(filled) /\ (IsOpen(filled) <=> IsOpen(write))
        /\ Filled(pipeline, q) # <<>> => IsStarted(filled)
        /\ filled.idle => handshake /\ Filled(pipeline, q) = <<>>
    BY <1>0, <1>4, <2>1, FillRegular
  <2>3. write' = filled /\ pipeline' = Filled(pipeline, q)
        /\ handshake' = handshake
    BY <1>2
  <2> QED
    BY <2>2, <2>3
<1>6. pipeline' = Oldest(queue'[user'], MaxPending)
  BY <1>2, <1>4, FrontFilled
<1>7. /\ call.answers \in Seq(Messages)
      /\ call' = [call EXCEPT !.answers = call.answers, !.wire =
                    @ \o SentAtOnce(write, handshake, pipeline, q)]
  BY <1>0, <1>2 DEF Talked, Calls
<1>8. handshake => Fits(call.answers, call.wire, call.status, pipeline,
                        landed', refused')
  BY <1>0, <1>2, <1>3, ShakenFits DEF Talked
<1>9. Talked' /\ (IsOpen(write') \/ (call' = NoCall /\ ~handshake'))
  BY <1>0, <1>1, <1>2, <1>4, <1>5, <1>7, <1>8, FillTalked DEF Served
<1>10. Served'
  BY <1>5, <1>6, <1>9 DEF Served, PipelineIsFull, NoCall
<1> QED
  BY <1>1, <1>5, <1>9, <1>10, WriteInvPartsNext

(* The first batch has its result, and makes room for another.             *)
LEMMA MutationResultInv ==
    ASSUME WriteInv, OnWriteStreamMutationResult
    PROVE  /\ WriteInv' /\ handshake' /\ pipeline # <<>>
           /\ Len(call'.answers) = Len(call.answers) - 1
           /\ queue' = [queue EXCEPT ![user] = Tail(queue[user])]
<1>0. Kept /\ Regular(write) /\ Served /\ Talked
  BY WriteInvParts
<1> DEFINE a == call.answers
           q == queue'[user]
           left == Tail(pipeline)
           filled == FillWritePipeline(write, handshake, left, q)
<1>1. /\ a # <<>> /\ handshake
      /\ BatchDone(Head(pipeline), "ok")
      /\ UNCHANGED <<user, handshake, backendVars>>
      /\ pipeline' = Filled(left, q)
      /\ write' = Checked(filled, IsStarted(write) /\ Queued(Head(pipeline)))
      /\ call' = [call EXCEPT !.answers = Tail(a), !.wire =
                    @ \o SentAtOnce(write, handshake, left, q)]
  BY DEF OnWriteStreamMutationResult
<1>2. /\ pipeline \in Seq(Batches)
      /\ call \in Calls /\ a \in Seq(Messages) /\ call.wire \in Seq(Messages)
  BY <1>0, PipelineFront DEF Talked, Calls
<1>3. Fits(a, call.wire, call.status, pipeline, landed, refused)
  BY <1>0, <1>1, <1>2, ShakenFits DEF Talked
<1>4. pipeline # <<>> /\ Head(pipeline) \in landed
  BY <1>1, <1>2, <1>3, FirstAnswered
<1>5. /\ Kept' /\ Queued(Head(pipeline))
      /\ queue' = [queue EXCEPT ![user] = Tail(queue[user])]
      /\ Increasing(q) /\ q \in Seq(Batches) /\ FrontOf(left, q)
  BY <1>1, <1>4, DoneKept
<1>6. IsOpen(write) /\ IsStarted(write) /\ ~write.idle
  BY <1>0, <1>1, <1>4 DEF Served, IsOpen, IsStarted
<1>7. /\ Regular(filled) /\ (IsOpen(filled) <=> IsOpen(write))
      /\ Filled(left, q) # <<>> => IsStarted(filled)
      /\ filled.idle => handshake /\ Filled(left, q) = <<>>
  BY <1>0, <1>1, <1>5, <1>6, FillRegular DEF Talked
<1> HIDE DEF filled
<1>8. write' = filled
  BY <1>1, <1>5, <1>6, <1>7 DEF Checked, Regular, Streams
<1>9. pipeline' = Oldest(queue'[user'], MaxPending)
  BY <1>1, <1>5, FrontFilled
<1>10. /\ Tail(a) \in Seq(Messages) /\ Len(Tail(a)) = Len(a) - 1
       /\ Fits(Tail(a), call.wire, call.status, left, landed', refused')
  BY <1>1, <1>2, <1>3, FitsShifted DEF backendVars
<1>11. Talked' /\ (IsOpen(write') \/ (call' = NoCall /\ ~handshake'))
  BY <1>0, <1>1, <1>5, <1>7, <1>8, <1>10, FillTalked DEF Served
<1>12. Served'
  BY <1>1, <1>7, <1>8, <1>9, <1>11 DEF Served, PipelineIsFull
<1>13. Len(call'.answers) = Len(a) - 1
  <2> HIDE DEF a, left, q
  <2>1. call'.answers = Tail(a)
    BY <1>1, <1>2 DEF Calls
  <2> QED
    BY <1>10, <2>1
<1>14. WriteInv'
  BY <1>5, <1>7, <1>8, <1>11, <1>12, WriteInvPartsNext
<1> QED
  BY <1>1, <1>4, <1>5, <1>13, <1>14

-----------------------------------------------------------------------------
(* A step that leaves the queues and the backend alone.                    *)
LEMMA KeptAgain ==
    Kept /\ UNCHANGED <<user, queue, result, backendVars>> => Kept'
<1> SUFFICES ASSUME Kept, UNCHANGED <<user, queue, result, landed, refused>>
             PROVE  Kept'
  BY DEF backendVars
<1>1. KeysInOrder'
  BY DEF Kept, KeysInOrder
<1>2. NoneLost'
  BY DEF Kept, NoneLost
<1> QED
  BY <1>1, <1>2 DEF Kept

LEMMA ShakenStays ==
    Talked /\ UNCHANGED <<handshake, call, pipeline, backendVars>> => Talked'
<1> SUFFICES ASSUME Talked,
                    UNCHANGED <<handshake, call, pipeline, landed, refused>>
             PROVE  Talked'
  BY DEF backendVars
<1>1. Shaken => Shaken'
  BY DEF Shaken
<1>2. Shaking => Shaking'
  BY DEF Shaking
<1> QED
  BY <1>1, <1>2 DEF Talked

LEMMA ServedAgain ==
    ASSUME Served, UNCHANGED <<user, queue, pipeline, handshake>>,
           pipeline # <<>> => IsStarted(write'),
           write'.idle => handshake /\ pipeline = <<>>,
           IsOpen(write') \/ (call' = NoCall /\ ~handshake)
    PROVE  Served'
BY DEF Served, PipelineIsFull, NoCall

(* The permanent error that ends a call is the answer to the first batch   *)
(* of the pipeline, or its answer was under way.                           *)
LEMMA BlamedAnswered ==
    ASSUME WriteInv, Blamed(call.status)
    PROVE  /\ Head(pipeline) \in landed \cup refused
           /\ Len(call.answers) < Len(queue[user])
<1>0. Kept /\ Served /\ Talked
  BY WriteInvParts
<1>1. /\ pipeline \in Seq(Batches) /\ FrontOf(pipeline, queue[user])
      /\ call \in Calls /\ call.answers \in Seq(Messages)
  BY <1>0, PipelineFront DEF Talked, Calls
<1>2. Fits(call.answers, call.wire, call.status, pipeline, landed, refused)
  BY <1>0, <1>1, ShakenFits DEF Talked, Blamed
<1>3. Head(pipeline) \in landed \cup refused
  BY <1>1, <1>2, FirstAnswered DEF Blamed
<1>4. Len(call.answers) < Len(pipeline) /\ Len(pipeline) <= Len(queue[user])
  BY <1>1, <1>2 DEF Blamed, Fits, FrontOf
<1>5. Len(call.answers) \in Nat /\ Len(pipeline) \in Nat
      /\ Len(queue[user]) \in Nat
  BY <1>0, <1>1, PipelineFront
<1> QED
  BY <1>3, <1>4, <1>5

(* The stream s, which is what is left of write, has ended with an error.  *)
LEMMA WriteCloseInv ==
    ASSUME WriteInv, NEW s \in Streams, s.sound, IsStarted(s), NEW status,
           OnWriteStreamClose(s, status),
           Blamed(status) => Head(pipeline) \in landed \cup refused,
           UNCHANGED <<user, backendVars>>
    PROVE  /\ WriteInv' /\ handshake' = FALSE
           /\ Blamed(status) =>
                queue' = [queue EXCEPT ![user] = Tail(queue[user])]
           /\ ~Blamed(status) => queue' = queue
<1>0. Kept /\ Served
  BY WriteInvParts
<1> DEFINE closed == Close(s, FALSE)
           stopped == IF Blamed(status) THEN InhibitBackoff(closed)
                      ELSE closed
           started == IF pipeline' = <<>> THEN stopped ELSE Start(stopped)
<1>1. Regular(closed) /\ ~IsStarted(closed) /\ ~closed.idle
  BY CloseRegular
<1>2. Regular(stopped) /\ ~IsStarted(stopped) /\ ~stopped.idle
  BY <1>1, InhibitRegular
<1>3. /\ handshake' = FALSE /\ call' = NoCall
      /\ write' = Checked(started, Blamed(status) => Queued(Head(pipeline)))
  BY DEF OnWriteStreamClose
<1> HIDE DEF stopped
<1>4. /\ Regular(started) /\ ~started.idle
      /\ pipeline' # <<>> => IsStarted(started)
  BY <1>2, StartRegular
<1> HIDE DEF started
<1>5. /\ Kept' /\ (Blamed(status) => Queued(Head(pipeline)))
      /\ pipeline' = Oldest(queue'[user'], MaxPending)
      /\ Blamed(status) => queue' = [queue EXCEPT ![user] = Tail(queue[user])]
      /\ ~Blamed(status) => queue' = queue
  <2>1. CASE Blamed(status)
    <3>1. /\ BatchDone(Head(pipeline), "refused") /\ pipeline # <<>>
          /\ pipeline' = Filled(Tail(pipeline), queue'[user])
      BY <2>1 DEF OnWriteStreamClose, Blamed
    <3>2. /\ Kept' /\ Queued(Head(pipeline))
          /\ queue' = [queue EXCEPT ![user] = Tail(queue[user])]
          /\ Increasing(queue'[user]) /\ queue'[user] \in Seq(Batches)
          /\ FrontOf(Tail(pipeline), queue'[user])
      BY <2>1, <3>1, DoneKept
    <3>3. pipeline' = Oldest(queue'[user], MaxPending)
      BY <3>1, <3>2, FrontFilled
    <3> QED
      BY <2>1, <3>2, <3>3
  <2>2. CASE ~Blamed(status)
    <3>1. UNCHANGED <<queue, result, pipeline>>
      BY <2>2 DEF OnWriteStreamClose
    <3> QED
      BY <1>0, <2>2, <3>1, KeptAgain DEF Served, PipelineIsFull
  <2> QED
    BY <2>1, <2>2
<1>6. write' = started
  BY <1>3, <1>4, <1>5 DEF Checked, Regular, Streams
<1>7. Served'
  BY <1>3, <1>4, <1>5, <1>6 DEF Served, PipelineIsFull, NoCall
<1>8. WriteInv'
  BY <1>3, <1>4, <1>5, <1>6, <1>7, NoCallTalked, WriteInvPartsNext
<1> QED
  BY <1>3, <1>5, <1>8

(* A token, or the failure to get one.                                     *)
LEMMA WriteTokenInv ==
    ASSUME WriteInv, NEW age, NEW ok \in BOOLEAN, WriteTokenArrived(age, ok)
    PROVE  /\ WriteInv' /\ queue' = queue
           /\ handshake' => handshake /\ call' = call
<1>0. Kept /\ Regular(write) /\ Served /\ Talked
      /\ age \in write.tokens /\ UNCHANGED <<user, backendVars>>
  BY WriteInvParts DEF WriteTokenArrived
<1>1. /\ Regular(ResumeStart(write, age))
      /\ IsStarted(write) => IsStarted(ResumeStart(write, age))
      /\ ResumeStart(write, age).idle = write.idle
      /\ age = "old" => ResumeStart(write, age).state = write.state
      /\ age # "old" => IsOpen(ResumeStart(write, age))
  BY <1>0, ResumeRegular
<1>2. CASE age = "old"
  <2>1. /\ write' = ResumeStart(write, age)
        /\ UNCHANGED <<queue, result, pipeline, handshake, call>>
    BY <1>2 DEF WriteTokenArrived
  <2>2. Kept' /\ Talked'
    BY <1>0, <2>1, KeptAgain, ShakenStays
  <2>3. Served'
    BY <1>0, <1>1, <1>2, <2>1, ServedAgain
       DEF Served, PipelineIsFull, IsOpen, IsStarted
  <2> QED
    BY <1>1, <2>1, <2>2, <2>3, WriteInvPartsNext
<1>3. age # "old" => write.state = "Starting" /\ ~write.idle /\ ~IsOpen(write)
  BY <1>0 DEF Regular, Streams, IsOpen
<1>4. CASE age # "old" /\ ok
  <2> DEFINE r == ResumeStart(write, age)
  <2>1. /\ write' = Checked(Written(r), ~handshake)
        /\ call' = [NoCall EXCEPT !.wire = <<Hello>>]
        /\ UNCHANGED <<queue, result, pipeline, handshake>>
    BY <1>4 DEF WriteTokenArrived
  <2>2. Regular(Written(r)) /\ IsOpen(Written(r)) /\ ~Written(r).idle
    BY <1>1, <1>4, OpenRegular
  <2>3. ~handshake /\ handshake = FALSE
    BY <1>0, <1>3, <1>4 DEF Served, Talked
  <2> HIDE DEF r
  <2>4. write' = Written(r)
    BY <2>1, <2>2, <2>3 DEF Checked, Regular, Streams
  <2>5. /\ call' \in Calls /\ call'.wire = <<Hello>> /\ call'.answers = <<>>
        /\ call'.status = "none"
    <3>1. <<Hello>> \in Seq(Messages) /\ <<>> \in Seq(Messages)
      BY DEF Messages
    <3> QED
      BY <2>1, <3>1 DEF NoCall, Calls
  <2>6. Talked'
    BY <2>1, <2>3, <2>5 DEF Talked, Shaking
  <2>7. Kept'
    BY <1>0, <2>1, KeptAgain
  <2>8. Served'
    BY <1>0, <2>1, <2>2, <2>4, ServedAgain DEF IsOpen, IsStarted
  <2> QED
    BY <2>1, <2>2, <2>3, <2>4, <2>6, <2>7, <2>8, WriteInvPartsNext
<1>5. CASE age # "old" /\ ~ok
  <2> DEFINE s == [write EXCEPT !.tokens = write.tokens \ {age}]
  <2>1. OnWriteStreamClose(s, "transient")
    BY <1>5 DEF WriteTokenArrived
  <2>2. s \in Streams /\ s.sound /\ s.state = write.state
    BY <1>0 DEF Regular, Streams
  <2>3. IsStarted(s)
    BY <1>3, <1>5, <2>2 DEF IsStarted
  <2>4. ~Blamed("transient")
    BY DEF Blamed
  <2> HIDE DEF s
  <2> QED
    BY <1>0, <2>1, <2>2, <2>3, <2>4, WriteCloseInv
<1> QED
  BY <1>2, <1>4, <1>5

LEMMA WriteBackoffInv == WriteInv /\ WriteBackoffElapsed => WriteInv'
<1> SUFFICES ASSUME WriteInv, WriteBackoffElapsed PROVE WriteInv'
  OBVIOUS
<1>0. Kept /\ Regular(write) /\ Served /\ Talked
  BY WriteInvParts
<1>1. /\ write.backoff /\ write' = BackoffElapsed(write)
      /\ UNCHANGED <<user, queue, result, pipeline, handshake, call,
                     backendVars>>
  BY DEF WriteBackoffElapsed
<1>2. Regular(write') /\ IsStarted(write') /\ ~IsOpen(write') /\ ~write'.idle
  BY <1>0, <1>1, BackoffRegular
<1>3. ~IsOpen(write)
  BY <1>0, <1>1 DEF Regular, IsOpen
<1>4. Kept' /\ Talked'
  BY <1>0, <1>1, KeptAgain, ShakenStays
<1>5. Served'
  BY <1>0, <1>1, <1>2, <1>3, ServedAgain DEF Served
<1> QED
  BY <1>2, <1>4, <1>5, WriteInvPartsNext

(* The stream is stopped without writes.                                   *)
LEMMA WriteStoppedInv ==
    ASSUME WriteInv, WriteStreamStopped, pipeline = <<>>
    PROVE  WriteInv' /\ handshake' = FALSE
<1>0. Kept /\ Regular(write) /\ Served
  BY WriteInvParts
<1>1. /\ write' = Checked(Stop(write), pipeline = <<>>)
      /\ handshake' = FALSE /\ call' = NoCall
      /\ UNCHANGED <<user, queue, result, pipeline, backendVars>>
  BY DEF WriteStreamStopped
<1>2. pipeline = <<>>
  OBVIOUS
<1>3. Regular(Stop(write)) /\ ~IsStarted(Stop(write)) /\ ~Stop(write).idle
  BY <1>0, StopRegular
<1>4. write' = Stop(write)
  BY <1>1, <1>2, <1>3 DEF Checked, Regular, Streams
<1>5. Kept'
  BY <1>0, <1>1, KeptAgain
<1>6. Served'
  BY <1>0, <1>1, <1>2, <1>3, <1>4 DEF Served, PipelineIsFull, NoCall
<1> QED
  BY <1>1, <1>3, <1>4, <1>5, <1>6, NoCallTalked, WriteInvPartsNext

(* The idleness timer fires only without writes.                           *)
LEMMA WriteIdleInv ==
    WriteInv /\ WriteIdleTimeout => WriteInv' /\ handshake' = FALSE
<1> SUFFICES ASSUME WriteInv, WriteIdleTimeout
             PROVE  WriteInv' /\ handshake' = FALSE
  OBVIOUS
<1>1. write.idle /\ WriteStreamStopped
  BY DEF WriteIdleTimeout
<1>2. pipeline = <<>>
  BY <1>1, WriteInvParts DEF Served
<1> QED
  BY <1>1, <1>2, WriteStoppedInv

(* The handshake is over: the pipeline is sent.                            *)
LEMMA HandshakeInv ==
    ASSUME WriteInv, OnWriteStreamHandshakeComplete
    PROVE  WriteInv' /\ handshake' = TRUE /\ Len(call'.answers) = 0
<1>0. Kept /\ Regular(write) /\ Served /\ Talked
  BY WriteInvParts
<1>1. /\ call.answers # <<>> /\ ~handshake /\ handshake' = TRUE
      /\ write' = IF pipeline = <<>> THEN write ELSE Written(write)
      /\ call' = [call EXCEPT !.answers = Tail(@), !.wire = @ \o pipeline]
      /\ UNCHANGED <<user, queue, result, pipeline, backendVars>>
  BY DEF OnWriteStreamHandshakeComplete
<1>2. /\ call \in Calls /\ call.answers = <<Hello>> /\ call.wire = <<>>
      /\ call.status # "permanent"
  BY <1>0, <1>1 DEF Talked, Shaking
<1>3. /\ pipeline \in Seq(Batches) /\ pipeline \in Seq(Messages)
  BY <1>0, PipelineFront, BatchesAreMessages
<1>4. Tail(<<Hello>>) = <<>> /\ <<>> \o pipeline = pipeline
  BY <1>3
<1>5. /\ call' \in Calls /\ call'.wire = pipeline /\ call'.answers = <<>>
      /\ call'.status = call.status
  BY <1>1, <1>2, <1>3, <1>4 DEF Calls
<1>6. Fits(<<>>, pipeline, call.status, pipeline, landed', refused')
  BY <1>2, <1>3, <1>4 DEF Fits
<1>7. Shaken'
  BY <1>1, <1>3, <1>5, <1>6, ShakenFitsNext
<1>8. Talked'
  BY <1>1, <1>5, <1>7 DEF Talked
<1>9. IsOpen(write) /\ ~write.idle
  BY <1>0, <1>1 DEF Served, NoCall
<1>10. Regular(write') /\ IsOpen(write') /\ ~write'.idle
  BY <1>0, <1>1, <1>9, OpenRegular
<1>11. Kept'
  BY <1>0, <1>1, KeptAgain
<1>12. Served'
  BY <1>0, <1>1, <1>10 DEF Served, PipelineIsFull, IsOpen, IsStarted
<1> QED
  BY <1>1, <1>5, <1>8, <1>10, <1>11, <1>12, WriteInvPartsNext

(* The call has ended: then the stream was open.                           *)
LEMMA WriteCallEndedInv ==
    ASSUME WriteInv, WriteCallEnded
    PROVE  /\ WriteInv' /\ handshake' = FALSE
           /\ \/ queue' = queue
              \/ /\ queue' = [queue EXCEPT ![user] = Tail(queue[user])]
                 /\ Len(call.answers) < Len(queue[user])
<1>0. Regular(write) /\ Served
  BY WriteInvParts
<1>1. CASE call.status = "ok" /\ pipeline = <<>> /\ WriteStreamStopped
  <2>1. queue' = queue
    BY <1>1 DEF WriteStreamStopped
  <2> QED
    BY <1>1, <2>1, WriteStoppedInv
<1>2. CASE /\ call.status # "none" /\ OnWriteStreamClose(write, call.status)
           /\ UNCHANGED <<user, backendVars>>
  <2>1. IsStarted(write) /\ write \in Streams /\ write.sound
    BY <1>0, <1>2 DEF Served, NoCall, IsOpen, IsStarted, Regular
  <2>2. Blamed(call.status) => /\ Head(pipeline) \in landed \cup refused
                               /\ Len(call.answers) < Len(queue[user])
    BY BlamedAnswered
  <2>3. /\ WriteInv' /\ handshake' = FALSE
        /\ Blamed(call.status) =>
             queue' = [queue EXCEPT ![user] = Tail(queue[user])]
        /\ ~Blamed(call.status) => queue' = queue
    BY <1>2, <2>1, <2>2, WriteCloseInv
  <2> QED
    BY <2>2, <2>3
<1> QED
  BY <1>1, <1>2 DEF WriteCallEnded, WriteEndSeen

(* The pipeline is filled anew for the user u, over a stream that is not   *)
(* started.                                                                *)
LEMMA RefilledInv ==
    ASSUME Kept', NEW s, Regular(s), ~IsStarted(s),
           pipeline' = Filled(<<>>, queue'[user']),
           write' = FillWritePipeline(s, FALSE, <<>>, queue'[user']),
           handshake' = FALSE, call' = NoCall
    PROVE  WriteInv'
<1> DEFINE q == queue'[user']
           f == FillWritePipeline(s, FALSE, <<>>, q)
<1>1. q \in Seq(Batches) /\ Increasing(q) /\ FrontOf(<<>>, q)
  BY EmptyFront DEF Kept, KeysInOrder
<1> HIDE DEF q
<1>2. ~IsOpen(s) /\ ~s.idle
  BY DEF Regular, IsOpen, IsStarted
<1>3. /\ Regular(f) /\ (IsOpen(f) <=> IsOpen(s))
      /\ Filled(<<>>, q) # <<>> => IsStarted(f)
      /\ f.idle => FALSE /\ Filled(<<>>, q) = <<>>
  BY <1>1, <1>2, FillRegular
<1>4. Filled(<<>>, q) = Oldest(q, MaxPending)
  BY <1>1, FrontFilled
<1>5. write' = f /\ pipeline' = Filled(<<>>, q)
  BY DEF q
<1> HIDE DEF f
<1>6. PipelineIsFull'
  BY <1>3, <1>4, <1>5 DEF PipelineIsFull, q
<1>7. Served'
  BY <1>2, <1>3, <1>5, <1>6 DEF Served, NoCall
<1> QED
  BY <1>3, <1>5, <1>7, NoCallTalked, WriteInvPartsNext

(* The network is restarted.                                               *)
LEMMA RestartWritesInv ==
    ASSUME WriteInv, NEW u \in Users, RestartWrites(u)
    PROVE  WriteInv' /\ handshake' = FALSE
<1>0. Kept /\ Regular(write)
  BY WriteInvParts
<1> DEFINE stopped == InhibitBackoff(Stop(write))
<1>1. Regular(stopped) /\ ~IsStarted(stopped)
  BY <1>0, StopRegular, InhibitRegular
<1> HIDE DEF stopped
<1>2. /\ user' = u /\ pipeline' = Filled(<<>>, queue[u])
      /\ write' = FillWritePipeline(stopped, FALSE, <<>>, queue[u])
      /\ handshake' = FALSE /\ call' = NoCall
      /\ UNCHANGED <<queue, result, landed, refused>>
  BY DEF RestartWrites, backendVars, stopped
<1>3. Kept'
  <2>1. KeysInOrder'
    BY <1>0, <1>2 DEF Kept, KeysInOrder
  <2>2. NoneLost'
    BY <1>0, <1>2 DEF Kept, NoneLost
  <2> QED
    BY <1>0, <1>2, <2>1, <2>2 DEF Kept
<1> QED
  BY <1>1, <1>2, <1>3, RefilledInv

(* The process ends: the completions are lost.                             *)
LEMMA WriteKillInv ==
    ASSUME WriteInv, WriteKill
    PROVE  WriteInv' /\ handshake' = FALSE
<1>0. Kept
  BY WriteInvParts
<1>1. /\ pipeline' = Filled(<<>>, queue[user])
      /\ write' = FillWritePipeline(NewStream, FALSE, <<>>, queue[user])
      /\ handshake' = FALSE /\ call' = NoCall
      /\ result' = [b \in Batches |-> IF result[b] = "waits" THEN "lost"
                                      ELSE result[b]]
      /\ UNCHANGED <<user, queue, landed, refused>>
  BY DEF WriteKill, backendVars
<1>2. Regular(NewStream) /\ ~IsStarted(NewStream)
  BY DEF Regular, NewStream, Streams, States, IsOpen, IsStarted
<1>3. /\ result' \in [Batches -> Results]
      /\ \A b \in Batches : /\ result'[b] = "none" <=> result[b] = "none"
                            /\ result'[b] = "ok" <=> result[b] = "ok"
  BY <1>0, <1>1 DEF Kept, Results
<1>4. Kept'
  <2>1. KeysInOrder'
    <3>1. ASSUME NEW u \in Users, NEW i \in DOMAIN queue[u]
          PROVE  result'[queue[u][i]] # "none"
      <4>1. queue[u][i] \in Batches /\ result[queue[u][i]] # "none"
        BY <1>0 DEF Kept, KeysInOrder
      <4> QED
        BY <1>3, <4>1
    <3>2. \A b \in landed \cup refused : result'[b] # "none"
      BY <1>0, <1>3 DEF Kept, KeysInOrder
    <3>3. \E n \in 0..MaxWrites :
            \A b \in Batches : result'[b] = "none" <=> b > n
      BY <1>0, <1>3 DEF Kept, KeysInOrder
    <3> QED
      BY <1>0, <1>1, <3>1, <3>2, <3>3 DEF Kept, KeysInOrder
  <2>2. NoneLost'
    BY <1>0, <1>1, <1>3 DEF Kept, NoneLost
  <2> QED
    BY <1>0, <1>1, <1>3, <2>1, <2>2 DEF Kept
<1> QED
  BY <1>1, <1>2, <1>4, RefilledInv

-----------------------------------------------------------------------------
(* The next message on the wire is about the batch after the answers.      *)
LEMMA NextOnWire ==
    ASSUME NEW a \in Seq(Messages), NEW w \in Seq(Messages), w # <<>>,
           NEW p \in Seq(Batches), NEW L, NEW R, Fits(a, w, "none", p, L, R)
    PROVE  /\ Len(a) < Len(p) /\ p[Len(a) + 1] = Head(w)
           /\ Head(w) \in Batches
           /\ Fits(Append(a, Head(w)), Tail(w), "none", p,
                   L \cup {Head(w)}, R)
<1>1. /\ p = a \o w /\ Len(a) \in Nat /\ Len(w) \in Nat \ {0}
      /\ Head(w) = w[1] /\ Head(w) \in Messages
  BY DEF Fits
<1>2. Len(p) = Len(a) + Len(w) /\ Len(a) < Len(p)
      /\ p[Len(a) + 1] = Head(w)
  BY <1>1
<1>3. Head(w) \in Batches
  BY <1>1, <1>2
<1> DEFINE b == Append(a, Head(w))
           v == Tail(w)
<1>4. /\ b \in Seq(Messages) /\ Len(b) = Len(a) + 1
      /\ \A i \in 1..Len(a) : b[i] = a[i]
      /\ b[Len(a) + 1] = Head(w)
  BY <1>1
<1>5. \A i \in 1..Len(b) : b[i] = p[i]
  BY <1>1, <1>2, <1>4 DEF Fits
<1>6. \A i \in 1..Len(b) : b[i] \in L \cup {Head(w)}
  BY <1>1, <1>4 DEF Fits
<1>7. /\ v \in Seq(Messages) /\ Len(v) = Len(w) - 1
      /\ \A i \in 1..(Len(w) - 1) : v[i] = w[i + 1]
  BY <1>1
<1>8. \A i \in 1..Len(v) : p[Len(b) + i] = v[i]
  <2> SUFFICES ASSUME NEW i \in 1..Len(v) PROVE p[Len(b) + i] = v[i]
    OBVIOUS
  <2>1. i + 1 \in 1..Len(w) /\ Len(b) + i = Len(a) + (i + 1)
    BY <1>1, <1>4, <1>7
  <2>2. p[Len(a) + (i + 1)] = w[i + 1]
    BY <1>1, <2>1
  <2> QED
    BY <1>7, <2>1, <2>2
<1> HIDE DEF b, v
<1>9. p \in Seq(Messages) /\ Len(p) = Len(b) + Len(v)
  BY <1>1, <1>2, <1>4, <1>7, BatchesAreMessages
<1>10. p = b \o v
  BY <1>4, <1>5, <1>7, <1>8, <1>9, ConcatElements
<1>11. Fits(b, v, "none", p, L \cup {Head(w)}, R)
  BY <1>2, <1>4, <1>5, <1>6, <1>9, <1>10 DEF Fits
<1> QED
  BY <1>2, <1>3, <1>11 DEF b, v

(* After the handshake, that is a batch of the queue.                      *)
LEMMA NextMessage ==
    ASSUME WriteInv, call.wire # <<>>, call.status = "none"
    PROVE  LET m == Head(call.wire)
           IN  /\ handshake => /\ m \in Batches /\ m # Hello
                               /\ result[m] # "none"
                               /\ Len(call.answers) < Len(pipeline)
                               /\ Len(call.answers) < Len(queue[user])
                               /\ m = pipeline[Len(call.answers) + 1]
                               /\ m = queue[user][Len(call.answers) + 1]
               /\ ~handshake => /\ m = Hello /\ call.wire = <<Hello>>
                                /\ call.answers = <<>>
<1>0. Kept /\ Served /\ Talked
  BY WriteInvParts
<1>1. CASE handshake
  <2>1. /\ pipeline \in Seq(Batches) /\ FrontOf(pipeline, queue[user])
        /\ call \in Calls /\ call.answers \in Seq(Messages)
        /\ call.wire \in Seq(Messages) /\ queue[user] \in Seq(Batches)
    BY <1>0, PipelineFront DEF Talked, Calls
  <2>2. Fits(call.answers, call.wire, "none", pipeline, landed, refused)
    BY <1>0, <1>1, <2>1, ShakenFits DEF Talked
  <2>3. /\ Len(call.answers) < Len(pipeline)
        /\ pipeline[Len(call.answers) + 1] = Head(call.wire)
        /\ Head(call.wire) \in Batches
    BY <2>1, <2>2, NextOnWire
  <2>4. /\ Len(call.answers) + 1 \in 1..Len(pipeline)
        /\ Len(call.answers) + 1 \in 1..Len(queue[user])
    BY <2>1, <2>3 DEF FrontOf
  <2>5. Head(call.wire) = queue[user][Len(call.answers) + 1]
    BY <2>1, <2>3, <2>4 DEF FrontOf
  <2>6. result[Head(call.wire)] # "none"
    BY <1>0, <2>1, <2>4, <2>5 DEF Kept, KeysInOrder
  <2>7. Head(call.wire) # Hello
    BY <2>3 DEF Batches
  <2>8. Len(call.answers) < Len(queue[user])
    BY <2>1, <2>4
  <2> QED
    BY <1>1, <2>3, <2>5, <2>6, <2>7, <2>8
<1>2. CASE ~handshake
  <2>1. call.wire = <<Hello>> /\ call.answers = <<>>
    BY <1>0, <1>2 DEF Talked, Shaking
  <2> QED
    BY <1>2, <2>1
<1> QED
  BY <1>1, <1>2

(* The backend applies a batch.                                            *)
LEMMA BackendAnswersInv ==
    ASSUME WriteInv, BackendAnswers
    PROVE  /\ WriteInv' /\ UNCHANGED <<user, queue, handshake>>
           /\ handshake =>
                /\ Len(call.answers) < Len(queue[user])
                /\ landed' = landed \cup {queue[user][Len(call.answers) + 1]}
                /\ Len(call'.answers) = Len(call.answers) + 1
           /\ ~handshake => landed' = landed
<1>0. Kept /\ Regular(write) /\ Served /\ Talked
  BY WriteInvParts
<1> DEFINE a == call.answers
           w == call.wire
           m == Head(w)
<1>1. /\ w # <<>> /\ call.status = "none"
      /\ landed' = landed \cup ({m} \ {Hello})
      /\ call' = [call EXCEPT !.wire = Tail(w), !.answers = Append(a, m)]
      /\ UNCHANGED <<user, queue, result, pipeline, write, handshake, refused>>
  BY DEF BackendAnswers, deviceVars
<1>2. /\ handshake => /\ m \in Batches /\ m # Hello /\ result[m] # "none"
                      /\ Len(a) < Len(queue[user])
                      /\ m = queue[user][Len(a) + 1]
      /\ ~handshake => m = Hello /\ w = <<Hello>> /\ a = <<>>
  BY <1>1, NextMessage
<1>3. call \in Calls /\ a \in Seq(Messages) /\ w \in Seq(Messages)
  BY <1>0 DEF Talked, Calls
<1> DEFINE b == Append(a, m)
           v == Tail(w)
<1>4. /\ b \in Seq(Messages) /\ v \in Seq(Messages)
      /\ Len(b) = Len(a) + 1
  BY <1>1, <1>3
<1>5. /\ call' = [call EXCEPT !.wire = v, !.answers = b]
  BY <1>1
<1> HIDE DEF b, v
<1>6. /\ call' \in Calls /\ call'.wire = v /\ call'.answers = b
      /\ call'.status = "none"
  BY <1>1, <1>3, <1>4, <1>5 DEF Calls
<1>7. landed' \subseteq Batches /\ landed \subseteq landed'
      /\ \A c \in landed' : result[c] # "none"
  <2>1. ~handshake => landed' = landed
    BY <1>1, <1>2
  <2> QED
    BY <1>0, <1>1, <1>2, <2>1 DEF Kept, KeysInOrder
<1>8. Kept'
  <2>1. KeysInOrder'
    BY <1>0, <1>1, <1>7 DEF Kept, KeysInOrder
  <2>2. NoneLost'
    BY <1>0, <1>1, <1>7 DEF Kept, NoneLost
  <2> QED
    BY <1>0, <1>1, <1>7, <2>1, <2>2 DEF Kept
<1>9. CASE handshake
  <2>1. pipeline \in Seq(Batches) /\ landed' = landed \cup {m}
    BY <1>0, <1>1, <1>2, <1>9, PipelineFront
  <2>2. Fits(a, w, "none", pipeline, landed, refused)
    BY <1>0, <1>1, <1>3, <1>9, <2>1, ShakenFits DEF Talked
  <2>3. Fits(b, v, "none", pipeline, landed', refused)
    <3>1. Fits(Append(a, Head(w)), Tail(w), "none", pipeline,
               landed \cup {Head(w)}, refused)
      BY <1>1, <1>3, <2>1, <2>2, NextOnWire
    <3> QED
      BY <2>1, <3>1 DEF b, v
  <2>4. Shaken'
    BY <1>1, <1>6, <2>1, <2>3, ShakenFitsNext
  <2>5. Talked'
    BY <1>0, <1>1, <1>6, <1>9, <2>4 DEF Talked
  <2>6. Served'
    BY <1>0, <1>1, <1>9, ServedAgain DEF Served, PipelineIsFull
  <2> QED
    BY <1>0, <1>1, <1>2, <1>4, <1>6, <1>8, <1>9, <2>1, <2>5, <2>6,
       WriteInvPartsNext
<1>10. CASE ~handshake
  <2>1. v = <<>> /\ b = <<Hello>> /\ landed' = landed
    <3>1. Tail(<<Hello>>) = <<>> /\ Append(<<>>, Hello) = <<Hello>>
      OBVIOUS
    <3>2. m = Hello /\ w = <<Hello>> /\ a = <<>>
      BY <1>2, <1>10
    <3> QED
      BY <1>1, <3>1, <3>2 DEF b, v
  <2>2. Talked'
    BY <1>0, <1>1, <1>6, <1>10, <2>1 DEF Talked, Shaking
  <2>3. IsOpen(write)
    BY <1>0, <1>1 DEF Served, NoCall
  <2>4. Served'
    BY <1>0, <1>1, <1>10, <2>3, ServedAgain DEF Served, PipelineIsFull
  <2> QED
    BY <1>0, <1>1, <1>8, <1>10, <2>1, <2>2, <2>4, WriteInvPartsNext
<1> QED
  BY <1>9, <1>10

(* The backend refuses one.                                                *)
LEMMA BackendRefusesInv ==
    ASSUME WriteInv, BackendRefuses
    PROVE  /\ WriteInv' /\ UNCHANGED <<user, queue, handshake, landed>>
           /\ call'.answers = call.answers
<1>0. Kept /\ Regular(write) /\ Served /\ Talked
  BY WriteInvParts
<1> DEFINE a == call.answers
           w == call.wire
           m == Head(w)
<1>1. /\ w # <<>> /\ call.status = "none"
      /\ refused' = refused \cup ({m} \ {Hello})
      /\ call' = [call EXCEPT !.wire = Tail(w), !.status = "permanent"]
      /\ UNCHANGED <<user, queue, result, pipeline, write, handshake, landed>>
  BY DEF BackendRefuses, deviceVars
<1>2. /\ handshake => /\ m \in Batches /\ m # Hello /\ result[m] # "none"
                      /\ Len(a) < Len(pipeline)
                      /\ m = pipeline[Len(a) + 1]
      /\ ~handshake => m = Hello /\ w = <<Hello>> /\ a = <<>>
  BY <1>1, NextMessage
<1>3. call \in Calls /\ a \in Seq(Messages) /\ w \in Seq(Messages)
  BY <1>0 DEF Talked, Calls
<1> DEFINE v == Tail(w)
<1>4. v \in Seq(Messages)
  BY <1>1, <1>3
<1>5. call' = [call EXCEPT !.wire = v, !.status = "permanent"]
  BY <1>1
<1> HIDE DEF v
<1>6. /\ call' \in Calls /\ call'.wire = v /\ call'.answers = a
      /\ call'.status = "permanent"
  BY <1>3, <1>4, <1>5 DEF Calls
<1>7. refused' \subseteq Batches /\ refused \subseteq refused'
      /\ \A c \in refused' : result[c] # "none"
  <2>1. ~handshake => refused' = refused
    BY <1>1, <1>2
  <2> QED
    BY <1>0, <1>1, <1>2, <2>1 DEF Kept, KeysInOrder
<1>8. Kept'
  <2>1. KeysInOrder'
    BY <1>0, <1>1, <1>7 DEF Kept, KeysInOrder
  <2>2. NoneLost'
    BY <1>0, <1>1, <1>7 DEF Kept, NoneLost
  <2> QED
    BY <1>0, <1>1, <1>7, <2>1, <2>2 DEF Kept
<1>9. IsOpen(write)
  BY <1>0, <1>1 DEF Served, NoCall
<1>10. Served'
  BY <1>0, <1>1, <1>9, ServedAgain DEF Served, PipelineIsFull
<1>11. CASE handshake
  <2>1. pipeline \in Seq(Batches)
    BY <1>0, PipelineFront
  <2>2. Fits(a, w, "none", pipeline, landed, refused)
    BY <1>0, <1>1, <1>3, <1>11, <2>1, ShakenFits DEF Talked
  <2>3. m \in refused'
    BY <1>1, <1>2, <1>11
  <2>4. Fits(a, v, "permanent", pipeline, landed, refused')
    BY <1>2, <1>11, <2>2, <2>3 DEF Fits
  <2>5. Shaken'
    BY <1>1, <1>6, <2>1, <2>4, ShakenFitsNext
  <2> QED
    BY <1>0, <1>1, <1>6, <1>8, <1>10, <1>11, <2>5, WriteInvPartsNext
       DEF Talked
<1>12. CASE ~handshake
  <2>1. v = <<>> /\ a = <<>>
    <3>1. Tail(<<Hello>>) = <<>>
      OBVIOUS
    <3>2. w = <<Hello>> /\ a = <<>>
      BY <1>2, <1>12
    <3> QED
      BY <3>1, <3>2 DEF v
  <2>2. Talked'
    BY <1>0, <1>1, <1>6, <1>12, <2>1 DEF Talked, Shaking
  <2> QED
    BY <1>0, <1>1, <1>6, <1>8, <1>10, <2>2, WriteInvPartsNext
<1> QED
  BY <1>11, <1>12

(* The call breaks, and answers may be lost with it.                       *)
LEMMA CallBreaksInv ==
    ASSUME WriteInv, CallBreaks
    PROVE  /\ WriteInv' /\ UNCHANGED <<user, queue, handshake, landed>>
           /\ Len(call'.answers) \in 0..Len(call.answers)
<1>0. Kept /\ Regular(write) /\ Served /\ Talked
  BY WriteInvParts
<1> DEFINE a == call.answers
<1>1. /\ IsOpen(write) /\ call.status = "none"
      /\ UNCHANGED <<user, queue, result, pipeline, write, handshake,
                     landed, refused>>
  BY DEF CallBreaks, deviceVars, backendVars
<1>2. PICK n \in 0..Len(a) :
        call' = [call EXCEPT !.answers = SubSeq(a, 1, n),
                             !.status = "transient"]
  BY DEF CallBreaks
<1>3. call \in Calls /\ a \in Seq(Messages) /\ call.wire \in Seq(Messages)
  BY <1>0 DEF Talked, Calls
<1> DEFINE b == SubSeq(a, 1, n)
<1>4. /\ b \in Seq(Messages) /\ Len(b) = n /\ n <= Len(a)
      /\ \A i \in 1..n : b[i] = a[i]
  BY <1>3
<1>5. call' = [call EXCEPT !.answers = b, !.status = "transient"]
  BY <1>2
<1> HIDE DEF b
<1>6. /\ call' \in Calls /\ call'.wire = call.wire /\ call'.answers = b
      /\ call'.status = "transient"
  BY <1>3, <1>4, <1>5 DEF Calls
<1>7. Kept' /\ Served'
  BY <1>0, <1>1, KeptAgain, ServedAgain DEF Served, PipelineIsFull, backendVars
<1>8. CASE handshake
  <2>1. pipeline \in Seq(Batches)
    BY <1>0, PipelineFront
  <2>2. Fits(a, call.wire, "none", pipeline, landed, refused)
    BY <1>0, <1>1, <1>3, <1>8, <2>1, ShakenFits DEF Talked
  <2>3. Fits(b, call.wire, "transient", pipeline, landed, refused)
    <3>1. /\ Len(a) <= Len(pipeline)
          /\ \A i \in 1..Len(a) : a[i] = pipeline[i]
          /\ \A i \in 1..Len(a) : a[i] \in landed
      BY <2>2 DEF Fits
    <3> HIDE DEF a
    <3>2. /\ Len(a) \in Nat /\ Len(b) \in Nat /\ Len(pipeline) \in Nat
          /\ Len(b) <= Len(a)
      BY <1>3, <1>4, <2>1
    <3>3. \A i \in 1..Len(b) : i \in 1..Len(a) /\ b[i] = a[i]
      BY <1>4, <3>2
    <3>4. /\ Len(b) <= Len(pipeline)
          /\ \A i \in 1..Len(b) : b[i] = pipeline[i]
          /\ \A i \in 1..Len(b) : b[i] \in landed
      BY <3>1, <3>2, <3>3
    <3> QED
      BY <3>4 DEF Fits
  <2>4. Shaken'
    BY <1>1, <1>6, <2>1, <2>3, ShakenFitsNext
  <2> QED
    BY <1>0, <1>1, <1>4, <1>6, <1>7, <1>8, <2>4, WriteInvPartsNext DEF Talked
<1>9. CASE ~handshake
  <2>1. a \in {<<>>, <<Hello>>} /\ call.wire \in {<<>>, <<Hello>>}
        /\ (call.wire = <<Hello>> => a = <<>>)
    BY <1>0, <1>9 DEF Talked, Shaking
  <2>2. a = <<>> => b = <<>>
    BY <1>4
  <2>3. a = <<Hello>> => b \in {<<>>, <<Hello>>}
    <3> SUFFICES ASSUME a = <<Hello>> PROVE b \in {<<>>, <<Hello>>}
      OBVIOUS
    <3>1. Len(a) = 1 /\ a[1] = Hello
      OBVIOUS
    <3>2. CASE n = 0
      BY <1>4, <3>2
    <3>3. CASE n = 1
      <4>1. Len(b) = 1 /\ b[1] = a[1]
        BY <1>4, <3>3
      <4> QED
        BY <1>3, <1>4, <3>1, <4>1, SameSeq
    <3> QED
      BY <1>4, <3>1, <3>2, <3>3
  <2>4. Talked'
    BY <1>0, <1>1, <1>6, <1>9, <2>1, <2>2, <2>3 DEF Talked, Shaking
  <2> QED
    BY <1>0, <1>1, <1>4, <1>6, <1>7, <2>4, WriteInvPartsNext
<1> QED
  BY <1>8, <1>9

(* The backend ends the call without an error.                             *)
LEMMA BackendFinishesInv ==
    ASSUME WriteInv, BackendFinishes
    PROVE  /\ WriteInv' /\ UNCHANGED <<user, queue, handshake, landed>>
           /\ call'.answers = call.answers
<1>0. Kept /\ Regular(write) /\ Served /\ Talked
  BY WriteInvParts
<1>1. /\ IsOpen(write) /\ call.status = "none"
      /\ call' = [call EXCEPT !.status = "ok"]
      /\ UNCHANGED <<user, queue, result, pipeline, write, handshake, landed,
                     refused>>
  BY DEF BackendFinishes, deviceVars, backendVars
<1>2. /\ call' \in Calls /\ call'.wire = call.wire
      /\ call'.answers = call.answers /\ call'.status = "ok"
  BY <1>0, <1>1 DEF Talked, Calls
<1>3. Kept' /\ Served'
  BY <1>0, <1>1, KeptAgain, ServedAgain DEF Served, PipelineIsFull, backendVars
<1>4. CASE handshake
  <2>1. pipeline \in Seq(Batches)
    BY <1>0, PipelineFront
  <2>2. Fits(call.answers, call.wire, "none", pipeline, landed, refused)
    BY <1>0, <1>1, <1>4, <2>1, ShakenFits DEF Talked
  <2>3. Fits(call.answers, call.wire, "ok", pipeline, landed, refused)
    BY <2>2 DEF Fits
  <2>4. Shaken'
    BY <1>1, <1>2, <2>1, <2>3, ShakenFitsNext
  <2> QED
    BY <1>0, <1>1, <1>2, <1>3, <1>4, <2>4, WriteInvPartsNext DEF Talked
<1>5. CASE ~handshake
  <2>1. Talked'
    BY <1>0, <1>1, <1>2, <1>5 DEF Talked, Shaking
  <2> QED
    BY <1>0, <1>1, <1>2, <1>3, <2>1, WriteInvPartsNext
<1> QED
  BY <1>4, <1>5

(* A step of the read half.                                                *)
LEMMA WriteStutterInv == WriteInv /\ UNCHANGED writeVars => WriteInv'
<1> SUFFICES ASSUME WriteInv, UNCHANGED writeVars PROVE WriteInv'
  OBVIOUS
<1>1. Kept /\ Regular(write) /\ Served /\ Talked
  BY WriteInvParts
<1>2. UNCHANGED <<user, queue, result, pipeline, write, handshake, call,
                  backendVars>>
  BY DEF writeVars, deviceVars
<1>3. Kept' /\ Talked'
  BY <1>1, <1>2, KeptAgain, ShakenStays
<1>4. Served'
  BY <1>1, <1>2, ServedAgain DEF Served, PipelineIsFull
<1> QED
  BY <1>1, <1>2, <1>3, <1>4, WriteInvPartsNext

LEMMA NextWriteInv == WriteInv /\ [Next]_vars => WriteInv'
<1> SUFFICES ASSUME WriteInv, [Next]_vars PROVE WriteInv'
  OBVIOUS
<1>1. CASE WriteClient
  BY <1>1, WriteMutationsInv, WriteTokenInv, WriteBackoffInv, WriteIdleInv,
     HandshakeInv, MutationResultInv, WriteCallEndedInv DEF WriteClient
<1>2. CASE WriteBackend
  BY <1>2, BackendAnswersInv, BackendRefusesInv, BackendFinishesInv,
     CallBreaksInv
     DEF WriteBackend
<1>3. CASE UNCHANGED writeVars
  BY <1>3, WriteStutterInv
<1>4. CASE ConnectivityChanged \/ \E u \in Users : HandleCredentialChange(u)
  <2>1. user \in Users
    BY WriteInvParts DEF Kept
  <2> QED
    BY <1>4, <2>1, RestartWritesInv
       DEF ConnectivityChanged, HandleCredentialChange, RestartNetwork
<1>5. CASE StoppedWhileNeeded \/ Kill
  BY <1>5, WriteKillInv DEF StoppedWhileNeeded, WriteStoppedWhileNeeded, Kill
<1> QED
  BY <1>1, <1>2, <1>3, <1>4, <1>5 DEF Next, vars

LEMMA WriteInvHolds == Spec => []WriteInv
<1>1. Init => WriteInv
  BY InitWriteInv
<1>2. WriteInv /\ [Next]_vars => WriteInv'
  BY NextWriteInv
<1> QED
  BY <1>1, <1>2, PTL DEF Spec

-----------------------------------------------------------------------------
(* Every state has its type: the pipeline never holds more than            *)
(* kMaxPendingWrites batches (remote_store.cc).                            *)
THEOREM WritesTyped == Spec => []WriteTypes
<1>1. WriteInv => WriteTypes
  BY DEF WriteInv
<1> QED
  BY <1>1, WriteInvHolds, PTL

(* Whatever is written, by whom, and whatever breaks, no HARD_ASSERT of    *)
(* the write stream, of RemoteStore or of the mutation queue fails         *)
(* (stream.cc, write_stream.cc, remote_store.cc,                           *)
(* leveldb_mutation_queue.cc), but for the one of OnWriteStreamClose when  *)
(* the backend ends a call that is still needed with OK: that is           *)
(* StoppedWhileNeeded, see StopsAreDesirable below.                        *)
THEOREM WriteIsSound == Spec => []WritesSound
<1>1. WriteInv => WritesSound
  BY DEF WriteInv, StreamInOrder, WritesSound
<1> QED
  BY <1>1, WriteInvHolds, PTL

(* The pipeline is always the oldest writes of the current user, as many   *)
(* as fit, and its stream is at work (FillWritePipeline, RestartNetwork).  *)
THEOREM PipelineStaysFull == Spec => []PipelineIsFull
<1>1. WriteInv => PipelineIsFull
  BY DEF WriteInv
<1> QED
  BY <1>1, WriteInvHolds, PTL

(* A result is always that of the first batch of the pipeline              *)
(* (OnWriteStreamMutationResult).                                          *)
THEOREM AnswersStayFit == Spec => []AnswersFit
<1>1. WriteInv => AnswersFit
  BY DEF WriteInv, Shaken, AnswersFit
<1> QED
  BY <1>1, WriteInvHolds, PTL

(* No write leaves its queue without having been applied or refused, and   *)
(* none is reported as applied that was not, through errors, restarts,     *)
(* changes of the user and ends of the process.                            *)
THEOREM NoWriteLost == Spec => []NoneLost
<1>1. WriteInv => NoneLost
  BY DEF WriteInv
<1> QED
  BY <1>1, WriteInvHolds, PTL

-----------------------------------------------------------------------------
(* The refinement: what a step of the client is for WriteQueue.            *)
Sent == IF handshake THEN Len(call.answers) ELSE 0

LEMMA SentIsNat ==
    ASSUME WriteInv
    PROVE  /\ Sent \in Nat
           /\ queue[user] \in Seq(Batches) /\ Len(queue[user]) \in Nat
<1>1. Kept /\ Served /\ Talked
  BY WriteInvParts
<1>2. call.answers \in Seq(Messages)
  BY <1>1 DEF Talked, Calls
<1> QED
  BY <1>1, <1>2, PipelineFront DEF Sent

(* A call that ends, for whatever reason, forgets.                         *)
LEMMA ForgetStep ==
    ASSUME WriteInv, user' = user \/ Sent' = 0, Sent' \in 0..Sent,
           user' \in Users, UNCHANGED <<queue, landed>>
    PROVE  WriteOrder!QueueNext
<1>1. WriteOrder!Forget(user')
  BY DEF WriteOrder!Forget, Sent
<1> QED
  BY <1>1 DEF WriteOrder!QueueNext

LEMMA QueueSame ==
    ASSUME UNCHANGED <<user, queue, landed>>, Sent' = Sent
    PROVE  UNCHANGED WriteOrder!queueVars
BY DEF WriteOrder!queueVars, Sent

LEMMA QueueStep ==
    ASSUME WriteInv, [Next]_vars
    PROVE  [WriteOrder!QueueNext]_WriteOrder!queueVars
<1>0. Kept /\ Served /\ Talked /\ user \in Users
      /\ Sent \in Nat /\ Len(queue[user]) \in Nat
  BY WriteInvParts, SentIsNat DEF Kept
<1>1. CASE WriteMutations
  <2>1. PICK b \in Batches :
          /\ b \notin landed
          /\ queue' = [queue EXCEPT ![user] = Append(queue[user], b)]
    BY <1>1, NewWriteKept DEF Unused
  <2>2. UNCHANGED <<user, landed, handshake>> /\ call'.answers = call.answers
    BY <1>0, <1>1 DEF WriteMutations, backendVars, Talked, Calls
  <2>3. WriteOrder!Add(b)
    BY <2>1, <2>2 DEF WriteOrder!Add
  <2> QED
    BY <2>3 DEF WriteOrder!QueueNext
<1>2. ASSUME NEW age, NEW ok \in BOOLEAN, WriteTokenArrived(age, ok)
      PROVE  [WriteOrder!QueueNext]_WriteOrder!queueVars
  <2>1. /\ queue' = queue /\ UNCHANGED <<user, landed>>
        /\ handshake' => handshake /\ call' = call
        /\ WriteInv'
    BY <1>2, WriteTokenInv DEF WriteTokenArrived, backendVars
  <2>2. Sent' \in {Sent, 0}
    BY <2>1 DEF Sent
  <2> QED
    BY <1>0, <2>1, <2>2, ForgetStep
<1>3. CASE WriteBackoffElapsed
  BY <1>3, QueueSame DEF WriteBackoffElapsed, backendVars, Sent
<1>4. CASE WriteIdleTimeout
  <2>1. Sent' = 0 /\ UNCHANGED <<user, queue, landed>>
    BY <1>4 DEF WriteIdleTimeout, WriteStreamStopped, backendVars, Sent
  <2> QED
    BY <1>0, <2>1, ForgetStep
<1>5. CASE OnWriteStreamHandshakeComplete
  <2>1. UNCHANGED <<user, queue, landed>> /\ Sent' = 0 /\ Sent = 0
    BY <1>5, HandshakeInv DEF OnWriteStreamHandshakeComplete, backendVars, Sent
  <2> QED
    BY <2>1, QueueSame
<1>6. CASE OnWriteStreamMutationResult
  <2>1. /\ queue' = [queue EXCEPT ![user] = Tail(queue[user])]
        /\ UNCHANGED <<user, landed, handshake>>
        /\ handshake /\ call.answers # <<>>
        /\ Len(call'.answers) = Len(call.answers) - 1
    BY <1>6, MutationResultInv DEF OnWriteStreamMutationResult, backendVars
  <2>2. Sent > 0 /\ Sent' = Sent - 1
    <3>1. call.answers \in Seq(Messages)
      BY <1>0 DEF Talked, Calls
    <3>2. Len(call.answers) > 0
      BY <2>1, <3>1
    <3> QED
      BY <2>1, <3>2 DEF Sent
  <2>3. WriteOrder!Acknowledge
    BY <2>1, <2>2 DEF WriteOrder!Acknowledge, Sent
  <2> QED
    BY <2>3 DEF WriteOrder!QueueNext
<1>7. CASE WriteCallEnded
  <2>0. UNCHANGED <<user, landed>>
    BY <1>7 DEF WriteCallEnded, WriteStreamStopped, backendVars
  <2>1. /\ Sent' = 0 /\ UNCHANGED <<user, landed>>
        /\ \/ queue' = queue
           \/ /\ queue' = [queue EXCEPT ![user] = Tail(queue[user])]
              /\ Len(call.answers) < Len(queue[user])
    BY <1>7, <2>0, WriteCallEndedInv DEF Sent
  <2>2. CASE queue' = queue
    BY <1>0, <2>1, <2>2, ForgetStep
  <2>3. CASE /\ queue' = [queue EXCEPT ![user] = Tail(queue[user])]
             /\ Len(call.answers) < Len(queue[user])
    <3>1. call.answers \in Seq(Messages)
      BY <1>0 DEF Talked, Calls
    <3>2. Sent < Len(queue[user])
      BY <1>0, <2>3, <3>1 DEF Sent
    <3>3. WriteOrder!Refuse
      BY <2>1, <2>3, <3>2 DEF WriteOrder!Refuse, Sent
    <3> QED
      BY <3>3 DEF WriteOrder!QueueNext
  <2> QED
    BY <2>1, <2>2, <2>3
<1>8. CASE BackendAnswers
  <2>1. CASE handshake
    <3>1. /\ UNCHANGED <<user, queue, handshake>>
          /\ Len(call.answers) < Len(queue[user])
          /\ landed' = landed \cup {queue[user][Len(call.answers) + 1]}
          /\ Len(call'.answers) = Len(call.answers) + 1
      BY <1>8, <2>1, BackendAnswersInv
    <3>2. WriteOrder!Deliver
      BY <2>1, <3>1 DEF WriteOrder!Deliver
    <3> QED
      BY <3>2 DEF WriteOrder!QueueNext
  <2>2. CASE ~handshake
    BY <1>8, <2>2, BackendAnswersInv, QueueSame DEF Sent
  <2> QED
    BY <2>1, <2>2
<1>9. CASE BackendRefuses
  BY <1>9, BackendRefusesInv, QueueSame DEF Sent
<1>10. CASE CallBreaks
  <2>1. /\ UNCHANGED <<user, queue, handshake, landed>>
        /\ Len(call'.answers) \in 0..Len(call.answers)
    BY <1>10, CallBreaksInv
  <2>2. Sent' \in 0..Sent
    BY <1>0, <2>1 DEF Sent
  <2> QED
    BY <1>0, <2>1, <2>2, ForgetStep
<1>11. CASE UNCHANGED writeVars
  BY <1>11, QueueSame DEF writeVars, deviceVars, backendVars, Sent
<1>12. ASSUME NEW u \in Users, RestartWrites(u)
       PROVE  WriteOrder!QueueNext
  <2>1. Sent' = 0 /\ user' \in Users /\ UNCHANGED <<queue, landed>>
    BY <1>12 DEF RestartWrites, backendVars, Sent
  <2> QED
    BY <1>0, <2>1, ForgetStep
<1>13. CASE WriteKill
  <2>1. Sent' = 0 /\ UNCHANGED <<user, queue, landed>>
    BY <1>13 DEF WriteKill, backendVars, Sent
  <2> QED
    BY <1>0, <2>1, ForgetStep
<1>14. CASE ConnectivityChanged \/ \E u \in Users : HandleCredentialChange(u)
  BY <1>0, <1>12, <1>14
     DEF ConnectivityChanged, HandleCredentialChange, RestartNetwork
<1>15. CASE WriteClient
  BY <1>1, <1>2, <1>3, <1>4, <1>5, <1>6, <1>7, <1>15 DEF WriteClient
<1>16. CASE BackendFinishes
  BY <1>16, BackendFinishesInv, QueueSame DEF Sent
<1>17. CASE WriteBackend
  BY <1>8, <1>9, <1>10, <1>16, <1>17 DEF WriteBackend
<1>18. CASE StoppedWhileNeeded \/ Kill
  BY <1>11, <1>13, <1>18
     DEF StoppedWhileNeeded, WriteStoppedWhileNeeded, Kill
<1> QED
  BY <1>11, <1>14, <1>15, <1>17, <1>18 DEF Next, vars

(* The client keeps the promise of WriteQueue: a write is kept until the   *)
(* backend has answered, the writes of a user reach it in their order, and *)
(* none is skipped, across broken calls, restarts, changes of the user and *)
(* ends of the process.                                                    *)
THEOREM WritesAreOrdered == Spec => ImplementsQueue
<1>1. Init => WriteOrder!QueueInit
  BY DEF Init, WriteInit, WriteOrder!QueueInit
<1>2. WriteInv /\ [Next]_vars => [WriteOrder!QueueNext]_WriteOrder!queueVars
  BY QueueStep
<1> QED
  BY <1>1, <1>2, WriteInvHolds, PTL
     DEF Spec, ImplementsQueue, WriteOrder!QueueSpec

-----------------------------------------------------------------------------
(* Who stops a stream that is needed.                                      *)
NoneFinished == call.status # "ok" /\ ~listen.ok

(* No step but BackendFinishes makes the write call end with OK.           *)
LEMMA WriteCallNotFinished ==
    ASSUME WriteInv, call.status # "ok", "finish" \notin Faults, [Next]_vars
    PROVE  call'.status # "ok"
<1>1. call \in Calls /\ NoCall.status # "ok"
  BY WriteInvParts DEF Talked, NoCall
<1>2. ASSUME NEW w, call' = [call EXCEPT !.wire = w] PROVE call'.status # "ok"
  BY <1>1, <1>2 DEF Calls
<1>3. ASSUME NEW w, NEW a, call' = [call EXCEPT !.answers = a, !.wire = w]
      PROVE  call'.status # "ok"
  BY <1>1, <1>3 DEF Calls
<1>4. CASE WriteMutations
  BY <1>2, <1>4 DEF WriteMutations
<1>5. ASSUME NEW age, NEW ok \in BOOLEAN, WriteTokenArrived(age, ok)
      PROVE  call'.status # "ok"
  <2>1. [NoCall EXCEPT !.wire = <<Hello>>].status # "ok"
    BY DEF NoCall
  <2>2. CASE UNCHANGED call
    BY <2>2
  <2>3. CASE call' = [NoCall EXCEPT !.wire = <<Hello>>]
    BY <2>1, <2>3
  <2>4. CASE call' = NoCall
    BY <1>1, <2>4
  <2> QED
    BY <1>5, <2>2, <2>3, <2>4 DEF WriteTokenArrived, OnWriteStreamClose
<1>6. CASE WriteBackoffElapsed
  BY <1>6 DEF WriteBackoffElapsed
<1>7. CASE WriteIdleTimeout
  BY <1>1, <1>7 DEF WriteIdleTimeout, WriteStreamStopped
<1>8. CASE OnWriteStreamHandshakeComplete
  BY <1>3, <1>8 DEF OnWriteStreamHandshakeComplete
<1>9. CASE OnWriteStreamMutationResult
  BY <1>3, <1>9 DEF OnWriteStreamMutationResult
<1>10. CASE WriteCallEnded
  BY <1>1, <1>10 DEF WriteCallEnded, OnWriteStreamClose, WriteStreamStopped
<1>11. CASE WriteClient
  BY <1>4, <1>5, <1>6, <1>7, <1>8, <1>9, <1>10, <1>11 DEF WriteClient
<1>12. CASE WriteBackend
  <2>1. CASE BackendAnswers
    BY <1>1, <2>1 DEF BackendAnswers, Calls
  <2>2. CASE BackendRefuses
    BY <1>1, <2>2 DEF BackendRefuses, Calls
  <2>3. CASE CallBreaks
    BY <1>1, <2>3 DEF CallBreaks, Calls
  <2> QED
    BY <1>12, <2>1, <2>2, <2>3 DEF WriteBackend, BackendFinishes
<1>13. CASE UNCHANGED writeVars
  BY <1>13 DEF writeVars
<1>14. CASE ConnectivityChanged \/ \E u \in Users : HandleCredentialChange(u)
  BY <1>1, <1>14 DEF ConnectivityChanged, HandleCredentialChange,
                     RestartNetwork, RestartWrites
<1>15. CASE StoppedWhileNeeded \/ Kill
  BY <1>1, <1>15 DEF StoppedWhileNeeded, WriteStoppedWhileNeeded, Kill,
                     WriteKill
<1> QED
  BY <1>11, <1>12, <1>13, <1>14, <1>15 DEF Next, vars

(* Nor does any but ListenFinishes make the watch call end with it.        *)
LEMMA ListenNotFinished ==
    ASSUME WatchInv, ListenInv, ~listen.ok, "finish" \notin Faults,
           [Next]_vars
    PROVE  ~listen'.ok
<1>1. listen \in Listens /\ ~NoListen.ok
  BY DEF ListenInv, WatchTypes, NoListen
<1>2. CASE ReadStep
  <2>1. ASSUME NEW t \in Targets, getDocuments(t) PROVE ~listen'.ok
    BY <1>1, <2>1 DEF getDocuments, Listens
  <2>2. ASSUME NEW t \in Targets, StopListening(t) PROVE ~listen'.ok
    BY <1>1, <2>2 DEF StopListening, Listens
  <2>3. ASSUME NEW age, NEW ok \in BOOLEAN, WatchTokenArrived(age, ok)
        PROVE  ~listen'.ok
    <3>1. \A w : ~[NoListen EXCEPT !.wire = w].ok
      BY DEF NoListen
    <3>2. CASE \E w : listen' = [NoListen EXCEPT !.wire = w]
      BY <3>1, <3>2
    <3>3. CASE listen' = listen
      BY <3>3
    <3>4. CASE listen' = NoListen
      BY <1>1, <3>4
    <3> QED
      BY <2>3, <3>2, <3>3, <3>4 DEF WatchTokenArrived, OnWatchStreamClose
  <2>4. CASE WatchBackoffElapsed \/ OnlineTimeout
    BY <2>4 DEF WatchBackoffElapsed, OnlineTimeout
  <2>5. CASE WatchIdleTimeout \/ WatchCallEnded
    BY <1>1, <2>5 DEF WatchIdleTimeout, WatchCallEnded, WatchStreamStopped,
                      OnWatchStreamClose
  <2>6. CASE OnWatchStreamChange
    BY <1>1, <2>6 DEF OnWatchStreamChange, Listens
  <2>7. CASE WatchBackend
    <3>1. CASE BackendTakes
      BY <1>1, <3>1 DEF BackendTakes, Listens
    <3>2. CASE ListenBreaks
      BY <1>1, <3>2 DEF ListenBreaks, Listens
    <3>3. ASSUME NEW t \in Targets, BackendSends(t) PROVE ~listen'.ok
      BY <1>1, <3>3 DEF BackendSends, Listens
    <3> QED
      BY <2>7, <3>1, <3>2, <3>3 DEF WatchBackend, ListenFinishes
  <2> QED
    BY <1>2, <2>1, <2>2, <2>3, <2>4, <2>5, <2>6, <2>7
       DEF ReadStep, WatchClient
<1>3. CASE UNCHANGED watchVars
  BY <1>3 DEF watchVars
<1>4. CASE ConnectivityChanged \/ \E u \in Users : HandleCredentialChange(u)
  BY <1>1, <1>4 DEF ConnectivityChanged, HandleCredentialChange,
                    RestartNetwork, RestartWatch
<1>5. CASE StoppedWhileNeeded \/ Kill
  BY <1>1, <1>5 DEF StoppedWhileNeeded, WatchStoppedWhileNeeded, Kill,
                    WatchKill
<1> QED
  BY <1>2, <1>3, <1>4, <1>5 DEF Next, vars

(* A stream that is still needed is stopped only by a backend that ends    *)
(* its call with OK: if the backend never does, neither the idle timer nor *)
(* a restart of the network, a change of the user or an error makes the    *)
(* HARD_ASSERTs of OnWatchStreamClose and OnWriteStreamClose fail          *)
(* (remote_store.cc).                                                      *)
THEOREM StopsAreDesirable ==
    ASSUME "finish" \notin Faults
    PROVE  Spec => GracefulStopsDesirable
<1>1. Init => NoneFinished
  BY DEF Init, WriteInit, WatchInit, NoneFinished, NoCall, NoListen
<1>2. WriteInv /\ (WatchInv /\ ListenInv) /\ NoneFinished /\ [Next]_vars
        => NoneFinished'
  BY WriteCallNotFinished, ListenNotFinished DEF NoneFinished
<1>3. NoneFinished /\ [Next]_vars => [~StoppedWhileNeeded]_vars
  BY DEF NoneFinished, StoppedWhileNeeded, WriteStoppedWhileNeeded,
         WatchStoppedWhileNeeded
<1> QED
  BY <1>1, <1>2, <1>3, WriteInvHolds, ListenInvHolds, PTL
     DEF Spec, GracefulStopsDesirable
=============================================================================
