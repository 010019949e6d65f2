------------------------- MODULE FirestoreOpsProofs -------------------------
(***************************************************************************)
(* What a client reads through its queue of unacknowledged writes, for     *)
(* every collection and every queue.                                       *)
(***************************************************************************)
EXTENDS FirestoreOps, TLAPS, WellFoundedInduction

(* Induction over a set of naturals, which needs no operator parameter.    *)
LEMMA AllNaturals ==
  ASSUME NEW P, 0 \in P, \A n \in Nat : n \in P => n + 1 \in P
  PROVE  \A n \in Nat : n \in P
  <1> DEFINE T == {n \in Nat : n \notin P}
             R == {p \in Nat \X Nat : p[1] < p[2]}
  <1>1. SUFFICES ASSUME T # {} PROVE FALSE
    OBVIOUS
  <1>2. PICK n \in T : \A m \in T : ~(<<m, n>> \in R)
    <2>1. IsWellFoundedOn(R, Nat)
      BY NatLessThanWellFounded, Zenon DEF OpToRel
    <2> HIDE DEF R
    <2> QED
      BY <1>1, <2>1, WFMin
  <1>3. n - 1 \in Nat /\ n - 1 < n /\ (n - 1) + 1 = n
    OBVIOUS
  <1>4. n - 1 \notin T
    BY <1>2, <1>3
  <1> QED
    BY <1>3, <1>4

(* A queue that touches a field has a last write to it.                    *)
LEMMA LastTouchExists ==
  ASSUME NEW S, NEW q \in Seq(S), NEW d, NEW f,
         \E i \in DOMAIN q : Touches(q, i, d, f)
  PROVE  \E i \in DOMAIN q : LastTouch(q, i, d, f)
  <1> DEFINE T == {n \in Nat : \E i \in DOMAIN q :
                        n = Len(q) - i /\ Touches(q, i, d, f)}
             R == {p \in Nat \X Nat : p[1] < p[2]}
  <1>1. DOMAIN q = 1..Len(q) /\ Len(q) \in Nat
    OBVIOUS
  <1>2. T # {}
    <2>1. PICK i \in DOMAIN q : Touches(q, i, d, f)
      OBVIOUS
    <2>2. Len(q) - i \in Nat
      BY <1>1
    <2> QED
      BY <2>1, <2>2
  <1>3. PICK n \in T : \A m \in T : ~(<<m, n>> \in R)
    <2>1. IsWellFoundedOn(R, Nat)
      BY NatLessThanWellFounded, Zenon DEF OpToRel
    <2> HIDE DEF R
    <2> QED
      BY <1>2, <2>1, WFMin
  <1>4. \A m \in T : ~(m < n)
    BY <1>3
  <1>5. PICK i \in DOMAIN q : n = Len(q) - i /\ Touches(q, i, d, f)
    OBVIOUS
  <1>6. ASSUME NEW j \in DOMAIN q, j > i
        PROVE  ~Touches(q, j, d, f)
    <2>1. Len(q) - j \in Nat /\ Len(q) - j < n
      BY <1>1, <1>5, <1>6
    <2> QED
      BY <1>4, <2>1
  <1> QED
    BY <1>5, <1>6 DEF LastTouch

(* A field read through the queue is the stored one, or that of a queued   *)
(* write to it.                                                            *)
THEOREM FieldViewSource ==
  ASSUME NEW docs, NEW S, NEW q \in Seq(S), NEW d, NEW f
  PROVE  \/ /\ FieldView(docs, q, d, f) = docs[d][f]
            /\ \A i \in DOMAIN q : ~Touches(q, i, d, f)
         \/ \E i \in DOMAIN q :
               /\ LastTouch(q, i, d, f)
               /\ FieldView(docs, q, d, f) = q[i].patch[f]
  <1>1. CASE \A i \in DOMAIN q : ~Touches(q, i, d, f)
    BY <1>1 DEF FieldView
  <1>2. CASE \E i \in DOMAIN q : Touches(q, i, d, f)
    BY <1>2, LastTouchExists DEF FieldView
  <1> QED
    BY <1>1, <1>2

(* The last write to a field is unique, so the view is what it says.       *)
LEMMA FieldViewLast ==
  ASSUME NEW docs, NEW S, NEW q \in Seq(S), NEW d, NEW f,
         NEW i \in DOMAIN q, LastTouch(q, i, d, f)
  PROVE  FieldView(docs, q, d, f) = q[i].patch[f]
  <1>1. \A j \in DOMAIN q : LastTouch(q, j, d, f) => j = i
    BY DEF LastTouch
  <1>2. Touches(q, i, d, f)
    BY DEF LastTouch
  <1>3. PICK j \in DOMAIN q : /\ LastTouch(q, j, d, f)
                              /\ FieldView(docs, q, d, f) = q[j].patch[f]
    BY <1>2 DEF FieldView
  <1> QED
    BY <1>1, <1>3

(* Read your own writes: a write just queued is what the client reads in   *)
(* the fields it sets, and it changes no other field.                      *)
THEOREM ReadYourWrites ==
  ASSUME NEW docs, NEW S, NEW q \in Seq(S), NEW w \in S, NEW d, NEW f
  PROVE  FieldView(docs, Append(q, w), d, f) =
            IF w.doc = d /\ w.patch[f] # Keep
            THEN w.patch[f] ELSE FieldView(docs, q, d, f)
  <1> DEFINE r == Append(q, w)
             n == Len(q) + 1
  <1>1. /\ r \in Seq(S) /\ DOMAIN r = 1..n /\ DOMAIN q = 1..Len(q)
        /\ r[n] = w /\ \A i \in DOMAIN q : i \in DOMAIN r /\ r[i] = q[i]
    OBVIOUS
  <1> HIDE DEF r, n
  <1>2. \A i \in DOMAIN q : Touches(r, i, d, f) <=> Touches(q, i, d, f)
    BY <1>1 DEF Touches
  <1>3. Touches(r, n, d, f) <=> w.doc = d /\ w.patch[f] # Keep
    BY <1>1 DEF Touches
  <1>4. CASE w.doc = d /\ w.patch[f] # Keep
    <2>1. n \in DOMAIN r /\ LastTouch(r, n, d, f)
      BY <1>1, <1>3, <1>4 DEF LastTouch, n
    <2>2. FieldView(docs, r, d, f) = r[n].patch[f]
      BY <1>1, <2>1, FieldViewLast
    <2> QED
      BY <1>1, <1>4, <2>2 DEF r
  <1>5. CASE ~(w.doc = d /\ w.patch[f] # Keep)
    <2>1. \A i \in DOMAIN r : Touches(r, i, d, f) => i \in DOMAIN q
      BY <1>1, <1>3, <1>5 DEF n
    <2>2. CASE \A i \in DOMAIN q : ~Touches(q, i, d, f)
      BY <1>2, <1>5, <2>1, <2>2 DEF FieldView, r
    <2>3. CASE \E i \in DOMAIN q : Touches(q, i, d, f)
      <3>1. PICK i \in DOMAIN q : LastTouch(q, i, d, f)
        BY <2>3, LastTouchExists
      <3>2. i \in DOMAIN r /\ LastTouch(r, i, d, f)
        BY <1>1, <1>2, <2>1, <3>1 DEF LastTouch
      <3>3. FieldView(docs, q, d, f) = q[i].patch[f]
        BY <3>1, FieldViewLast
      <3>4. FieldView(docs, r, d, f) = r[i].patch[f]
        <4>1. r \in Seq(S)
          BY <1>1
        <4> QED
          BY <3>2, <4>1, FieldViewLast
      <3> QED
        BY <1>1, <1>5, <3>3, <3>4 DEF r
    <2> QED
      BY <2>2, <2>3
  <1> QED
    BY <1>4, <1>5

(* The backend applying any of a client's queued writes, even again after  *)
(* a broken stream, is invisible to that client.                           *)
THEOREM OwnCommitInvisible ==
  ASSUME NEW docs, NEW S, NEW q \in Seq(S), NEW k \in DOMAIN q,
         NEW d \in DOMAIN docs, NEW f \in DOMAIN docs[d]
  PROVE  FieldView(Commit(docs, q[k]), q, d, f) = FieldView(docs, q, d, f)
  <1>1. CASE \E i \in DOMAIN q : Touches(q, i, d, f)
    BY <1>1 DEF FieldView
  <1>2. CASE \A i \in DOMAIN q : ~Touches(q, i, d, f)
    <2>1. ~(q[k].doc = d /\ q[k].patch[f] # Keep)
      BY <1>2 DEF Touches
    <2>2. Commit(docs, q[k])[d][f] = docs[d][f]
      BY <2>1 DEF Commit, Apply
    <2> QED
      BY <1>2, <2>2 DEF FieldView
  <1> QED
    BY <1>1, <1>2

(* The local view grows by one mutation at a time.                         *)
LEMMA ViewOfAppend ==
  ASSUME NEW docs, NEW S, NEW q \in Seq(S), NEW w \in S
  PROVE  LocalView(docs, Append(q, w)) = Commit(LocalView(docs, q), w)
  <1> DEFINE r == Append(q, w)
             view == LocalView(docs, q)
  <1>1. ASSUME NEW d \in DOMAIN docs
        PROVE  LocalView(docs, r)[d] = Commit(view, w)[d]
    <2>1. view[d] = [f \in DOMAIN docs[d] |-> FieldView(docs, q, d, f)]
      BY DEF LocalView
    <2>2. LocalView(docs, r)[d]
            = [f \in DOMAIN docs[d] |->
                  IF w.doc = d /\ w.patch[f] # Keep
                  THEN w.patch[f] ELSE FieldView(docs, q, d, f)]
      BY ReadYourWrites DEF LocalView
    <2>3. CASE w.doc = d
      <3>1. Commit(view, w)[d] = Apply(view[d], w.patch)
        BY <2>3 DEF Commit, LocalView
      <3> QED
        BY <2>1, <2>2, <2>3, <3>1 DEF Apply
    <2>4. CASE w.doc # d
      BY <2>1, <2>2, <2>4 DEF Commit, LocalView
    <2> QED
      BY <2>3, <2>4
  <1> QED
    BY <1>1 DEF Commit, LocalView

(* The recursive function of Replay exists and obeys its equation.         *)
LEMMA ReplayDef ==
  ASSUME NEW docs, NEW S, NEW q \in Seq(S)
  PROVE  \E after : /\ after[0] = docs
                    /\ \A n \in 1..Len(q) :
                          after[n] = Commit(after[n - 1], q[n])
                    /\ Replay(docs, q) = after[Len(q)]
  <1> DEFINE Run(n, g) == g = [i \in 0..n |-> IF i = 0 THEN docs
                                     ELSE Commit(g[i - 1], q[i])]
             P == {n \in Nat : \E g : Run(n, g)}
  <1>1. 0 \in P
    <2>1. Run(0, [i \in 0..0 |-> docs])
      OBVIOUS
    <2> QED
      BY <2>1
  <1>2. ASSUME NEW n \in Nat, n \in P
        PROVE  n + 1 \in P
    <2>1. PICK g : Run(n, g)
      BY <1>2
    <2> DEFINE h == [i \in 0..(n + 1) |-> IF i = n + 1
                        THEN Commit(g[n], q[n + 1]) ELSE g[i]]
    <2>2. \A i \in 0..(n + 1) : h[i] = IF i = 0 THEN docs
                                       ELSE Commit(h[i - 1], q[i])
      <3> TAKE i \in 0..(n + 1)
      <3>1. CASE i = n + 1
        BY <3>1
      <3>2. CASE i # n + 1
        BY <2>1, <3>2
      <3> QED
        BY <3>1, <3>2
    <2>3. Run(n + 1, h)
      BY <2>2
    <2> HIDE DEF h, Run
    <2> QED
      BY <2>3
  <1>3. Len(q) \in P
    <2> HIDE DEF P
    <2> QED
      BY <1>1, <1>2, AllNaturals
  <1> DEFINE after == CHOOSE g : Run(Len(q), g)
  <1>4. Run(Len(q), after)
    BY <1>3
  <1>5. Replay(docs, q) = after[Len(q)]
    BY DEF Replay
  <1> HIDE DEF after
  <1>6. after[0] = docs
    BY <1>4
  <1>7. \A n \in 1..Len(q) : after[n] = Commit(after[n - 1], q[n])
    BY <1>4
  <1> QED
    BY <1>5, <1>6, <1>7

(* The field-wise local view is what the SDK's loop over the queued        *)
(* mutations computes, whatever the documents and however long the queue.  *)
(* (That an empty queue shows the documents as they are says that docs is  *)
(* a function to functions.)                                               *)
THEOREM LocalViewIsReplay ==
  ASSUME NEW docs, LocalView(docs, << >>) = docs,
         NEW S, NEW q \in Seq(S)
  PROVE  LocalView(docs, q) = Replay(docs, q)
  <1>1. PICK after : /\ after[0] = docs
                     /\ \A n \in 1..Len(q) :
                           after[n] = Commit(after[n - 1], q[n])
                     /\ Replay(docs, q) = after[Len(q)]
    BY ReplayDef
  <1> DEFINE front(n) == SubSeq(q, 1, n)
             P == {n \in Nat : n <= Len(q)
                        => LocalView(docs, front(n)) = after[n]}
  <1>2. 0 \in P
    <2>1. front(0) = << >>
      OBVIOUS
    <2> QED
      BY <1>1, <2>1
  <1>3. ASSUME NEW n \in Nat, n \in P
        PROVE  n + 1 \in P
    <2>1. SUFFICES ASSUME n + 1 <= Len(q)
                   PROVE  LocalView(docs, front(n + 1)) = after[n + 1]
      OBVIOUS
    <2>2. /\ front(n) \in Seq(S) /\ q[n + 1] \in S
          /\ front(n + 1) = Append(front(n), q[n + 1])
      BY <2>1
    <2>3. LocalView(docs, front(n)) = after[n]
      BY <1>3, <2>1
    <2>4. after[n + 1] = Commit(after[n], q[n + 1])
      BY <1>1, <2>1
    <2> HIDE DEF front, P
    <2>5. LocalView(docs, Append(front(n), q[n + 1]))
            = Commit(LocalView(docs, front(n)), q[n + 1])
      BY <2>2, ViewOfAppend
    <2> QED
      BY <2>2, <2>3, <2>4, <2>5
  <1>4. Len(q) \in P
    <2> HIDE DEF P
    <2> QED
      BY <1>2, <1>3, AllNaturals
  <1>5. front(Len(q)) = q /\ Len(q) \in Nat
    OBVIOUS
  <1>6. LocalView(docs, front(Len(q))) = after[Len(q)]
    <2> HIDE DEF front
    <2> QED
      BY <1>4, <1>5
  <1> HIDE DEF P, front
  <1> QED
    BY <1>1, <1>5, <1>6
=============================================================================
