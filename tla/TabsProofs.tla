----------------------------- MODULE TabsProofs ------------------------------
(***************************************************************************)
(* The converter and the marketplace list, for any number of requests,     *)
(* currencies, postings, forms and reads, and any order of the answers:    *)
(* the rows of the converter are never older than the last request; the    *)
(* rows, the details and the indicator of the list are those of what was   *)
(* tapped and read; each read and each filter has exactly one result.      *)
(***************************************************************************)
EXTENDS MCTabs, FiniteSetTheorems, WellFoundedInduction, TLAPS

LEMMA InitHolds == Init => TypeOK /\ RowsInv
  <1> SUFFICES ASSUME NEW text \in Texts \ Amounts, Opened(text)
               PROVE  TypeOK /\ RowsInv
    BY DEF Init
  <1>1. Len(<<CAD>>) = 1 /\ <<CAD>> \in Seq(Currencies)
    BY ConverterAssumption
  <1>2. TypeOK
    BY <1>1, ConverterAssumption DEF Opened, TypeOK, Last
  <1>3. RowsInv
    BY <1>1 DEF Opened, RowsInv, RowsNotOlder, Last
  <1> QED
    BY <1>2, <1>3

LEMMA ReopenHolds ==
  ASSUME NEW text \in Texts \ Amounts, Reopen(text)
  PROVE  TypeOK' /\ RowsInv'
  <1>1. Len(<<CAD>>) = 1 /\ <<CAD>> \in Seq(Currencies)
    BY ConverterAssumption
  <1>2. TypeOK'
    BY <1>1, ConverterAssumption DEF Reopen, TypeOK, Last
  <1>3. RowsInv'
    BY <1>1 DEF Reopen, RowsInv, RowsNotOlder, Last
  <1> QED
    BY <1>2, <1>3

(* A new request is open, so it cannot be older than itself.               *)
LEMMA ConvertHolds ==
  ASSUME TypeOK, RowsInv, convertPressed
  PROVE  TypeOK' /\ RowsInv'
  <1>1. /\ asked' \in Seq(Currencies)
        /\ Last \in Nat /\ Last' = Last + 1
    BY DEF TypeOK, convertPressed, loadData, Last
  <1>2. /\ pending' = pending \cup {Last + 1}
        /\ open' = pending'
        /\ results' = results /\ failed' = failed
    BY DEF convertPressed, loadData
  <1>3. /\ pending \subseteq 1..Last /\ failed \subseteq 1..Last
        /\ results \in 0..Last
    BY DEF TypeOK
  <1>4. /\ selectedCurrency' \in Currencies /\ amountTF' \in Texts
        /\ baseRate' \in Amounts
    BY DEF TypeOK, convertPressed
  <1>5. TypeOK'
    BY <1>1, <1>2, <1>3, <1>4 DEF TypeOK
  <1>6. RowsInv'
    BY <1>1, <1>2, <1>3 DEF RowsInv, RowsNotOlder
  <1> QED
    BY <1>5, <1>6

(* An answer comes from an open request.                                   *)
LEMMA AnswerHolds ==
  ASSUME TypeOK, RowsInv, NEW r \in pending, Answered(r) \/ Failed(r)
  PROVE  TypeOK' /\ RowsInv'
  <1>1. Last' = Last /\ Last \in Nat /\ r \in 1..Last
    BY DEF TypeOK, Answered, Failed, Last
  <1>2. CASE Answered(r)
    BY <1>1, <1>2 DEF TypeOK, RowsInv, RowsNotOlder, Answered
  <1>3. CASE Failed(r)
    BY <1>1, <1>3 DEF TypeOK, RowsInv, RowsNotOlder, Failed
  <1> QED
    BY <1>2, <1>3

LEMMA StepHolds ==
  ASSUME TypeOK, RowsInv, [Next]_vars
  PROVE  TypeOK' /\ RowsInv'
  <1>1. CASE \E text \in Texts \ Amounts : Reopen(text)
    BY <1>1, ReopenHolds
  <1>2. CASE \E c \in Currencies : didSelectRow(c)
    BY <1>2 DEF TypeOK, RowsInv, RowsNotOlder, didSelectRow, Last
  <1>3. CASE \E text \in Texts : Type(text)
    BY <1>3 DEF TypeOK, RowsInv, RowsNotOlder, Type, Last
  <1>4. CASE convertPressed
    BY <1>4, ConvertHolds
  <1>5. CASE \E r \in pending : Answered(r) \/ Failed(r)
    BY <1>5, AnswerHolds
  <1>6. CASE UNCHANGED vars
    BY <1>6 DEF TypeOK, RowsInv, RowsNotOlder, vars, Last
  <1> QED
    BY <1>1, <1>2, <1>3, <1>4, <1>5, <1>6 DEF Next

(* Once the last request has its rates, the rows are not older than it.    *)
THEOREM RowsAreNotOlder == Spec => []RowsNotOlder
  <1>1. RowsInv => RowsNotOlder
    BY DEF RowsInv
  <1> QED
    BY <1>1, InitHolds, StepHolds, PTL DEF Spec

(* The amount is a number and the requests are those sent, at any moment.  *)
THEOREM ConverterTypes == Spec => []TypeOK
  BY InitHolds, StepHolds, PTL DEF Spec

-----------------------------------------------------------------------------
(* The marketplace list.                                                   *)

IsArray(a) == Len(a) \in Nat /\ DOMAIN a = 1..Len(a)

(* The rows drawn are rows of the table and have an Image; the table       *)
(* behind the detail screen may be another one by now.                     *)
DrawnInv ==
    screen = "market" =>
        /\ rowsDrawn \in 0..Len(postingArray)
        /\ \A i \in 1..rowsDrawn : postingArray[i].image # Absent

ListInv ==
    /\ IsArray(uploadArray) /\ IsArray(postingArray)
    /\ screen \in {"market", "detail", "down"} /\ spinning \in BOOLEAN
    /\ DrawnInv
    /\ Market!DetailIsTapped /\ Market!FilterKept /\ Market!SpinnerOff

(* The instance has a Cardinality of its own.                              *)
LEMMA SameCardinality ==
  ASSUME NEW S
  PROVE  Market!Cardinality(S) = Cardinality(S)
  BY DEF Market!Cardinality, Cardinality

(* What is picked is a sequence of the elements at these places,           *)
LEMMA PickedAre ==
  ASSUME NEW array, NEW ids, IsFiniteSet(ids),
         NEW picked \in Market!Pick(array, ids)
  PROVE  /\ IsArray(picked)
         /\ \A i \in DOMAIN picked : \E k \in ids : picked[i] = array[k]
  <1> DEFINE n == Cardinality(ids)
  <1>1. n \in Nat
    BY FS_CardinalityType
  <1>2. PICK s \in [1..n -> ids] :
           picked = [i \in DOMAIN s |-> array[s[i]]]
    BY SameCardinality DEF Market!Pick
  <1> HIDE DEF n
  <1> DEFINE E == {picked[i] : i \in 1..n}
  <1>3. picked \in [1..n -> E]
    BY <1>2
  <1>4. picked \in Seq(E)
    BY <1>1, <1>3
  <1>5. IsArray(picked)
    <2> HIDE DEF E
    <2> QED
      BY <1>4 DEF IsArray
  <1>6. \A i \in DOMAIN picked : \E k \in ids : picked[i] = array[k]
    BY <1>2
  <1> QED
    BY <1>5, <1>6

(* and of all of them, since an increasing enumeration misses none.        *)
LEMMA AllArePicked ==
  ASSUME NEW array, NEW ids \in SUBSET Nat, IsFiniteSet(ids),
         NEW picked \in Market!Pick(array, ids), NEW k \in ids
  PROVE  \E i \in DOMAIN picked : picked[i] = array[k]
  <1> DEFINE n == Cardinality(ids)
  <1>1. n \in Nat
    BY FS_CardinalityType
  <1>2. PICK s \in [1..n -> ids] :
           /\ Market!InOrder(s)
           /\ picked = [i \in DOMAIN s |-> array[s[i]]]
    BY SameCardinality DEF Market!Pick
  <1> HIDE DEF n
  <1>3. ASSUME NEW i \in 1..n, NEW j \in 1..n, i # j
        PROVE  s[i] # s[j]
    <2>1. s[i] \in Nat /\ s[j] \in Nat /\ DOMAIN s = 1..n
      BY <1>2
    <2>2. CASE i < j
      BY <1>2, <2>1, <2>2 DEF Market!InOrder
    <2>3. CASE j < i
      BY <1>2, <2>1, <2>3 DEF Market!InOrder
    <2> QED
      BY <1>1, <1>3, <2>2, <2>3
  <1>4. s \in Injection(1..n, ids)
    BY <1>2, <1>3 DEF Injection, IsInjective
  <1>5. Cardinality(1..n) = n /\ Cardinality(ids) = n
    BY <1>1, FS_Interval DEF n
  <1>6. s \in Surjection(1..n, ids)
    BY <1>4, <1>5, FS_Injection
  <1>7. PICK i \in 1..n : s[i] = k
    BY <1>6 DEF Surjection
  <1> QED
    BY <1>2, <1>7

LEMMA FilteredAre ==
  ASSUME NEW array, IsArray(array), NEW name,
         NEW rows \in Market!filterArray(array, name)
  PROVE  /\ IsArray(rows)
         /\ name # "All" =>
               /\ \A i \in DOMAIN rows : Market!Title(rows[i]) = name
               /\ \A i \in DOMAIN array :
                     Market!Title(array[i]) = name =>
                         \E j \in DOMAIN rows : rows[j] = array[i]
  <1>1. CASE name = "All"
    BY <1>1 DEF Market!filterArray
  <1>2. CASE name # "All"
    <2> DEFINE ids == {i \in DOMAIN array : Market!Title(array[i]) = name}
    <2>1. rows \in Market!Pick(array, ids)
      BY <1>2 DEF Market!filterArray
    <2>2. IsFiniteSet(1..Len(array))
      BY FS_Interval DEF IsArray
    <2>3. IsFiniteSet(ids)
      BY <2>2, FS_Subset DEF IsArray
    <2>4. ids \subseteq Nat
      BY DEF IsArray
    <2>5. \A i \in DOMAIN array :
             Market!Title(array[i]) = name => i \in ids
      OBVIOUS
    <2>6. \A k \in ids : Market!Title(array[k]) = name
      OBVIOUS
    <2> HIDE DEF ids
    <2>7. IsArray(rows)
      BY <2>1, <2>3, PickedAre
    <2>8. \A i \in DOMAIN rows : \E k \in ids : rows[i] = array[k]
      BY <2>1, <2>3, PickedAre
    <2>9. ASSUME NEW k \in ids
          PROVE  \E i \in DOMAIN rows : rows[i] = array[k]
      BY <2>1, <2>3, <2>4, AllArePicked
    <2> QED
      BY <1>2, <2>5, <2>6, <2>7, <2>8, <2>9
  <1> QED
    BY <1>1, <1>2

LEMMA OnScreenFits ==
  ASSUME NEW rows, IsArray(rows)
  PROVE  Market!OnScreen(rows) \in 0..Len(rows)
  BY InfoAssumption DEF Market!OnScreen, IsArray

(* Rows drawn to the end of the screen or of the table.                    *)
LEMMA DisplayShows ==
  ASSUME NEW rows, IsArray(rows), postingArray' = rows, spinning \in BOOLEAN,
         NEW shown, shown = Market!OnScreen(rows) \/ shown = Len(rows),
         Market!display(rows, shown)
  PROVE  /\ screen' \in {"market", "down"} /\ spinning' \in BOOLEAN
         /\ DrawnInv' /\ Market!SpinnerOff' /\ Market!DetailIsTapped'
  <1>1. shown \in 0..Len(rows)
    BY OnScreenFits DEF IsArray
  <1>2. CASE \E i \in 1..shown : rows[i].image = Absent
    <2>1. screen' = "down" /\ spinning' = spinning
      BY <1>2 DEF Market!display
    <2> QED
      BY <2>1 DEF DrawnInv, Market!SpinnerOff, Market!DetailIsTapped
  <1>3. CASE ~\E i \in 1..shown : rows[i].image = Absent
    <2>1. /\ screen' = "market" /\ rowsDrawn' = shown
          /\ spinning' = (spinning /\ (rows = <<>> \/ shown < Len(rows)))
      BY <1>3 DEF Market!display
    <2>2. spinning' \in BOOLEAN
      BY <2>1, Zenon
    <2>3. DrawnInv'
      BY <1>1, <1>3, <2>1 DEF DrawnInv
    <2>4. Market!DetailIsTapped'
      BY <2>1 DEF Market!DetailIsTapped
    <2>5. spinning' => rows = <<>> \/ shown < Len(rows)
      BY <2>1, Zenon
    <2>6. shown < Len(rows) => Len(rows) > Visible
      BY InfoAssumption DEF IsArray, Market!OnScreen
    <2>7. Market!SpinnerOff'
      BY <2>5, <2>6 DEF Market!SpinnerOff
    <2> QED
      BY <2>1, <2>2, <2>3, <2>4, <2>7
  <1> QED
    BY <1>2, <1>3

(* New rows come into the table, on the screen or behind the details.      *)
LEMMA ReloadShows ==
  ASSUME ListInv, screen # "down", NEW rows, IsArray(rows),
         Market!Reload(rows), UNCHANGED <<shownDetail, tapped>>
  PROVE  /\ postingArray' = rows
         /\ screen' \in {"market", "detail", "down"} /\ spinning' \in BOOLEAN
         /\ DrawnInv' /\ Market!SpinnerOff' /\ Market!DetailIsTapped'
  <1>1. postingArray' = rows /\ spinning \in BOOLEAN
    BY DEF ListInv, Market!Reload
  <1>2. CASE screen = "market"
    <2>1. Market!display(rows, Market!OnScreen(rows))
      BY <1>2 DEF Market!Reload
    <2> QED
      BY <1>1, <2>1, DisplayShows
  <1>3. CASE screen # "market"
    <2>1. UNCHANGED <<screen, rowsDrawn, spinning>> /\ screen = "detail"
      BY <1>3 DEF Market!Reload, ListInv
    <2>2. DrawnInv' /\ Market!SpinnerOff'
      BY <2>1 DEF DrawnInv, Market!SpinnerOff
    <2>3. Market!DetailIsTapped'
      BY <2>1 DEF ListInv, Market!DetailIsTapped
    <2> QED
      BY <1>1, <2>1, <2>2, <2>3
  <1> QED
    BY <1>2, <1>3

LEMMA ListInvInit == Market!Opened => ListInv
  <1> SUFFICES ASSUME Market!Opened PROVE ListInv
    OBVIOUS
  <1>1. IsArray(<<>>)
    BY DEF IsArray
  <1>2. /\ uploadArray = <<>> /\ postingArray = <<>> /\ screen = "market"
        /\ rowsDrawn = 0 /\ spinning = TRUE /\ reread = TRUE
    BY DEF Market!Opened
  <1>3. DrawnInv
    BY <1>2 DEF DrawnInv
  <1> QED
    BY <1>1, <1>2, <1>3 DEF ListInv, Market!DetailIsTapped,
                            Market!FilterKept, Market!SpinnerOff

LEMMA LoadHolds ==
  ASSUME ListInv, Market!loadFireBaseData
  PROVE  ListInv'
  <1>1. PICK rows \in Market!Found :
           uploadArray' = rows /\ Market!Reload(rows)
    BY DEF Market!loadFireBaseData
  <1>2. /\ screen # "down" /\ reread' = TRUE
        /\ UNCHANGED <<shownDetail, tapped>>
    BY DEF Market!loadFireBaseData
  <1>3. IsArray(rows)
    <2> DEFINE ids == {d \in Docs : postings[d] # Market!Nothing}
               array == [d \in Docs |-> Market!Upload(postings[d])]
    <2>1. rows \in Market!Pick(array, ids)
      BY <1>1 DEF Market!Found
    <2>2. IsFiniteSet(ids)
      BY InfoAssumption, FS_Subset
    <2> HIDE DEF ids, array
    <2> QED
      BY <2>1, <2>2, PickedAre
  <1>4. /\ postingArray' = rows
        /\ screen' \in {"market", "detail", "down"} /\ spinning' \in BOOLEAN
        /\ DrawnInv' /\ Market!SpinnerOff' /\ Market!DetailIsTapped'
    BY <1>1, <1>2, <1>3, ReloadShows
  <1>5. Market!FilterKept'
    BY <1>2 DEF Market!FilterKept
  <1> QED
    BY <1>1, <1>3, <1>4, <1>5 DEF ListInv

LEMMA SegmentHolds ==
  ASSUME ListInv, NEW s, Market!segmentChanged(s)
  PROVE  ListInv'
  <1>1. PICK rows \in Market!filterArray(uploadArray, s) : Market!Reload(rows)
    BY DEF Market!segmentChanged
  <1>2. /\ screen = "market" /\ filterSegment' = s
        /\ UNCHANGED <<uploadArray, shownDetail, tapped>>
    BY DEF Market!segmentChanged
  <1>3. IsArray(uploadArray)
    BY DEF ListInv
  <1>4. /\ IsArray(rows)
        /\ s # "All" =>
              /\ \A i \in DOMAIN rows : Market!Title(rows[i]) = s
              /\ \A i \in DOMAIN uploadArray :
                    Market!Title(uploadArray[i]) = s =>
                        \E j \in DOMAIN rows : rows[j] = uploadArray[i]
    BY <1>3, FilteredAre
  <1>5. /\ postingArray' = rows
        /\ screen' \in {"market", "detail", "down"} /\ spinning' \in BOOLEAN
        /\ DrawnInv' /\ Market!SpinnerOff' /\ Market!DetailIsTapped'
    BY <1>1, <1>2, <1>4, ReloadShows
  <1>6. Market!FilterKept'
    BY <1>2, <1>4, <1>5 DEF Market!FilterKept, Market!Title
  <1> QED
    BY <1>2, <1>3, <1>4, <1>5, <1>6 DEF ListInv

(* Scrolling, and coming back from the details or from another tab.        *)
LEMMA RedrawHolds ==
  ASSUME ListInv, Market!Scroll \/ Market!viewWillAppear
  PROVE  ListInv'
  <1>1. /\ IsArray(uploadArray) /\ IsArray(postingArray)
        /\ spinning \in BOOLEAN /\ Market!FilterKept
    BY DEF ListInv
  <1>2. UNCHANGED <<uploadArray, postingArray, filterSegment, reread>>
    BY DEF Market!Scroll, Market!viewWillAppear
  <1>3. PICK shown : /\ \/ shown = Market!OnScreen(postingArray)
                        \/ shown = Len(postingArray)
                     /\ Market!display(postingArray, shown)
    BY DEF Market!Scroll, Market!viewWillAppear
  <1>4. /\ screen' \in {"market", "down"} /\ spinning' \in BOOLEAN
        /\ DrawnInv' /\ Market!SpinnerOff' /\ Market!DetailIsTapped'
    BY <1>1, <1>2, <1>3, DisplayShows
  <1>5. Market!FilterKept'
    BY <1>1, <1>2 DEF Market!FilterKept, Market!Title
  <1> QED
    BY <1>1, <1>2, <1>4, <1>5 DEF ListInv

(* Only a row that is drawn can be tapped.                                 *)
LEMMA SelectHolds ==
  ASSUME ListInv, NEW i \in 1..rowsDrawn, Market!didSelectRow(i)
  PROVE  ListInv'
  <1>1. /\ screen = "market" /\ screen' = "detail"
        /\ tapped' = postingArray[i]
        /\ shownDetail' = [array |-> postingArray, index |-> i]
        /\ UNCHANGED <<uploadArray, postingArray, filterSegment, rowsDrawn,
                       spinning, reread>>
    BY DEF Market!didSelectRow
  <1>2. /\ IsArray(uploadArray) /\ IsArray(postingArray)
        /\ spinning \in BOOLEAN /\ Market!FilterKept
        /\ rowsDrawn \in 0..Len(postingArray)
        /\ postingArray[i].image # Absent
    BY <1>1 DEF ListInv, DrawnInv
  <1>3. i \in DOMAIN postingArray
    BY <1>2 DEF IsArray
  <1>4. Market!DetailIsTapped'
    BY <1>1, <1>2, <1>3 DEF Market!DetailIsTapped
  <1>5. Market!FilterKept'
    BY <1>1, <1>2 DEF Market!FilterKept, Market!Title
  <1>6. DrawnInv' /\ Market!SpinnerOff'
    BY <1>1 DEF DrawnInv, Market!SpinnerOff
  <1> QED
    BY <1>1, <1>2, <1>4, <1>5, <1>6 DEF ListInv

LEMMA RelaunchHolds ==
  ASSUME Market!Relaunch
  PROVE  ListInv'
  <1>1. /\ uploadArray' = <<>> /\ postingArray' = <<>> /\ screen' = "market"
        /\ rowsDrawn' = 0 /\ spinning' = TRUE /\ reread' = TRUE
    BY DEF Market!Relaunch
  <1>2. IsArray(<<>>)
    BY DEF IsArray
  <1>3. DrawnInv'
    BY <1>1 DEF DrawnInv
  <1> QED
    BY <1>1, <1>2, <1>3 DEF ListInv, Market!DetailIsTapped,
                            Market!FilterKept, Market!SpinnerOff

LEMMA ListStepHolds ==
  ASSUME ListInv, [Market!Next]_(Market!vars)
  PROVE  ListInv'
  <1>1. CASE UNCHANGED <<uploadArray, postingArray, filterSegment, screen,
                         shownDetail, rowsDrawn, spinning, tapped, reread>>
    BY <1>1 DEF ListInv, DrawnInv, Market!DetailIsTapped,
                Market!FilterKept, Market!SpinnerOff, Market!Title
  <1>2. CASE Market!BoardStep
    BY <1>1, <1>2 DEF Market!BoardStep, Market!listVars
  <1>3. CASE Market!loadFireBaseData
    BY <1>3, LoadHolds
  <1>4. CASE Market!LoadError
    BY <1>1, <1>4 DEF Market!LoadError
  <1>5. CASE \E s \in Market!Segments : Market!segmentChanged(s)
    BY <1>5, SegmentHolds
  <1>6. CASE Market!Scroll \/ Market!viewWillAppear
    BY <1>6, RedrawHolds
  <1>7. CASE \E i \in 1..rowsDrawn : Market!didSelectRow(i)
    BY <1>7, SelectHolds
  <1>8. CASE Market!Relaunch
    BY <1>8, RelaunchHolds
  <1>9. CASE UNCHANGED Market!vars
    BY <1>1, <1>9 DEF Market!vars, Market!listVars
  <1> QED
    BY <1>2, <1>3, <1>4, <1>5, <1>6, <1>7, <1>8, <1>9 DEF Market!Next

LEMMA ListInvHolds == Market!Spec => []ListInv
  <1>1. Market!Init => ListInv
    BY ListInvInit DEF Market!Init
  <1> QED
    BY <1>1, ListStepHolds, PTL DEF Market!Spec

(* The details are those of the row tapped, which has its photo, whatever  *)
(* is read, filtered, edited or deleted meanwhile.                         *)
THEOREM DetailsAreOfTheTap == Market!Spec => []DetailIsTapped
  <1>1. ListInv => DetailIsTapped
    BY DEF ListInv, DetailIsTapped
  <1> QED
    BY <1>1, ListInvHolds, PTL

(* The rows are all those of the segment, and only those, until the next   *)
(* read.                                                                   *)
THEOREM FilterIsKept == Market!Spec => []FilterKept
  <1>1. ListInv => FilterKept
    BY DEF ListInv, FilterKept
  <1> QED
    BY <1>1, ListInvHolds, PTL

(* The indicator does not turn over a list that is all there.              *)
THEOREM SpinnerStops == Market!Spec => []SpinnerOff
  <1>1. ListInv => SpinnerOff
    BY DEF ListInv, SpinnerOff
  <1> QED
    BY <1>1, ListInvHolds, PTL
-----------------------------------------------------------------------------
(* The rows of a read or of a filter are the one sequence of them in the   *)
(* order of their places: there is always one, and never a choice.         *)

LEMMA HasLeast ==
  ASSUME NEW T \in SUBSET Nat, T # {}
  PROVE  \E m \in T : \A n \in T : m <= n
  <1> DEFINE R == {p \in Nat \X Nat : p[1] < p[2]}
  <1>1. PICK m \in T : \A n \in T : ~(<<n, m>> \in R)
    <2>1. IsWellFoundedOn(R, Nat)
      BY NatLessThanWellFounded, Zenon DEF OpToRel
    <2> HIDE DEF R
    <2> QED
      BY <2>1, WFMin
  <1>2. ASSUME NEW n \in T
        PROVE  m <= n
    <2>1. ~(<<n, m>> \in R) /\ n \in Nat /\ m \in Nat
      BY <1>1
    <2>2. ~(n < m)
      BY <2>1
    <2> QED
      BY <2>1, <2>2
  <1> QED
    BY <1>2

Enumerations(ids) ==
  {s \in [1..Cardinality(ids) -> ids] :
     \A i, j \in DOMAIN s : i < j => s[i] < s[j]}

(* The least place first, then the others in their order.                  *)
LEMMA LeastFirst ==
  ASSUME NEW ids \in SUBSET Nat, IsFiniteSet(ids),
         NEW m \in ids, \A k \in ids : m <= k,
         NEW t \in Enumerations(ids \ {m})
  PROVE  Enumerations(ids) # {}
  <1> DEFINE n == Cardinality(ids)
             s == [i \in 1..n |-> IF i = 1 THEN m ELSE t[i - 1]]
  <1>1. n \in Nat /\ Cardinality(ids \ {m}) = n - 1
    BY FS_CardinalityType, FS_RemoveElement
  <1>2. /\ t \in [1..(n - 1) -> ids \ {m}]
        /\ \A i, j \in 1..(n - 1) : i < j => t[i] < t[j]
    BY <1>1 DEF Enumerations
  <1> HIDE DEF n
  <1>3. ASSUME NEW i \in 1..n, i # 1
        PROVE  i - 1 \in 1..(n - 1)
    BY <1>1, <1>3
  <1>4. s \in [1..n -> ids]
    BY <1>2, <1>3
  <1>5. ASSUME NEW i \in 1..n, NEW j \in 1..n, i < j
        PROVE  s[i] < s[j]
    <2>1. j # 1 /\ j - 1 \in 1..(n - 1)
      BY <1>1, <1>5
    <2>2. s[j] = t[j - 1] /\ s[j] \in ids \ {m}
      BY <1>2, <2>1
    <2>3. CASE i = 1
      <3>1. s[i] = m
        BY <2>3
      <3>2. m <= s[j] /\ m # s[j] /\ m \in Nat /\ s[j] \in Nat
        BY <2>2
      <3> HIDE DEF s
      <3> QED
        BY <3>1, <3>2
    <2>4. CASE i # 1
      <3>1. s[i] = t[i - 1] /\ i - 1 \in 1..(n - 1) /\ i - 1 < j - 1
        BY <1>1, <1>5, <2>4
      <3> QED
        BY <1>2, <2>1, <2>2, <3>1
    <2> QED
      BY <2>3, <2>4
  <1>6. s \in Enumerations(ids)
    <2>1. s \in [1..Cardinality(ids) -> ids] /\ DOMAIN s = 1..n
      BY <1>4 DEF n
    <2> HIDE DEF s
    <2> QED
      BY <1>5, <2>1 DEF Enumerations
  <1> QED
    BY <1>6

(* No least number of places is without an enumeration.                    *)
LEMMA EnumerationExists ==
  ASSUME NEW ids \in SUBSET Nat, IsFiniteSet(ids)
  PROVE  Enumerations(ids) # {}
  <1> DEFINE Bad(S) == /\ S \in SUBSET Nat /\ IsFiniteSet(S)
                       /\ Enumerations(S) = {}
             T == {n \in Nat : \E S \in SUBSET Nat : Bad(S) /\ n = Cardinality(S)}
  <1>1. SUFFICES ASSUME Bad(ids) PROVE FALSE
    OBVIOUS
  <1>2. Cardinality(ids) \in T
    BY <1>1, FS_CardinalityType
  <1>3. PICK n \in T : \A k \in T : n <= k
    <2> HIDE DEF T
    <2>1. T \subseteq Nat
      BY DEF T
    <2> QED
      BY <1>2, <2>1, HasLeast
  <1>4. PICK S \in SUBSET Nat : Bad(S) /\ n = Cardinality(S)
    BY <1>3
  <1>5. S # {}
    <2>1. ASSUME S = {}
          PROVE  FALSE
      <3>1. Cardinality(S) = 0
        BY <2>1, FS_EmptySet
      <3>2. [i \in 1..0 |-> 0] \in [1..0 -> S]
        OBVIOUS
      <3>3. PICK f : f \in [1..0 -> S]
        BY <3>2
      <3>4. f \in Enumerations(S)
        BY <3>1, <3>3 DEF Enumerations
      <3> QED
        BY <1>4, <3>4
    <2> QED
      BY <2>1
  <1>6. PICK m \in S : \A k \in S : m <= k
    BY <1>5, HasLeast
  <1>7. /\ S \ {m} \in SUBSET Nat /\ IsFiniteSet(S \ {m})
        /\ Cardinality(S \ {m}) = n - 1 /\ n \in Nat /\ n - 1 \in Nat
    <2>1. IsFiniteSet(S \ {m}) /\ Cardinality(S \ {m}) = n - 1
      BY <1>4, FS_RemoveElement
    <2>2. Cardinality(S \ {m}) \in Nat
      BY <2>1, FS_CardinalityType
    <2> QED
      BY <1>3, <2>1, <2>2
  <1>8. n - 1 \notin T
    BY <1>3, <1>7
  <1>9. Enumerations(S \ {m}) # {}
    BY <1>7, <1>8
  <1> QED
    BY <1>4, <1>6, <1>9, LeastFirst

(* An increasing enumeration misses none.                                  *)
LEMMA EnumerationOnto ==
  ASSUME NEW ids \in SUBSET Nat, IsFiniteSet(ids),
         NEW s \in Enumerations(ids), NEW k \in ids
  PROVE  \E i \in DOMAIN s : s[i] = k
  <1> DEFINE n == Cardinality(ids)
  <1>1. n \in Nat
    BY FS_CardinalityType
  <1>2. s \in [1..n -> ids] /\ \A i, j \in DOMAIN s : i < j => s[i] < s[j]
    BY DEF Enumerations
  <1> HIDE DEF n
  <1>3. ASSUME NEW i \in 1..n, NEW j \in 1..n, i # j
        PROVE  s[i] # s[j]
    <2>1. s[i] \in Nat /\ s[j] \in Nat /\ DOMAIN s = 1..n
      BY <1>2
    <2>2. i < j \/ j < i
      BY <1>1, <1>3
    <2> QED
      BY <1>2, <2>1, <2>2
  <1>4. s \in Injection(1..n, ids)
    BY <1>2, <1>3 DEF Injection, IsInjective
  <1>5. Cardinality(1..n) = n /\ Cardinality(ids) = n
    BY <1>1, FS_Interval DEF n
  <1>6. s \in Surjection(1..n, ids)
    BY <1>4, <1>5, FS_Injection
  <1> QED
    BY <1>2, <1>6 DEF Surjection

(* Where two enumerations first differ, the smaller of the two places is   *)
(* nowhere in the other one.                                               *)
LEMMA FirstDifference ==
  ASSUME NEW ids \in SUBSET Nat, IsFiniteSet(ids),
         NEW s \in Enumerations(ids), NEW t \in Enumerations(ids),
         NEW i \in 1..Cardinality(ids),
         \A j \in 1..Cardinality(ids) : j < i => s[j] = t[j]
  PROVE  ~(s[i] < t[i])
  <1> DEFINE n == Cardinality(ids)
  <1>1. n \in Nat
    BY FS_CardinalityType
  <1>2. /\ s \in [1..n -> ids] /\ t \in [1..n -> ids]
        /\ \A j, k \in 1..n : j < k => s[j] < s[k] /\ t[j] < t[k]
    BY DEF Enumerations
  <1>3. i \in 1..n /\ \A j \in 1..n : j < i => s[j] = t[j]
    OBVIOUS
  <1>4. SUFFICES ASSUME s[i] < t[i] PROVE FALSE
    OBVIOUS
  <1>5. s[i] \in ids
    BY <1>2, <1>3
  <1>6. PICK j \in DOMAIN t : t[j] = s[i]
    BY <1>5, EnumerationOnto
  <1> HIDE DEF n
  <1>7. j \in 1..n /\ s[j] \in Nat /\ s[i] \in Nat /\ t[i] \in Nat /\ t[j] \in Nat
    BY <1>2, <1>3, <1>6
  <1>8. CASE j < i
    BY <1>2, <1>3, <1>6, <1>7, <1>8
  <1>9. CASE i < j
    BY <1>2, <1>3, <1>4, <1>6, <1>7, <1>9
  <1>10. CASE i = j
    BY <1>4, <1>6, <1>7, <1>10
  <1> QED
    BY <1>1, <1>3, <1>7, <1>8, <1>9, <1>10

LEMMA EnumerationUnique ==
  ASSUME NEW ids \in SUBSET Nat, IsFiniteSet(ids),
         NEW s \in Enumerations(ids), NEW t \in Enumerations(ids)
  PROVE  s = t
  <1> DEFINE n == Cardinality(ids)
             T == {i \in 1..n : s[i] # t[i]}
  <1>1. n \in Nat
    BY FS_CardinalityType
  <1>2. s \in [1..n -> ids] /\ t \in [1..n -> ids]
    BY DEF Enumerations
  <1>3. SUFFICES ASSUME s # t PROVE FALSE
    OBVIOUS
  <1>4. T # {}
    <2> HIDE DEF n
    <2>1. \E i \in 1..n : s[i] # t[i]
      <3>1. s = [i \in 1..n |-> s[i]] /\ t = [i \in 1..n |-> t[i]]
        BY <1>2
      <3>2. (\A i \in 1..n : s[i] = t[i])
               => [i \in 1..n |-> s[i]] = [i \in 1..n |-> t[i]]
        OBVIOUS
      <3> QED
        BY <1>3, <3>1, <3>2, Zenon
    <2> QED
      BY <2>1
  <1>5. PICK i \in T : \A j \in T : i <= j
    <2>1. T \subseteq Nat
      BY <1>1
    <2> HIDE DEF T
    <2> QED
      BY <1>4, <2>1, HasLeast
  <1>6. i \in 1..n /\ s[i] # t[i] /\ s[i] \in Nat /\ t[i] \in Nat
    BY <1>2, <1>5
  <1>7. \A j \in 1..n : j < i => s[j] = t[j]
    BY <1>1, <1>5, <1>6
  <1>8. ~(s[i] < t[i])
    BY <1>6, <1>7, FirstDifference
  <1>9. ~(t[i] < s[i])
    BY <1>6, <1>7, FirstDifference
  <1> QED
    BY <1>6, <1>8, <1>9

LEMMA OneEnumeration ==
  ASSUME NEW ids \in SUBSET Nat, IsFiniteSet(ids)
  PROVE  \E s : Enumerations(ids) = {s}
  <1>1. PICK s : s \in Enumerations(ids)
    BY EnumerationExists
  <1>2. Enumerations(ids) = {s}
    BY <1>1, EnumerationUnique
  <1> QED
    BY <1>2

LEMMA OnePick ==
  ASSUME NEW array, NEW ids \in SUBSET Nat, IsFiniteSet(ids)
  PROVE  \E rows : Market!Pick(array, ids) = {rows}
  <1>1. Market!Pick(array, ids) =
          {[i \in DOMAIN s |-> array[s[i]]] : s \in Enumerations(ids)}
    BY SameCardinality DEF Market!Pick, Market!InOrder, Enumerations
  <1>2. PICK s : Enumerations(ids) = {s}
    BY OneEnumeration
  <1>3. Market!Pick(array, ids) = {[i \in DOMAIN s |-> array[s[i]]]}
    BY <1>1, <1>2
  <1> QED
    BY <1>3

(* getDocuments has one answer in each state, sorted by document id.       *)
LEMMA OneAnswer == \E rows : Market!Found = {rows}
  <1> DEFINE ids == {d \in Docs : postings[d] # Market!Nothing}
  <1>1. ids \in SUBSET Nat /\ IsFiniteSet(ids)
    BY InfoAssumption, FS_Subset
  <1>2. Market!Found = Market!Pick([d \in Docs |-> Market!Upload(postings[d])], ids)
    BY DEF Market!Found
  <1> HIDE DEF ids
  <1> QED
    BY <1>1, <1>2, OnePick

(* The filter has one result for each array and segment.                   *)
LEMMA OneFilter ==
  ASSUME NEW array, IsArray(array), NEW name
  PROVE  \E rows : Market!filterArray(array, name) = {rows}
  <1> DEFINE ids == {i \in DOMAIN array : Market!Title(array[i]) = name}
  <1>1. CASE name = "All"
    BY <1>1 DEF Market!filterArray
  <1>2. CASE name # "All"
    <2>1. Market!filterArray(array, name) = Market!Pick(array, ids)
      BY <1>2 DEF Market!filterArray
    <2>2. DOMAIN array = 1..Len(array) /\ Len(array) \in Nat
      BY DEF IsArray
    <2>3. ids \in SUBSET Nat /\ IsFiniteSet(ids)
      <3>1. ids \in SUBSET (1..Len(array))
        BY <2>2
      <3>2. IsFiniteSet(1..Len(array))
        BY <2>2, FS_Interval
      <3> HIDE DEF ids
      <3>3. IsFiniteSet(ids)
        BY <3>1, <3>2, FS_Subset
      <3>4. ids \in SUBSET Nat
        BY <2>2, <3>1
      <3> QED
        BY <3>3, <3>4
    <2> HIDE DEF ids
    <2> QED
      BY <2>1, <2>3, OnePick
  <1> QED
    BY <1>1, <1>2

(* The information board's getDocuments has one answer in each state.      *)
LEMMA OneBoardAnswer == \E rows : Rows = {rows}
  <1> DEFINE ids == {d \in Docs : board[d] # {}}
             row(s) == [i \in DOMAIN s |->
                          [info |-> s[i], image |-> "image" \in board[s[i]]]]
  <1>1. ids \in SUBSET Nat /\ IsFiniteSet(ids)
    BY InfoAssumption, FS_Subset
  <1>2. Rows = {row(s) : s \in Enumerations(ids)}
    BY DEF Rows, Enumerations
  <1> HIDE DEF ids
  <1>3. PICK s : Enumerations(ids) = {s}
    BY <1>1, OneEnumeration
  <1>4. Rows = {row(s)}
    BY <1>2, <1>3
  <1> QED
    BY <1>4

(* A read or a tap on a segment always has a result, and one only, in      *)
(* either list: no step of the model is lost, and none is a choice, where  *)
(* the screens take the rows of loadFireBaseData, filterArray and          *)
(* loadInfos.                                                              *)
THEOREM ReadsAreDefinite ==
  /\ \E rows : Market!Found = {rows}
  /\ \E rows : Rows = {rows}
  /\ \A array, name : IsArray(array) =>
        \E rows : Market!filterArray(array, name) = {rows}
  BY OneAnswer, OneBoardAnswer, OneFilter
=============================================================================
