----------------------------- MODULE MarketPlace -----------------------------
(***************************************************************************)
(* MarketPlaceViewController and DetailViewController: the list of all     *)
(* postings, its filter, its activity indicator and the detail screen,     *)
(* over a collection that changes under them by the steps of PostingBoard. *)
(* One process; the reads and the taps of its user interleave with what    *)
(* all devices do to the collection.                                       *)
(***************************************************************************)
EXTENDS PostingBoard, FiniteSets

(* Docs are numbers here: the ids, in their order.                         *)
CONSTANTS
    TitleOf,   \* "Job" or "Rental", the Title in each form
    Visible,   \* how many rows the screen shows without scrolling, 1 or more
    MaxFetch   \* outstanding reads, 2 or more (a bound)

Segments == {"Job", "Rental", "All"}

VARIABLES
    uploadArray,   \* what the last read found
    postingArray,  \* the rows of the table
    filterSegment, \* the segment selected
    fetch,         \* outstanding getDocuments
    screen,        \* "market", "detail" or "down"
    detail,        \* DetailViewController's array and index
    drawn,         \* how many rows of the table have been drawn
    spinning,      \* the activity indicator is on
    tapped,        \* history: the row that was tapped
    reread         \* history: a read since the segment was tapped

listVars == <<uploadArray, postingArray, filterSegment, fetch, screen, detail,
              drawn, spinning, tapped, reread>>
vars == <<boardVars, listVars>>

(* An Upload object, as far as the two screens depend on it.               *)
Upload(posting) == [form |-> posting["form"], image |-> posting["image"]]
NoRow == Upload(Nothing)
NoDetail == [array |-> <<>>, index |-> 0]

(* viewDidLoad and viewWillAppear read once each.                          *)
Opened ==
    /\ uploadArray = <<>> /\ postingArray = <<>> /\ filterSegment = "none"
    /\ fetch = 2 /\ screen = "market" /\ detail = NoDetail
    /\ drawn = 0 /\ spinning = TRUE /\ tapped = NoRow /\ reread = TRUE

Init == BoardInit /\ Opened

(* The elements of rows at the places of ids, in the order of the ids:     *)
(* the one sequence of them there is.                                      *)
InOrder(s) == \A i, j \in DOMAIN s : i < j => s[i] < s[j]

Pick(rows, ids) ==
    {[i \in DOMAIN s |-> rows[s[i]]] :
        s \in {s \in [1..Cardinality(ids) -> ids] : InOrder(s)}}

(* The documents in the order of their ids, as getDocuments returns them.  *)
Found == Pick([d \in Docs |-> Upload(board[d])],
              {d \in Docs : board[d] # Nothing})

(* A Title that is missing reads as "".                                    *)
Title(row) == IF row.form = Absent THEN ""
              ELSE TitleOf[row.form]

(* Mutant: a segment leaves out the postings of the other kind only.      *)
MutRentalUnlessJob(array, name) ==
    LET other == IF name = "Job" THEN "Rental" ELSE "Job"
    IN  IF name = "All" THEN {array}
        ELSE Pick(array, {i \in DOMAIN array : Title(array[i]) # other})

filterArray(array, name) ==
    IF name = "All" THEN {array}
    ELSE Pick(array, {i \in DOMAIN array : Title(array[i]) = name})

(* Mutant: off by one, the row before the last stops the indicator.       *)
MutStopsEarly(rows, shown) ==
    IF \E i \in 1..shown : rows[i].image = Absent
    THEN screen' = "down" /\ UNCHANGED <<drawn, spinning>>
    ELSE /\ screen' = "market" /\ drawn' = shown
         /\ spinning' = (spinning /\ Len(rows) < 2)

(* cellForRowAt unwraps the Image of each row it draws; a missing one ends *)
(* the app.  willDisplay of the last row stops the indicator.              *)
display(rows, shown) ==
    IF \E i \in 1..shown : rows[i].image = Absent
    THEN screen' = "down" /\ UNCHANGED <<drawn, spinning>>
    ELSE /\ screen' = "market" /\ drawn' = shown
         /\ spinning' = (spinning /\ (rows = <<>> \/ shown < Len(rows)))

OnScreen(rows) == IF Len(rows) < Visible THEN Len(rows) ELSE Visible

Reload(rows) ==
    /\ postingArray' = rows
    /\ IF screen = "market" THEN display(rows, OnScreen(rows))
       ELSE UNCHANGED <<screen, drawn, spinning>>

(* Every read shows all postings, whatever segment is selected.            *)
loadFireBaseData ==
    /\ screen # "down" /\ fetch > 0
    /\ fetch' = fetch - 1
    /\ \E rows \in Found : uploadArray' = rows /\ Reload(rows)
    /\ reread' = TRUE
    /\ UNCHANGED <<boardVars, filterSegment, detail, tapped>>

LoadError ==
    /\ screen # "down" /\ fetch > 0
    /\ fetch' = fetch - 1
    /\ UNCHANGED <<boardVars, uploadArray, postingArray, filterSegment, screen,
                   detail, drawn, spinning, tapped, reread>>

segmentChanged(s) ==
    /\ screen = "market" /\ s # filterSegment
    /\ filterSegment' = s
    /\ \E rows \in filterArray(uploadArray, s) : Reload(rows)
    /\ reread' = FALSE
    /\ UNCHANGED <<boardVars, uploadArray, fetch, detail, tapped>>

(* The user scrolls to the end.                                            *)
Scroll ==
    /\ screen = "market" /\ Len(postingArray) > Visible
    /\ display(postingArray, Len(postingArray))
    /\ UNCHANGED <<boardVars, uploadArray, postingArray, filterSegment, fetch,
                   detail, tapped, reread>>

(* Mutant: prepare hands over what was read, not what is shown.           *)
MutHandsOverAll(i) ==
    /\ screen = "market" /\ i \in 1..drawn
    /\ tapped' = postingArray[i]
    /\ detail' = [array |-> uploadArray, index |-> i]
    /\ screen' = "detail"
    /\ UNCHANGED <<boardVars, uploadArray, postingArray, filterSegment, fetch,
                   drawn, spinning, reread>>

(* didSelectRowAt and prepare: the detail screen gets a copy of the rows.  *)
didSelectRow(i) ==
    /\ screen = "market" /\ i \in 1..drawn
    /\ tapped' = postingArray[i]
    /\ detail' = [array |-> postingArray, index |-> i]
    /\ screen' = "detail"
    /\ UNCHANGED <<boardVars, uploadArray, postingArray, filterSegment, fetch,
                   drawn, spinning, reread>>

(* Back from the details, or from another tab: viewWillAppear.             *)
viewWillAppear ==
    /\ screen # "down" /\ fetch < MaxFetch
    /\ fetch' = fetch + 1
    /\ detail' = NoDetail /\ tapped' = NoRow
    /\ display(postingArray, OnScreen(postingArray))
    /\ UNCHANGED <<boardVars, uploadArray, postingArray, filterSegment, reread>>

Relaunch ==
    /\ screen = "down"
    /\ uploadArray' = <<>> /\ postingArray' = <<>> /\ filterSegment' = "none"
    /\ fetch' = 2 /\ screen' = "market" /\ detail' = NoDetail
    /\ drawn' = 0 /\ spinning' = TRUE /\ tapped' = NoRow /\ reread' = TRUE
    /\ UNCHANGED boardVars

(* Anybody's postings change.                                              *)
BoardStep == BoardNext /\ UNCHANGED listVars

Next ==
    \/ BoardStep
    \/ loadFireBaseData \/ LoadError
    \/ \E s \in Segments : segmentChanged(s)
    \/ Scroll \/ \E i \in 1..drawn : didSelectRow(i)
    \/ viewWillAppear \/ Relaunch

Spec == Init /\ [][Next]_vars
-----------------------------------------------------------------------------
(* The detail screen shows the posting that was tapped, and has its photo, *)
(* whatever is read, filtered, edited or deleted meanwhile.                *)
DetailIsTapped ==
    screen = "detail" =>
        /\ detail.index \in DOMAIN detail.array
        /\ detail.array[detail.index] = tapped
        /\ tapped.image # Absent

(* Until the next read the rows are those of the segment; an edit made     *)
(* meanwhile does not get in.  (After it they are all postings again.)     *)
FilterKept ==
    ~reread /\ filterSegment # "All" =>
        /\ \A i \in DOMAIN postingArray :
              Title(postingArray[i]) = filterSegment
        /\ \A i \in DOMAIN uploadArray :
              Title(uploadArray[i]) = filterSegment =>
                  \E j \in DOMAIN postingArray :
                      postingArray[j] = uploadArray[i]

(* The indicator turns over an empty list, or over one with rows below the *)
(* screen, but not over a list that is all there.                          *)
SpinnerOff ==
    screen = "market" /\ spinning =>
        postingArray = <<>> \/ Len(postingArray) > Visible
=============================================================================
