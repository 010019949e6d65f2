-------------------------------- MODULE MCTabs --------------------------------
(***************************************************************************)
(* Small instances of the converter, the marketplace list and the          *)
(* information board.  They share no state, so a run is about one of them, *)
(* chosen at the start: the state spaces add.                              *)
(***************************************************************************)
EXTENDS CurrencyConverter, InfoBoard

CONSTANTS Absent, Keep, job, Users, Forms, MaxFetch         \* MarketPlace

Kinds == [f \in Forms |-> IF f = job THEN "Job" ELSE "Rental"]

VARIABLES
    tab,                                                    \* what is run
    postings, author, photos, uploadArray, postingArray,    \* MarketPlace
    filterSegment, fetch, screen, shownDetail, rowsDrawn, spinning, tapped,
    reread

Market == INSTANCE MarketPlace
    WITH TitleOf <- Kinds, board <- postings, detail <- shownDetail,
         drawn <- rowsDrawn

marketVars == <<postings, author, photos, uploadArray, postingArray,
                filterSegment, fetch, screen, shownDetail, rowsDrawn, spinning,
                tapped, reread>>
allVars == <<vars, tab, marketVars, infoVars>>

(* The list sees the form and the Image of a posting only.  One run has a  *)
(* single posting and every step of PostingBoard; one has two, tagged      *)
(* whenever they exist and with their photos stored, which are with or     *)
(* without form, Image and each other in every combination.                *)
Tagged(b) == \A d \in Docs : b[d] = Market!Nothing \/ b[d]["ref"] = d

MCInit ==
    /\ tab \in {"converter", "market", "market of two", "info"}
    /\ Init /\ InfoInit /\ Market!Opened
    /\ \/ tab # "market of two" /\ Market!BoardInit
       \/ /\ tab = "market of two"
          /\ postings = [d \in Docs |-> Market!Nothing] /\ photos = Docs
          /\ author \in [Docs -> Users]

MarketNext ==
    /\ Market!Next
    /\ tab = "market" => Cardinality({d \in Docs : author'[d] # Absent}) < 2
    /\ tab = "market of two" => Tagged(postings')

MCNext ==
    /\ \/ tab = "converter" /\ Next /\ UNCHANGED <<marketVars, infoVars>>
       \/ tab \in {"market", "market of two"} /\ MarketNext
          /\ UNCHANGED <<vars, infoVars>>
       \/ tab = "info" /\ InfoNext /\ UNCHANGED <<vars, marketVars>>
    /\ UNCHANGED tab

MCSpec == MCInit /\ [][MCNext]_allVars

(* The fairness of FairSpec: URLSession ends every data task.              *)
MCFairSpec ==
    /\ MCSpec
    /\ \A r \in 1..MaxRequests :
          WF_allVars(tab = "converter" /\ (Answered(r) \/ Failed(r))
                     /\ UNCHANGED <<tab, marketVars, infoVars>>)
-----------------------------------------------------------------------------
(* The detail screen shows the posting that was tapped (MarketPlace).      *)
DetailIsTapped == Market!DetailIsTapped

(* The rows are those of the segment until the next read (MarketPlace).    *)
FilterKept == Market!FilterKept

(* The indicator is off over a list that is all there (MarketPlace).       *)
SpinnerOff == Market!SpinnerOff
=============================================================================
