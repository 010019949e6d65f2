-------------------------- MODULE CurrencyConverter --------------------------
(***************************************************************************)
(* CurrencyConverterViewController.  Opening the screen and every tap on   *)
(* Convert send a request for the rates of the currency selected at that   *)
(* moment.  Nothing numbers, cancels or orders the requests: whichever     *)
(* answer comes last fills the table, and the table does not say which     *)
(* currency its rows are for.  The table is redrawn at each change of      *)
(* results or baseRate, so these two are what the user sees.               *)
(***************************************************************************)
EXTENDS Naturals, Sequences

CONSTANTS
    Currencies,   \* the codes of the picker
    CAD,          \* the one selected at first
    Amounts,      \* texts of amountTF that are numbers
    One,          \* the amount 1.0
    Texts,        \* texts of amountTF, numbers or not
    MaxRequests   \* requests of one visit to the screen (a bound)

ASSUME ConverterAssumption ==
    /\ CAD \in Currencies /\ One \in Amounts /\ Amounts \subseteq Texts
    /\ MaxRequests \in Nat \ {0}

VARIABLES
    selectedCurrency, \* the picker
    amountTF,         \* the text field
    baseRate,         \* the amount the rows are multiplied with
    asked,            \* the requests so far, by the currency asked for
    pending,          \* those not answered yet
    results,          \* the request whose rates are shown, 0 for nil
    failed,           \* history: the requests that got no rates
    open              \* history: those open when the last one was sent

vars == <<selectedCurrency, amountTF, baseRate, asked, pending, results,
          failed, open>>

Last == Len(asked)

(* viewDidLoad of a new controller calls loadData.  The fields of the      *)
(* storyboard are empty.                                                   *)
Opened(text) ==
    /\ selectedCurrency = CAD /\ amountTF = text /\ baseRate = One
    /\ asked = <<CAD>> /\ pending = {1} /\ open = {1}
    /\ results = 0 /\ failed = {}

Init == \E text \in Texts \ Amounts : Opened(text)

(* Back and in again: a new controller.  Answers to the old one's requests *)
(* reach the old one.                                                      *)
Reopen(text) ==
    /\ selectedCurrency' = CAD /\ amountTF' = text /\ baseRate' = One
    /\ asked' = <<CAD>> /\ pending' = {1} /\ open' = {1}
    /\ results' = 0 /\ failed' = {}

didSelectRow(c) ==
    /\ selectedCurrency' = c
    /\ UNCHANGED <<amountTF, baseRate, asked, pending, results, failed, open>>

Type(text) ==
    /\ amountTF' = text
    /\ UNCHANGED <<selectedCurrency, baseRate, asked, pending, results,
                   failed, open>>

loadData ==
    /\ asked' = Append(asked, selectedCurrency)
    /\ pending' = pending \cup {Last + 1}
    /\ open' = pending'

(* Mutant: the text is taken for a number without parsing it.             *)
MutUnparsed ==
    /\ Last < MaxRequests
    /\ loadData
    /\ baseRate' = amountTF
    /\ UNCHANGED <<selectedCurrency, amountTF, results, failed>>

(* A text that is no number leaves the old amount, without a word.         *)
convertPressed ==
    /\ Last < MaxRequests
    /\ loadData
    /\ baseRate' = IF amountTF \in Amounts THEN amountTF ELSE baseRate
    /\ UNCHANGED <<selectedCurrency, amountTF, results, failed>>

(* Mutant: the last answer is dropped while another request is open.      *)
MutNewestDropped(r) ==
    /\ r \in pending
    /\ pending' = pending \ {r}
    /\ results' = IF r = Last /\ pending # {r} THEN results ELSE r
    /\ UNCHANGED <<selectedCurrency, amountTF, baseRate, asked, failed, open>>

(* Rates arrive: the closure on the main queue puts them in the table.     *)
Answered(r) ==
    /\ r \in pending
    /\ pending' = pending \ {r}
    /\ results' = r
    /\ UNCHANGED <<selectedCurrency, amountTF, baseRate, asked, failed, open>>

(* Mutant: after a failure the first rates are shown again.               *)
MutFirstAgain(r) ==
    /\ r \in pending
    /\ pending' = pending \ {r}
    /\ failed' = failed \cup {r}
    /\ results' = IF results = 0 THEN 0 ELSE 1
    /\ UNCHANGED <<selectedCurrency, amountTF, baseRate, asked, open>>

(* No data, or data that does not decode: a line in the log.               *)
Failed(r) ==
    /\ r \in pending
    /\ pending' = pending \ {r}
    /\ failed' = failed \cup {r}
    /\ UNCHANGED <<selectedCurrency, amountTF, baseRate, asked, results, open>>

Next ==
    \/ \E text \in Texts \ Amounts : Reopen(text)
    \/ \E c \in Currencies : didSelectRow(c)
    \/ \E text \in Texts : Type(text)
    \/ convertPressed
    \/ \E r \in pending : Answered(r) \/ Failed(r)

Spec == Init /\ [][Next]_vars

(* URLSession ends every data task, with data or with an error.            *)
FairSpec ==
    /\ Spec
    /\ \A r \in 1..MaxRequests : WF_vars(Answered(r) \/ Failed(r))
-----------------------------------------------------------------------------
(* Types; baseRate is always a number.                                     *)
TypeOK ==
    /\ selectedCurrency \in Currencies
    /\ amountTF \in Texts
    /\ baseRate \in Amounts
    /\ asked \in Seq(Currencies)
    /\ pending \subseteq 1..Last
    /\ results \in 0..Last
    /\ failed \subseteq 1..Last
    /\ open \subseteq 1..Last

(* Once the last request has its rates, the rows are those of the last     *)
(* request or of one that was still open when it was sent, however the     *)
(* answers overtook each other: never rates that were on the screen or     *)
(* had failed before.  In particular, a request sent when none was open    *)
(* shows its own rates.                                                    *)
RowsNotOlder ==
    Last \notin pending \cup failed => results \in open \ failed

(* A tap on Convert fills the table with rates that are not older, unless  *)
(* the request fails, Convert is tapped again or the screen is left.       *)
ConvertShows ==
    \A n \in 2..MaxRequests :
        Last = n ~> Last # n \/ results \in open \/ n \in failed

(* The inductive invariant of RowsNotOlder.                                *)
RowsInv ==
    /\ Last > 0
    /\ Last \in open
    /\ pending \subseteq open
    /\ pending \cap failed = {}
    /\ results \notin pending \cup failed
    /\ RowsNotOlder
=============================================================================
