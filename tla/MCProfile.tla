------------------------------ MODULE MCProfile ------------------------------
(***************************************************************************)
(* Small instances of Profile.                                             *)
(***************************************************************************)
EXTENDS Profile

CONSTANTS a1, a2

(* The sign-up document of a2 comes after the document named after it.     *)
OneEach == [a \in Accounts |-> IF a = a2 THEN "signup" ELSE "own"]
OwnLast == [a \in Accounts |-> "own"]
SignUpLast == [a \in Accounts |-> "signup"]
=============================================================================
