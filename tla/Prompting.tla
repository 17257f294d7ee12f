------------------------------ MODULE Prompting ------------------------------
(***************************************************************************)
(* What PAM may expect of the application that it asks: every question is  *)
(* answered as it was meant, once, or the application gives up.            *)
(***************************************************************************)
CONSTANTS
    Questions,      \* what PAM may ask for
    Answers         \* the answers a question may get

VARIABLES
    question,       \* what PAM waits for, "none" while it does not
    answer          \* what it was told last

Init == question = "none" /\ answer = "none"

Ask ==
    /\ question = "none"
    /\ question' \in Questions
    /\ answer' = "none"

Tell ==
    /\ question # "none"
    /\ answer' \in Answers[question]
    /\ question' = "none"

GiveUp ==
    /\ question # "none"
    /\ answer' = "error"
    /\ question' = "none"

Next == Ask \/ Tell \/ GiveUp

Spec == Init /\ [][Next]_<<question, answer>>
=============================================================================
