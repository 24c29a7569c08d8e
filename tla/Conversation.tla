---------------------------- MODULE Conversation ----------------------------
(***************************************************************************)
(* What the API promises the user of one contract, whatever tasks, events  *)
(* and transactions carry it: a conversation in turns.  The user speaks    *)
(* once to begin; from then on the system works until it either asks back  *)
(* or closes.  It closes as "complete" only with a document on the table   *)
(* or on the user's own refusal, and nothing is put on the table after a   *)
(* refusal.                                                                *)
(***************************************************************************)
EXTENDS Naturals

CONSTANT MaxQuestions   \* how often the system may ask back

VARIABLES
    turn,       \* whose turn it is: "nobody" before, "over" after
    answered,   \* how often the user has answered
    decision,   \* on drafting from model knowledge: "none", "granted", "declined"
    document,   \* on the table: "none", a "draft" or the "final" document
    told        \* how the system closed: "nothing" while it has not

talk == <<turn, answered, decision, document, told>>

Init ==
    /\ turn = "nobody"
    /\ answered = 0
    /\ decision = "none"
    /\ document = "none"
    /\ told = "nothing"

Begin ==
    /\ turn = "nobody"
    /\ turn' = "system"
    /\ UNCHANGED <<answered, decision, document, told>>

Answer ==
    /\ turn = "user"
    /\ answered < MaxQuestions
    /\ answered' = answered + 1
    /\ turn' = "system"
    /\ UNCHANGED <<decision, document, told>>

AskBack ==
    /\ turn = "system"
    /\ decision # "declined"
    /\ document = "none"
    /\ turn' = "user"
    /\ UNCHANGED <<answered, decision, document, told>>

\* The system takes down what the user said about drafting unbacked.
TakeDown ==
    /\ turn = "system"
    /\ document = "none"
    /\ decision # "declined"
    /\ decision' \in {"granted", "declined"}
    /\ UNCHANGED <<turn, answered, document, told>>

Publish ==
    /\ turn = "system"
    /\ decision # "declined"
    /\ document = "none"
    /\ document' \in {"draft", "final"}
    /\ UNCHANGED <<turn, answered, decision, told>>

Close ==
    /\ turn = "system"
    /\ turn' = "over"
    /\ told' \in {"complete", "error"}
    /\ told' = "complete" => document # "none" \/ decision = "declined"
    /\ UNCHANGED <<answered, decision, document>>

\* The system can die without a word.
Vanish ==
    /\ turn = "system"
    /\ turn' = "over"
    /\ UNCHANGED <<answered, decision, document, told>>

Next == Begin \/ Answer \/ AskBack \/ TakeDown \/ Publish \/ Close \/ Vanish

Spec == Init /\ [][Next]_talk /\ WF_talk(AskBack \/ Close \/ Vanish)
=============================================================================
