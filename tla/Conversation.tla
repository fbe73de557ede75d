----------------------------- MODULE Conversation -----------------------------
(***************************************************************************)
(* What the reliable_test pair promises its user: a strictly alternating   *)
(* conversation.  The client asks once, the server answers once, the       *)
(* client shows the answer before it asks again, and no question stays     *)
(* unanswered.                                                             *)
(***************************************************************************)
EXTENDS Naturals

VARIABLES
    asked,     \* lines the client has sent
    answered,  \* replies the server has sent
    printed    \* replies the client has shown

vars == <<asked, answered, printed>>

Init == asked = 0 /\ answered = 0 /\ printed = 0

Ask    == asked = printed    /\ asked' = asked + 1       /\ UNCHANGED <<answered, printed>>
Answer == answered < asked   /\ answered' = answered + 1 /\ UNCHANGED <<asked, printed>>
Show   == printed < answered /\ printed' = printed + 1   /\ UNCHANGED <<asked, answered>>

Next == Ask \/ Answer \/ Show

Spec == Init /\ [][Next]_vars /\ WF_vars(Answer) /\ WF_vars(Show)

=============================================================================
