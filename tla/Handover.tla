------------------------------ MODULE Handover ------------------------------
(***************************************************************************)
(* What a two-step handover of an office promises: whoever holds it names  *)
(* a nominee and may withdraw or replace the name, and the office only     *)
(* ever passes to the standing nominee, whose acceptance uses the          *)
(* nomination up.                                                          *)
(***************************************************************************)

CONSTANTS Person,  \* who may hold the office
          Nobody   \* the office is vacant / there is no nominee

VARIABLES holder, nominee

handoverVars == <<holder, nominee>>

Init == holder = Nobody /\ nominee = Nobody

\* The office is filled for the first time.
Found ==
    /\ holder = Nobody
    /\ holder' \in Person
    /\ nominee' = Nobody

\* The holder names, replaces or withdraws the nominee.
Offer ==
    /\ holder # Nobody
    /\ nominee' \in Person \cup {Nobody}
    /\ UNCHANGED holder

Take ==
    /\ nominee # Nobody
    /\ holder' = nominee
    /\ nominee' = Nobody

Next == Found \/ Offer \/ Take

Spec == Init /\ [][Next]_handoverVars

=============================================================================
