----------------------------- MODULE CallOrder -----------------------------
(***************************************************************************)
(* What crl::queue and crl::object_on_queue promise to those who use them: *)
(* calls are made one at a time, in the order they were accepted, each     *)
(* once, and every accepted call is made.                                  *)
(***************************************************************************)
EXTENDS Sequences, Naturals

CONSTANT Calls

VARIABLES
    asked,     \* the calls accepted so far, in order
    running,   \* the calls being made now
    ran        \* the calls that were made, in order

vars == <<asked, running, ran>>

Init == asked = <<>> /\ running = {} /\ ran = <<>>

Ask(call) ==
    /\ asked' = Append(asked, call)
    /\ UNCHANGED <<running, ran>>

Begin ==
    /\ running = {} /\ Len(ran) < Len(asked)
    /\ running' = {asked[Len(ran) + 1]}
    /\ UNCHANGED <<asked, ran>>

End ==
    /\ running # {}
    /\ running' = {}
    /\ ran' = Append(ran, asked[Len(ran) + 1])
    /\ UNCHANGED asked

Next == Begin \/ End \/ \E call \in Calls : Ask(call)

Spec == Init /\ [][Next]_vars

FairSpec == Spec /\ WF_vars(Begin \/ End)
=============================================================================
