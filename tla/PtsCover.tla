------------------------------ MODULE PtsCover ------------------------------
(***************************************************************************)
(* Which values of a pts counter a set of updates accounts for.  An update *)
(* stands for the "count" values that end in its pts; the count a          *)
(* PtsWaiter keeps is compared with how many values lie above the counter. *)
(***************************************************************************)
EXTENDS Integers, FiniteSets

(* The values of the counter that u stands for.                            *)
Points(u) == (u.pts - u.count + 1) .. u.pts

(* The values above a and up to b that the updates of S stand for.         *)
CoveredBy(S, a, b) == {p \in (a + 1) .. b : \E u \in S : p \in Points(u)}

(* No update of L has p strictly inside of its points.                     *)
Uncut(L, p) == \A u \in L : u.pts <= p \/ p <= u.pts - u.count

(* The log of a server: every pts in it is uncut, and the updates that     *)
(* count are told apart by their pts.                                      *)
Tiled(L) ==
    /\ \A u \in L : u.pts \in Nat /\ u.count \in Nat /\ Uncut(L, u.pts)
    /\ \A u, v \in L : u.count > 0 /\ v.count > 0 /\ u.pts = v.pts => u = v

=============================================================================
