------------------------------ MODULE MCLnFill ------------------------------
(* Constants of the TLC runs of LnFill. *)
EXTENDS LnFill, TLC

TwoTicks == [d \in Dets |-> 2]
OneTick  == [d \in Dets |-> 1]
OneTwo   == [d \in Dets |-> d + 1]
AllOn    == Dets
AllFirst == {-1}
Fresh    == {0}
Either   == {-1, 0}
NoTicks  == [d \in Dets |-> 0]
NoneOn   == {}
AnyOrder == Permutations(Readers)
=============================================================================
