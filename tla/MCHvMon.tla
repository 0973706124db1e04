------------------------------ MODULE MCHvMon ------------------------------
(* Constants of the TLC runs of HvMon. *)
EXTENDS HvMon

NoChan    == {}
First1    == {0}
Second    == {1}
FirstTwo  == {0, 1}
LetterD   == [c \in {1} |-> 0]
LetterD3  == [c \in {2} |-> 0]
LetterDG  == [c \in {0, 1} |-> c]
NoLetter  == [c \in {} |-> 0]
=============================================================================
