---------------------------- MODULE MCPackWorker ----------------------------
(* The pack helper, and the byte loops that it and its caller run, checked  *)
(* for every small tile and every split between the two.                    *)
EXTENDS PackWorker, Integers

Pack == INSTANCE Q8Pack WITH SizeMax <- 4095, OffsetMax <- 1023

ASSUME WeightsPacked ==
    \A rows \in 1..5, blocks \in 1..3 : \A split \in 0..(rows + 1) \div 2 :
        Pack!WeightsFollowLayout(rows, blocks, split)

ASSUME ScalesPacked ==
    \A base \in 0..1, rows \in 1..5, blocks \in 1..4, wide \in BOOLEAN :
        \A split \in 0..(rows + 1) \div 2 :
            Pack!ScalesFollowLayout(base, rows, blocks, wide, split)

\* At the limits of the address arithmetic an offset is refused, never wrapped.
ASSUME OffsetsBounded ==
    \A base \in {0, 512, 1000}, rows \in 0..5, beats \in 0..8, row \in -1..6, beat \in -1..8 :
        LET off == Pack!word_offset(base, rows, beats, row, beat)
        IN  off # Pack!Refused =>
              /\ off \in base..1023
              /\ row \in 0..Pack!PayloadRows(rows) - 1 /\ beat \in 0..beats - 1
=============================================================================
