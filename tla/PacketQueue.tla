---------------------------- MODULE PacketQueue ----------------------------
(***************************************************************************)
(* What a stream of packets promises its two ends: packets come out whole, *)
(* once each, in the order in which they were put in.                      *)
(***************************************************************************)
EXTENDS Naturals, Sequences

VARIABLES queue, taken

qvars == <<queue, taken>>

Init == queue \in Seq(Nat) /\ taken = <<>>

Put == /\ \E id \in {Len(queue) + Len(taken) + 1} : queue' = Append(queue, id)
       /\ UNCHANGED taken

Take == /\ queue # <<>>
        /\ taken' = Append(taken, Head(queue))
        /\ queue' = Tail(queue)

Next == Put \/ Take

Spec == Init /\ [][Next]_qvars
=============================================================================
