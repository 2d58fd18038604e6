------------------------------ MODULE Channel ------------------------------
(***************************************************************************)
(* What a channel between two contexts promises: items arrive in the order *)
(* in which they were put, each once, and at most Capacity of them are     *)
(* under way.  A channel that is broken promises nothing any more.         *)
(***************************************************************************)
EXTENDS Sequences, Naturals

CONSTANT Capacity

VARIABLES
    put, got,    \* all items put, all items got
    broken       \* why the channel may fail has happened

vars == <<put, got, broken>>

Init == put = <<>> /\ got = <<>> /\ ~broken

Put ==
    /\ Len(put) - Len(got) < Capacity
    /\ Len(put') = Len(put) + 1 /\ SubSeq(put', 1, Len(put)) = put
    /\ UNCHANGED got

Get ==
    /\ Len(got) < Len(put)
    /\ got' = Append(got, put[Len(got) + 1])
    /\ UNCHANGED put

Next == (~broken' /\ UNCHANGED broken /\ (Put \/ Get)) \/ broken'

Spec == Init /\ [][Next]_vars
=============================================================================
