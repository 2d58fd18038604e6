----------------------------- MODULE TapeDeck ------------------------------
(***************************************************************************)
(* What a tape deck promises the C64: the half-waves of the tape it was    *)
(* given, each once and in order, and it does not stop before the last one *)
(* unless it has an excuse (the user stopped it, or it stood still for too *)
(* long).  After a fault (the image cannot be read) nothing is promised.   *)
(***************************************************************************)
EXTENDS Sequences, Naturals

CONSTANT Tapes        \* the tapes one may insert: sequences of half-waves

VARIABLES deck,       \* "empty", "running" or "ended"
          tape, sent, \* the half-waves of the tape, and those sent so far
          excused, fault

vars == <<deck, tape, sent, excused, fault>>

Init == deck = "empty" /\ tape = <<>> /\ sent = <<>> /\ excused = FALSE /\ fault = FALSE

Insert ==
    /\ deck = "empty" /\ deck' = "running"
    /\ tape' \in Tapes /\ fault' \in BOOLEAN
    /\ UNCHANGED <<sent, excused>>

Reject ==
    /\ deck = "empty" /\ deck' = "ended" /\ fault' \in BOOLEAN
    /\ UNCHANGED <<tape, sent, excused>>

\* The next half-wave of the tape; after a fault, any.
Send ==
    /\ deck = "running"
    /\ Len(sent') = Len(sent) + 1
    /\ SubSeq(sent', 1, Len(sent)) = sent
    /\ fault \/ (Len(sent) < Len(tape) /\ sent'[Len(sent) + 1] = tape[Len(sent) + 1])
    /\ UNCHANGED <<deck, tape, excused, fault>>

\* An excuse and a fault, once there, stay.
Trouble ==
    /\ deck = "running" /\ excused' \in {excused, TRUE} /\ fault' \in {fault, TRUE}
    /\ UNCHANGED <<deck, tape, sent>>

Finish ==
    /\ deck = "running" /\ deck' = "ended"
    /\ sent = tape \/ excused \/ fault
    /\ UNCHANGED <<tape, sent, excused, fault>>

Next == Insert \/ Reject \/ Send \/ Trouble \/ Finish

Spec == Init /\ [][Next]_vars
============================================================================
