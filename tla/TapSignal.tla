----------------------------- MODULE TapSignal -----------------------------
(***************************************************************************)
(* What the player does for the C64: the READ line carries the half-waves  *)
(* that the image stands for, and the player implements the abstract tape  *)
(* deck.                                                                   *)
(***************************************************************************)
EXTENDS TapPlayer, SequencesExt

Wave == INSTANCE TapWave

\* An image is made of whole pulses.  verify_tap() looks at its header only.
ASSUME ImageAssumption ==
    \A f \in Files : f.magic \in Magics => Wave!Complete(f.version, f.data)

WaveOf == [f \in {g \in Files : g.magic \in Magics} |-> Wave!HalfWaves(f.version, f.data)]
Whole == IF file.magic \in Magics THEN WaveOf[file] ELSE <<>>

\* The READ line carries the waveform of the image and nothing else: what has
\* been sent is a prefix of it, level by level and tick by tick, however the
\* pulses were cut into compare-register values, the motor stopped and started,
\* and the handler interrupted the refills (tapuino.cpp:181-277).
SignalFaithful == Sound => IsPrefix(wave, Whole)

\* The player implements the abstract deck.
Deck == INSTANCE TapeDeck WITH
    Tapes   <- {WaveOf[f] : f \in DOMAIN WaveOf},
    deck    <- IF ~playing THEN "empty" ELSE IF pc # "idle" THEN "running" ELSE "ended",
    tape    <- Whole,
    sent    <- wave,
    excused <- cause # "",
    fault   <- ~Sound
DeckSpec == Deck!Spec
============================================================================
