---------------------------- MODULE MCTapPlayer ----------------------------
(* Instances of TapPlayer for TLC. *)
EXTENDS TapSignal

\* The images of formats 0 and 1: longer than the ring, ending in the middle of
\* a half; short; empty; and a file that is no image.
Image(magic, version, data) == [magic |-> magic, version |-> version, data |-> data]
MCFiles01 ==
    { Image("C64-TAPE-RAW", 1, <<1, 2, 0, 1, 2, 0, 2, 1, 2, 2, 0, 0, 1, 0, 2, 1, 0, 2, 1, 1,
                                 2, 0, 0, 1, 0, 1, 2, 0, 1, 2, 0>>),
      Image("C64-TAPE-RAW", 0, <<2, 0, 1, 2, 0, 0, 1, 2, 1, 1, 2, 1, 0, 1>>),
      Image("C64-TAPE-RAW", 1, <<2, 0, 0, 1, 0>>),
      Image("C64-TAPE-RAW", 1, <<>>),
      Image("other", 0, <<1>>) }

\* Images of format 2: pairs of half-waves, short and long.
MCFiles2 ==
    { Image("C16-TAPE-RAW", 2, <<1, 2, 0, 1, 1, 0, 0, 2, 1, 0, 1, 0, 1, 2, 1, 1, 0, 1, 0, 0,
                                 1, 2, 0, 1, 1, 0, 0, 0, 2, 0, 2, 1>>),
      Image("C16-TAPE-RAW", 2, <<2, 0, 0, 0, 1>>),
      Image("other", 0, <<1>>) }

MCFiles == MCFiles01 \cup MCFiles2

\* Once all is read the player ends, even if the motor never turns again
\* (tapuino.cpp:456-466): the delay counter gets past its limit.  After an error
\* of the card the handler may take stale zeros for a pulse of length 0, whose
\* OCR1A = 0 does not advance the counter, so the claim is for a sound player.
DrainEnds == (pc = "drain" /\ Sound) ~> pc = "idle"

\* If the motor keeps turning and the user leaves the player unpaused, playing
\* the tape comes to an end (tapuino.cpp:417-491).
PlaybackEnds == <>[](~motorOff /\ ~g_is_paused) => (pc = "wait" ~> pc = "idle")

(* A claim of a comment in play_file that the code does not keep. *)

\* "wait for the remaining buffer to be read" (tapuino.cpp:455): when play_file
\* comes to its last loop without an abort, the whole image has been read.
DrainHasRest == pc = "drain" /\ cause = "" => fptr = Length

============================================================================
