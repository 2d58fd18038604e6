------------------------------ MODULE TapWave ------------------------------
(***************************************************************************)
(* The reference reading of a TAP image: the half-waves it stands for, one *)
(* record [level, ticks] each, independent of how they are buffered and    *)
(* of how the compare register is reloaded.                                *)
(***************************************************************************)
EXTENDS Integers, Sequences

CONSTANTS ByteRadix, MultNum, MultDen, InvertSignal

\* Cycles of the CPU as ticks of the multiplier.
Scaled(n) == (n * MultNum) \div MultDen

\* What stands for a count of cycles that the end of the image cuts off.
Truncated == -1

\* The pulses from position p on, where later[q] are those from a later position
\* q: a byte counts eight cycles, a zero byte announces a 24-bit count of cycles,
\* or in format 0 stands for the count one above the largest byte.
PulsesAt(version, data, p, later) ==
    IF p > Len(data) THEN <<>>
    ELSE IF data[p] # 0 THEN <<Scaled(8 * data[p])>> \o later[p + 1]
    ELSE IF version = 0 THEN <<Scaled(8 * ByteRadix)>> \o later[p + 1]
    ELSE IF p + 3 > Len(data) THEN <<Truncated>>
    ELSE <<Scaled(data[p + 1] + ByteRadix * (data[p + 2] + ByteRadix * data[p + 3]))>>
         \o later[p + 4]
PulsesFrom(version, data) ==
    LET from[p \in 1..Len(data) + 1] == PulsesAt(version, data, p, from) IN from
Pulses(version, data) == PulsesFrom(version, data)[1]

\* Each pulse of formats 0 and 1 is a symmetric wave of two halves; a pulse of
\* format 2 is one half, of twice its length in ticks.
First  == IF InvertSignal THEN "high" ELSE "low"
Second == IF InvertSignal THEN "low" ELSE "high"
Waves(version, pulses) ==
    [k \in 1..(IF version = 2 THEN Len(pulses) ELSE 2 * Len(pulses)) |->
        [level |-> IF k % 2 = 1 THEN First ELSE Second,
         ticks |-> IF version = 2 THEN 2 * pulses[k] ELSE pulses[(k + 1) \div 2]]]
HalfWaves(version, data) == Waves(version, Pulses(version, data))

\* An image that does not end in the middle of a pulse or of a wave.
Complete(version, data) ==
    /\ \A k \in DOMAIN Pulses(version, data) : Pulses(version, data)[k] # Truncated
    /\ version = 2 => Len(Pulses(version, data)) % 2 = 0
============================================================================
