-------------------------- MODULE TapSignalProofs --------------------------
(***************************************************************************)
(* Theorems about TapSignal, for every image made of whole pulses, every   *)
(* size of the buffer and every multiplier: what the READ line carries is  *)
(* the waveform of the image, and the player implements the tape deck.     *)
(***************************************************************************)
EXTENDS TapSignal, TapPlayerProofs, NumberLemmas, SequenceTheorems

HalfWave == [level : Levels, ticks : Nat]
Begun(l, t) == [level |-> l, ticks |-> t]

\* The pulses of the image that the handler has yet to take.
Left == Wave!PulsesFrom(file.version, file.data)[g_tap_file_pos + 1]

\* The half-waves of the signal that the handler is sending.
Pending ==
    IF g_signal_2nd_half THEN <<Begun(SecondLevel, halfTicks + g_pulse_length)>>
    ELSE IF g_pulse_length > 0
    THEN <<Begun(FirstLevel, halfTicks + g_pulse_length), Begun(SecondLevel, g_pulse_length_save)>>
    ELSE <<>>

\* Between two signals.
AtRest == ~g_signal_2nd_half /\ g_pulse_length = 0

\* Where the handler is in the tape, and what it has left to take there.
PositionInv ==
    /\ file.magic \in Magics
    /\ g_tap_file_pos \in 0..Length
    /\ Left \in Seq(Nat)
    /\ file.version = 2 => Len(Left) % 2 = 0

\* What has been sent, is being sent and has yet to be taken is the whole image.
SplitInv == wave \o (Pending \o Wave!Waves(file.version, Left)) = Whole

\* What the history of a half-wave and the level say of the handler's variables.
HalfInv ==
    /\ AtRest => halfTicks = 0
    /\ ~g_signal_2nd_half /\ g_pulse_length > 0 => level = FirstLevel

\* The handler reports the end of the tape when there is nothing left.
EndInv == g_tap_file_complete /\ cause = "" => AtRest /\ g_tap_file_pos = Length

\* Before PLAY is pressed, and when the loops have been left.
IdleInv ==
    /\ ~playing => wave = <<>> /\ AtRest /\ halfTicks = 0 /\ cause = "" /\ file.magic \notin Magics
    /\ pc = "stop" => g_tap_file_complete \/ cause # ""

TapeInv == PositionInv /\ SplitInv /\ HalfInv /\ EndInv

WaveInv ==
    /\ wave \in Seq(HalfWave)
    /\ Sound /\ timerOn => TapeInv
    /\ SignalFaithful
    /\ IdleInv

----------------------------------------------------------------------------
(* The pulses of an image. *)

\* The pulses from a position depend on those from later positions only.
LEMMA PulsesLocal ==
    ASSUME NEW v, NEW d, Len(d) \in Nat, NEW p \in 1..Len(d) + 1, NEW f, NEW g,
           \A q \in 1..Len(d) + 1 : q > p => f[q] = g[q]
    PROVE  Wave!PulsesAt(v, d, p, f) = Wave!PulsesAt(v, d, p, g)
<1>1. p <= Len(d) => f[p + 1] = g[p + 1]
  OBVIOUS
<1>2. ~(p + 3 > Len(d)) => f[p + 4] = g[p + 4]
  OBVIOUS
<1>3. p > Len(d) \/ p <= Len(d)
  OBVIOUS
<1>4. CASE p > Len(d)
  BY <1>4 DEF Wave!PulsesAt
<1>5. CASE ~(p > Len(d))
  <2>1. f[p + 1] = g[p + 1]
    BY <1>1, <1>3, <1>5
  <2> HIDE <1>1, <1>3
  <2> QED
    BY <1>2, <1>5, <2>1, Zenon DEF Wave!PulsesAt
<1> QED
  BY <1>4, <1>5

\* So the function that PulsesFrom chooses exists: it is built from the end of
\* the image, one position at a time.
PulsesOf(v, d, f) ==
    \A p \in 1..Len(d) + 1 : f[p] = Wave!PulsesAt(v, d, p, f)
PulsesUpTo(v, d, n, f) ==
    \A p \in 1..Len(d) + 1 : p + n > Len(d) => f[p] = Wave!PulsesAt(v, d, p, f)

LEMMA PulsesExist ==
    ASSUME NEW v, NEW d, Len(d) \in Nat
    PROVE  \E f : PulsesOf(v, d, f)
<1> DEFINE S == {n \in Nat : \E f : PulsesUpTo(v, d, n, f)}
<1>1. 0 \in S
  <2>1. PICK f : f = [p \in 1..Len(d) + 1 |-> <<>>]
    OBVIOUS
  <2>2. ASSUME NEW p \in 1..Len(d) + 1, p + 0 > Len(d)
        PROVE  f[p] = Wave!PulsesAt(v, d, p, f)
    BY <2>1, <2>2 DEF Wave!PulsesAt
  <2> QED
    BY <2>2 DEF PulsesUpTo
<1>2. ASSUME NEW n \in Nat, n \in S PROVE n + 1 \in S
  <2>1. PICK f : PulsesUpTo(v, d, n, f)
    BY <1>2
  <2>2. PICK g : g = [p \in 1..Len(d) + 1 |->
                        IF p + n > Len(d) THEN f[p] ELSE Wave!PulsesAt(v, d, p, f)]
    OBVIOUS
  <2>3. ASSUME NEW p \in 1..Len(d) + 1, p + (n + 1) > Len(d)
        PROVE  g[p] = Wave!PulsesAt(v, d, p, g)
    <3>1. ASSUME NEW q \in 1..Len(d) + 1, q > p PROVE f[q] = g[q]
      <4>1. q + n > Len(d)
        BY <2>3, <3>1
      <4> QED
        BY <2>2, <4>1
    <3>2. Wave!PulsesAt(v, d, p, f) = Wave!PulsesAt(v, d, p, g)
      BY <3>1, PulsesLocal
    <3>3. p + n > Len(d) => f[p] = Wave!PulsesAt(v, d, p, f)
      BY <2>1 DEF PulsesUpTo
    <3>4. g[p] = Wave!PulsesAt(v, d, p, f)
      BY <2>2, <3>3, Zenon
    <3> QED
      BY <3>2, <3>4
  <2>4. PulsesUpTo(v, d, n + 1, g)
    BY <2>3 DEF PulsesUpTo
  <2> QED
    BY <2>4
<1>3. Nat \subseteq S
  <2> HIDE DEF S
  <2> QED
    BY ONLY <1>1, <1>2, Induction
<1>4. PICK f : PulsesUpTo(v, d, Len(d), f)
  BY <1>3
<1>5. ASSUME NEW p \in 1..Len(d) + 1 PROVE f[p] = Wave!PulsesAt(v, d, p, f)
  <2>1. p + Len(d) > Len(d)
    OBVIOUS
  <2> QED
    BY <1>4, <2>1 DEF PulsesUpTo
<1> QED
  BY <1>5 DEF PulsesOf

LEMMA PulsesFromIs ==
    ASSUME NEW v, NEW d, Len(d) \in Nat
    PROVE  PulsesOf(v, d, Wave!PulsesFrom(v, d))
<1> DEFINE Is(h) == h = [p \in 1..Len(d) + 1 |-> Wave!PulsesAt(v, d, p, h)]
<1>1. PICK f : PulsesOf(v, d, f)
  BY PulsesExist
<1>2. PICK g : g = [p \in 1..Len(d) + 1 |-> f[p]]
  OBVIOUS
<1>3. ASSUME NEW p \in 1..Len(d) + 1 PROVE f[p] = Wave!PulsesAt(v, d, p, g)
  <2>1. \A q \in 1..Len(d) + 1 : q > p => f[q] = g[q]
    BY <1>2
  <2>2. Wave!PulsesAt(v, d, p, f) = Wave!PulsesAt(v, d, p, g)
    BY <2>1, PulsesLocal
  <2> QED
    BY <1>1, <2>2 DEF PulsesOf
<1>4. Is(g)
  BY <1>2, <1>3, Zenon
<1>5. Wave!PulsesFrom(v, d) = CHOOSE h : Is(h)
  BY DEF Wave!PulsesFrom
<1>6. Is(Wave!PulsesFrom(v, d))
  BY ONLY <1>4, <1>5
<1>7. PICK h : h = Wave!PulsesFrom(v, d) /\ Is(h)
  BY <1>6
<1>8. PulsesOf(v, d, h)
  BY <1>7 DEF PulsesOf
<1> QED
  BY <1>7, <1>8

\* They are lengths, or the mark of a pulse that the image cuts off.
Lengths == Nat \cup {Wave!Truncated}

LEMMA ScaledNat == ASSUME NEW n \in Nat PROVE Wave!Scaled(n) \in Nat
<1>1. MultNum \in Nat /\ MultDen \in Nat \ {0}
  BY TimerAssumption
<1>2. n * MultNum \in Nat
  BY <1>1
<1> QED
  BY <1>1, <1>2, DivNat DEF Wave!Scaled

LEMMA Prepend ==
    ASSUME NEW S, NEW x \in S, NEW s \in Seq(S)
    PROVE  /\ <<x>> \in Seq(S) /\ <<x>> \o s \in Seq(S)
           /\ Len(<<x>> \o s) = Len(s) + 1 /\ (<<x>> \o s)[1] = x
           /\ \A i \in 1..Len(s) : (<<x>> \o s)[i + 1] = s[i]
  OBVIOUS

LEMMA PulsesTyped ==
    ASSUME NEW v, NEW d \in Seq(Nat)
    PROVE  \A p \in 1..Len(d) + 1 : Wave!PulsesFrom(v, d)[p] \in Seq(Lengths)
<1>0. Len(d) \in Nat /\ ByteRadix \in Nat /\ Nat \subseteq Lengths /\ Wave!Truncated \in Lengths
  BY SizeAssumption DEF Lengths
<1>1. PICK f : f = Wave!PulsesFrom(v, d)
  OBVIOUS
<1>2. PulsesOf(v, d, f)
  BY <1>0, <1>1, PulsesFromIs
<1> DEFINE S == {n \in Nat : \A p \in 1..Len(d) + 1 : p + n > Len(d) => f[p] \in Seq(Lengths)}
<1>3. 0 \in S
  <2>1. ASSUME NEW p \in 1..Len(d) + 1, p + 0 > Len(d) PROVE f[p] \in Seq(Lengths)
    <3>1. p > Len(d)
      BY <1>0, <2>1
    <3>2. f[p] = <<>>
      BY <1>2, <3>1 DEF PulsesOf, Wave!PulsesAt
    <3> QED
      BY <3>2
  <2> QED
    BY <2>1
<1>4. ASSUME NEW n \in Nat, n \in S PROVE n + 1 \in S
  <2>1. ASSUME NEW p \in 1..Len(d) + 1, p + (n + 1) > Len(d), p <= Len(d)
        PROVE  f[p] \in Seq(Lengths)
    <3>1. f[p] = Wave!PulsesAt(v, d, p, f) /\ ~(p > Len(d))
      BY <1>0, <1>2, <2>1 DEF PulsesOf
    <3>2. f[p + 1] \in Seq(Lengths)
      BY <1>0, <1>4, <2>1
    <3>3. ~(p + 3 > Len(d)) => f[p + 4] \in Seq(Lengths)
      BY <1>0, <1>4, <2>1
    <3>4. /\ Wave!Scaled(8 * d[p]) \in Lengths
          /\ Wave!Scaled(8 * ByteRadix) \in Lengths
      <4>1. 8 * d[p] \in Nat /\ 8 * ByteRadix \in Nat
        BY <1>0, <2>1
      <4> QED
        BY ONLY <1>0, <4>1, ScaledNat
    <3>5. ~(p + 3 > Len(d)) =>
             Wave!Scaled(d[p + 1] + ByteRadix * (d[p + 2] + ByteRadix * d[p + 3])) \in Lengths
      <4> SUFFICES ASSUME ~(p + 3 > Len(d))
                   PROVE  Wave!Scaled(d[p + 1] + ByteRadix * (d[p + 2] + ByteRadix * d[p + 3]))
                            \in Lengths
        OBVIOUS
      <4>1. d[p + 1] \in Nat /\ d[p + 2] \in Nat /\ d[p + 3] \in Nat
        BY <1>0, <2>1
      <4>2. \A a, b, r \in Nat : a + r * b \in Nat
        OBVIOUS
      <4>3. d[p + 1] + ByteRadix * (d[p + 2] + ByteRadix * d[p + 3]) \in Nat
        BY ONLY <1>0, <4>1, <4>2, Zenon
      <4> QED
        BY <1>0, <4>3, ScaledNat
    <3>6. /\ <<Wave!Scaled(8 * d[p])>> \o f[p + 1] \in Seq(Lengths)
          /\ <<Wave!Scaled(8 * ByteRadix)>> \o f[p + 1] \in Seq(Lengths)
          /\ <<Wave!Truncated>> \in Seq(Lengths)
      <4>1. <<>> \in Seq(Lengths)
        OBVIOUS
      <4> QED
        BY <1>0, <3>2, <3>4, <4>1, Prepend
    <3>7. ~(p + 3 > Len(d)) =>
             <<Wave!Scaled(d[p + 1] + ByteRadix * (d[p + 2] + ByteRadix * d[p + 3]))>> \o f[p + 4]
               \in Seq(Lengths)
      BY <3>3, <3>5, Prepend
    <3> QED
      BY ONLY <3>1, <3>6, <3>7, Zenon DEF Wave!PulsesAt
  <2>2. ASSUME NEW p \in 1..Len(d) + 1, p > Len(d) PROVE f[p] \in Seq(Lengths)
    <3>1. f[p] = <<>>
      BY <1>2, <2>2 DEF PulsesOf, Wave!PulsesAt
    <3> QED
      BY <3>1
  <2>3. ASSUME NEW p \in 1..Len(d) + 1, p + (n + 1) > Len(d) PROVE f[p] \in Seq(Lengths)
    <3>1. p <= Len(d) \/ p > Len(d)
      BY <1>0
    <3> QED
      BY <2>1, <2>2, <2>3, <3>1
  <2> QED
    BY <2>3
<1>5. Nat \subseteq S
  <2> HIDE DEF S
  <2> QED
    BY ONLY <1>3, <1>4, Induction
<1>6. Len(d) \in S
  BY <1>0, <1>5
<1>7. ASSUME NEW p \in 1..Len(d) + 1 PROVE f[p] \in Seq(Lengths)
  <2>1. p + Len(d) > Len(d)
    BY <1>0
  <2> QED
    BY <1>6, <2>1
<1> QED
  BY <1>1, <1>7

----------------------------------------------------------------------------
(* The half-waves of a sequence of pulses.                                 *)

LEMMA LevelNames == Wave!First = FirstLevel /\ Wave!Second = SecondLevel /\ {FirstLevel, SecondLevel} \subseteq Levels
  BY DEF Wave!First, Wave!Second, FirstLevel, SecondLevel, IdleLevel, Levels

LEMMA WavesNone == ASSUME NEW v PROVE Wave!Waves(v, <<>>) = <<>>
  BY DEF Wave!Waves

\* How many there are, and which is at a place.
WaveAt(v, s, k) ==
    Begun(IF k % 2 = 1 THEN FirstLevel ELSE SecondLevel,
          IF v = 2 THEN 2 * s[k] ELSE s[(k + 1) \div 2])

LEMMA WavesAre ==
    ASSUME NEW v, NEW s \in Seq(Nat)
    PROVE  /\ Wave!Waves(v, s) \in Seq(HalfWave)
           /\ Len(Wave!Waves(v, s)) = IF v = 2 THEN Len(s) ELSE 2 * Len(s)
           /\ \A k \in 1..Len(Wave!Waves(v, s)) : Wave!Waves(v, s)[k] = WaveAt(v, s, k)
<1>1. PICK n \in Nat : n = IF v = 2 THEN Len(s) ELSE 2 * Len(s)
  OBVIOUS
<1>2. Wave!Waves(v, s) = [k \in 1..n |-> WaveAt(v, s, k)]
  BY <1>1, LevelNames, Zenon DEF Wave!Waves, WaveAt, Begun
<1>3. ASSUME NEW k \in 1..n PROVE WaveAt(v, s, k) \in HalfWave
  <2>1. v # 2 => (k + 1) \div 2 \in 1..Len(s)
    BY <1>1
  <2>2. PICK t \in Nat : t = IF v = 2 THEN 2 * s[k] ELSE s[(k + 1) \div 2]
    BY <1>1, <2>1
  <2>3. PICK l \in Levels : l = IF k % 2 = 1 THEN FirstLevel ELSE SecondLevel
    BY LevelNames
  <2>4. WaveAt(v, s, k) = [level |-> l, ticks |-> t]
    BY <2>2, <2>3, Zenon DEF WaveAt, Begun
  <2> QED
    BY ONLY <2>4, l \in Levels, t \in Nat DEF HalfWave
<1>4. PICK w : w = [k \in 1..n |-> WaveAt(v, s, k)]
  OBVIOUS
<1>5. w \in Seq(HalfWave) /\ Len(w) = n /\ \A k \in 1..n : w[k] = WaveAt(v, s, k)
  BY <1>3, <1>4
<1> QED
  BY ONLY <1>1, <1>2, <1>4, <1>5, Zenon

LEMMA BegunTyped ==
    ASSUME NEW t \in Nat
    PROVE  Begun(FirstLevel, t) \in HalfWave /\ Begun(SecondLevel, t) \in HalfWave
<1>1. ASSUME NEW l \in Levels PROVE [level |-> l, ticks |-> t] \in [level : Levels, ticks : Nat]
  OBVIOUS
<1>2. FirstLevel \in Levels /\ SecondLevel \in Levels
  BY LevelNames
<1> QED
  BY ONLY <1>1, <1>2, Zenon DEF Begun, HalfWave

\* A sequence of half-waves that starts with two of them and goes on as another.
Follows(a, b, w, u) ==
    /\ Len(u) = Len(w) + 2 /\ u[1] = a /\ u[2] = b
    /\ \A j \in 1..Len(w) : u[j + 2] = w[j]

LEMMA AfterPair ==
    ASSUME NEW a \in HalfWave, NEW b \in HalfWave,
           NEW w \in Seq(HalfWave), NEW u \in Seq(HalfWave),
           Follows(a, b, w, u)
    PROVE  u = <<a, b>> \o w
<1> USE DEF Follows
<1>1. PICK p \in Seq(HalfWave) : p = <<a, b>> /\ Len(p) = 2 /\ p[1] = a /\ p[2] = b
  <2>1. <<a, b>> \in Seq(HalfWave) /\ Len(<<a, b>>) = 2 /\ <<a, b>>[1] = a /\ <<a, b>>[2] = b
    OBVIOUS
  <2> QED
    BY ONLY <2>1, Zenon
<1>2. PICK q \in Seq(HalfWave) : q = p \o w
  BY <1>1
<1>3. Len(q) = Len(w) + 2
  BY <1>1, <1>2
<1>4. ASSUME NEW k \in 1..Len(u) PROVE u[k] = q[k]
  <2>1. CASE k = 1
    <3>1. q[1] = p[1]
      BY <1>1, <1>2
    <3> QED
      BY <1>1, <2>1, <3>1
  <2>2. CASE k = 2
    <3>1. q[2] = p[2]
      BY <1>1, <1>2
    <3> QED
      BY <1>1, <2>2, <3>1
  <2>3. CASE k > 2
    <3>1. PICK j \in Int : j = k - 2
      OBVIOUS
    <3>2. j \in 1..Len(w) /\ k = j + 2
      BY <2>3, <3>1
    <3>3. q[j + 2] = w[j]
      BY <1>1, <1>2, <3>2
    <3> QED
      BY <3>2, <3>3
  <2> QED
    BY <2>1, <2>2, <2>3
<1>5. u = q
  BY <1>3, <1>4, SeqEqual
<1> QED
  BY ONLY <1>1, <1>2, <1>5

\* In formats 0 and 1 a pulse stands for two half-waves.
LEMMA WavesOfPulse ==
    ASSUME NEW v, v # 2, NEW x \in Nat, NEW s \in Seq(Nat)
    PROVE  Wave!Waves(v, <<x>> \o s)
             = <<Begun(FirstLevel, x), Begun(SecondLevel, x)>> \o Wave!Waves(v, s)
<1>1. PICK t \in Seq(Nat) : t = <<x>> \o s
  BY Prepend
<1>2. Len(t) = Len(s) + 1 /\ t[1] = x /\ \A i \in 1..Len(s) : t[i + 1] = s[i]
  BY <1>1, Prepend
<1>3. PICK w \in Seq(HalfWave) :
         /\ w = Wave!Waves(v, s) /\ Len(w) = 2 * Len(s)
         /\ \A k \in 1..Len(w) : w[k] = WaveAt(v, s, k)
  BY WavesAre
<1>4. PICK u \in Seq(HalfWave) :
         /\ u = Wave!Waves(v, t) /\ Len(u) = 2 * Len(t)
         /\ \A k \in 1..Len(u) : u[k] = WaveAt(v, t, k)
  BY WavesAre
<1>5. Len(u) = Len(w) + 2
  BY <1>2, <1>3, <1>4
<1>6. u[1] = Begun(FirstLevel, x) /\ u[2] = Begun(SecondLevel, x)
  <2>1. u[1] = WaveAt(v, t, 1) /\ u[2] = WaveAt(v, t, 2)
    BY <1>4, <1>5
  <2>2. 1 % 2 = 1 /\ 2 % 2 # 1 /\ (1 + 1) \div 2 = 1 /\ (2 + 1) \div 2 = 1
    OBVIOUS
  <2> QED
    BY ONLY <1>2, <2>1, <2>2, v # 2, Zenon DEF WaveAt
<1>7. ASSUME NEW j \in 1..Len(w) PROVE u[j + 2] = w[j]
  <2>1. /\ (j + 2) % 2 = j % 2 /\ (j + 2 + 1) \div 2 = (j + 1) \div 2 + 1
        /\ (j + 1) \div 2 \in 1..Len(s)
    BY <1>3
  <2>2. t[(j + 2 + 1) \div 2] = s[(j + 1) \div 2]
    BY <1>2, <2>1
  <2>3. WaveAt(v, t, j + 2) = WaveAt(v, s, j)
    BY ONLY <2>1, <2>2, v # 2, Zenon DEF WaveAt
  <2>4. j + 2 \in 1..Len(u)
    BY <1>5
  <2> QED
    BY <1>3, <1>4, <2>3, <2>4
<1>8. Begun(FirstLevel, x) \in HalfWave /\ Begun(SecondLevel, x) \in HalfWave
  BY BegunTyped
<1>9. u = <<Begun(FirstLevel, x), Begun(SecondLevel, x)>> \o w
  <2>1. PICK a \in HalfWave, b \in HalfWave : a = Begun(FirstLevel, x) /\ b = Begun(SecondLevel, x)
    BY <1>8
  <2>2. u[1] = a /\ u[2] = b
    BY <1>6, <2>1
  <2>3. u = <<a, b>> \o w
    <3>1. Follows(a, b, w, u)
      BY <1>5, <1>7, <2>2 DEF Follows
    <3> QED
      BY <3>1, AfterPair
  <2> QED
    BY ONLY <2>1, <2>3
<1> QED
  BY ONLY <1>1, <1>3, <1>4, <1>9

\* In format 2 two pulses do.
LEMMA WavesOfPair ==
    ASSUME NEW x \in Nat, NEW y \in Nat, NEW s \in Seq(Nat)
    PROVE  Wave!Waves(2, <<x>> \o (<<y>> \o s))
             = <<Begun(FirstLevel, 2 * x), Begun(SecondLevel, 2 * y)>> \o Wave!Waves(2, s)
<1>1. PICK r \in Seq(Nat) : r = <<y>> \o s
  BY Prepend
<1>2. PICK t \in Seq(Nat) : t = <<x>> \o r
  BY Prepend
<1>3. /\ Len(t) = Len(s) + 2 /\ t[1] = x /\ t[2] = y
      /\ \A i \in 1..Len(s) : t[i + 2] = s[i]
  <2>1. Len(r) = Len(s) + 1 /\ r[1] = y /\ \A i \in 1..Len(s) : r[i + 1] = s[i]
    BY <1>1, Prepend
  <2>2. Len(t) = Len(r) + 1 /\ t[1] = x /\ \A i \in 1..Len(r) : t[i + 1] = r[i]
    BY <1>2, Prepend
  <2>3. t[2] = y
    <3>1. 1 \in 1..Len(r) /\ 1 + 1 = 2
      BY <2>1
    <3> QED
      BY <2>1, <2>2, <3>1
  <2>4. ASSUME NEW i \in 1..Len(s) PROVE t[i + 2] = s[i]
    <3>1. i + 1 \in 1..Len(r) /\ (i + 1) + 1 = i + 2
      BY <2>1
    <3> QED
      BY <2>1, <2>2, <3>1
  <2> QED
    BY <2>1, <2>2, <2>3, <2>4
<1>4. PICK w \in Seq(HalfWave) :
         /\ w = Wave!Waves(2, s) /\ Len(w) = Len(s)
         /\ \A k \in 1..Len(w) : w[k] = WaveAt(2, s, k)
  BY WavesAre
<1>5. PICK u \in Seq(HalfWave) :
         /\ u = Wave!Waves(2, t) /\ Len(u) = Len(t)
         /\ \A k \in 1..Len(u) : u[k] = WaveAt(2, t, k)
  BY WavesAre
<1>6. Len(u) = Len(w) + 2
  BY <1>3, <1>4, <1>5
<1>7. u[1] = Begun(FirstLevel, 2 * x) /\ u[2] = Begun(SecondLevel, 2 * y)
  <2>1. u[1] = WaveAt(2, t, 1) /\ u[2] = WaveAt(2, t, 2)
    BY <1>5, <1>6
  <2>2. 1 % 2 = 1 /\ 2 % 2 # 1
    OBVIOUS
  <2> QED
    BY ONLY <1>3, <2>1, <2>2, Zenon DEF WaveAt
<1>8. ASSUME NEW j \in 1..Len(w) PROVE u[j + 2] = w[j]
  <2>1. (j + 2) % 2 = j % 2
    OBVIOUS
  <2>2. t[j + 2] = s[j]
    BY <1>3, <1>4
  <2>3. WaveAt(2, t, j + 2) = WaveAt(2, s, j)
    BY ONLY <2>1, <2>2, Zenon DEF WaveAt
  <2>4. j + 2 \in 1..Len(u)
    BY <1>6
  <2> QED
    BY <1>4, <1>5, <2>3, <2>4
<1>9. 2 * x \in Nat /\ 2 * y \in Nat
  OBVIOUS
<1>10. Begun(FirstLevel, 2 * x) \in HalfWave /\ Begun(SecondLevel, 2 * y) \in HalfWave
  BY <1>9, BegunTyped
<1>11. u = <<Begun(FirstLevel, 2 * x), Begun(SecondLevel, 2 * y)>> \o w
  <2>1. PICK a \in HalfWave, b \in HalfWave : a = Begun(FirstLevel, 2 * x) /\ b = Begun(SecondLevel, 2 * y)
    BY <1>10
  <2>2. u[1] = a /\ u[2] = b
    BY <1>7, <2>1
  <2>3. u = <<a, b>> \o w
    <3>1. Follows(a, b, w, u)
      BY <1>6, <1>8, <2>2 DEF Follows
    <3> QED
      BY <3>1, AfterPair
  <2> QED
    BY ONLY <2>1, <2>3
<1> QED
  BY ONLY <1>1, <1>2, <1>4, <1>5, <1>11

----------------------------------------------------------------------------
(* The handler takes the pulses of the image.                              *)

\* While a signal may be taken in time, its bytes are the image's.
LEMMA ReadsTape ==
    ASSUME Inv, Sound, LoadSignal,
           NEW i \in 0..7, i < MaxSignalBytes(file.version), g_tap_file_pos + i < Length
    PROVE  Byte(i) = file.data[g_tap_file_pos + i + 1]
<1>1. /\ HalfSize \in Nat \ {0} /\ RefillLag \in Nat /\ Length \in Nat /\ g_tap_file_pos \in Nat
      /\ g_read_index \in 0..2 * HalfSize - 1 /\ fptr \in Nat /\ timerOn /\ file \in Files
  BY SizeAssumption DEF Inv, TypeOK, RingTypes, DeckInv, Length, Size, LoadSignal, Running
<1>2. RefillLag + MaxSignalBytes(file.version) <= HalfSize
  BY <1>1, FileAssumption
<1>3. MaxSignalBytes(file.version) \in {4, 8}
  BY DEF MaxSignalBytes
<1>4. InHalf(g_read_index) \in 0..HalfSize - 1
  BY <1>1 DEF InHalf
<1>5. Ahead \in Int
  BY <1>1, <1>4 DEF Ahead
<1>6. i < Ahead
  <2>1. CASE Refilling /\ Owed
    <3>1. InHalf(g_read_index) < RefillLag
      BY <2>1 DEF LoadSignal, InTime, Refilling
    <3>2. Ahead = HalfSize - InHalf(g_read_index)
      BY <1>1, <1>4, <2>1 DEF Ahead
    <3> QED
      BY <1>1, <1>2, <1>3, <1>4, <3>1, <3>2
  <2>2. CASE ~Owed
    <3>1. Ahead = (HalfSize - InHalf(g_read_index)) + HalfSize
      BY <2>2 DEF Ahead
    <3> QED
      BY <1>1, <1>2, <1>3, <1>4, <3>1
  <2>3. CASE ~Refilling
    <3>1. fptr = Length /\ copied = 0
      BY <2>3 DEF Sound, Inv, DeckInv, Refilling
    <3>2. fptr = Least(Length, BufferedEnd + 0)
      BY <1>1, <3>1 DEF Inv, FillInv
    <3> QED
      BY <1>1, <1>5, <3>1, <3>2 DEF Least, BufferedEnd
  <2> QED
    BY <2>1, <2>2, <2>3
<1>7. i \in 0..Ahead - 1
  BY <1>5, <1>6
<1> QED
  BY <1>1, <1>7 DEF Inv, BufferHoldsUnplayed, Byte

LEMMA Behead ==
    ASSUME NEW x, NEW s \in Seq(Lengths), <<x>> \o s \in Seq(Nat)
    PROVE  x \in Nat /\ s \in Seq(Nat) /\ Len(<<x>> \o s) = Len(s) + 1
<1>1. PICK t \in Seq(Nat) : t = <<x>> \o s
  OBVIOUS
<1>2. Len(t) = Len(s) + 1 /\ t[1] = x /\ \A i \in 1..Len(s) : t[i + 1] = s[i]
  BY <1>1
<1>3. x \in Nat
  BY <1>2
<1>4. ASSUME NEW i \in 1..Len(s) PROVE s[i] \in Nat
  BY <1>2
<1>5. s \in Seq(Nat)
  BY <1>4
<1> QED
  BY ONLY <1>1, <1>2, <1>3, <1>5

\* The two readings of a pulse are the same number.
LEMMA SamePulse ==
    ASSUME NEW a \in Nat, NEW b \in Nat, NEW c \in Nat
    PROVE  /\ ShortPulse(a) = Wave!Scaled(8 * a)
           /\ LongPulse(a, b, c) = Wave!Scaled(a + ByteRadix * (b + ByteRadix * c))
<1>1. ByteRadix \in Nat /\ a * 8 = 8 * a
  BY SizeAssumption
<1>2. a + ByteRadix * b + ByteRadix * ByteRadix * c = a + ByteRadix * (b + ByteRadix * c)
  BY <1>1
<1> QED
  BY ONLY <1>1, <1>2, Zenon DEF ShortPulse, LongPulse, Wave!Scaled

\* The pulse i bytes after the read index is the first of those left there.
LEMMA PulseOfTape ==
    ASSUME Inv, Sound, LoadSignal, NEW f, f = Wave!PulsesFrom(file.version, file.data),
           NEW i \in 0..4, i + 3 < MaxSignalBytes(file.version),
           NEW p, p = g_tap_file_pos + i + 1, p <= Length, f[p] \in Seq(Nat)
    PROVE  /\ p + PulseBytes(i) \in 1..Length + 1
           /\ Pulse(i) \in Nat /\ f[p + PulseBytes(i)] \in Seq(Nat)
           /\ f[p] = <<Pulse(i)>> \o f[p + PulseBytes(i)]
           /\ Len(f[p]) = Len(f[p + PulseBytes(i)]) + 1
<1>1. /\ Length \in Nat /\ g_tap_file_pos \in Nat /\ file.data \in Seq(Nat) /\ ByteRadix \in Nat
      /\ Len(file.data) = Length /\ MaxSignalBytes(file.version) \in {4, 8}
  BY SizeAssumption DEF Inv, TypeOK, RingTypes, Length, MaxSignalBytes
<1>2. p \in 1..Len(file.data) + 1 /\ p <= Len(file.data)
  BY <1>1
<1>3. f[p] = Wave!PulsesAt(file.version, file.data, p, f) /\ ~(p > Len(file.data))
  <2>1. PulsesOf(file.version, file.data, f)
    BY <1>1, PulsesFromIs
  <2> QED
    BY ONLY <1>1, <1>2, <2>1 DEF PulsesOf
<1>4. \A q \in 1..Len(file.data) + 1 : f[q] \in Seq(Lengths)
  BY <1>1, PulsesTyped
<1>5. \A j \in 0..3 : p + j <= Length => Byte(i + j) = file.data[p + j] /\ file.data[p + j] \in Nat
  <2> SUFFICES ASSUME NEW j \in 0..3, p + j <= Length
               PROVE  Byte(i + j) = file.data[p + j] /\ file.data[p + j] \in Nat
    OBVIOUS
  <2>1. i + j \in 0..7 /\ i + j < MaxSignalBytes(file.version) /\ g_tap_file_pos + (i + j) < Length
    BY <1>1
  <2>2. Byte(i + j) = file.data[g_tap_file_pos + (i + j) + 1]
    BY <2>1, ReadsTape
  <2>3. g_tap_file_pos + (i + j) + 1 = p + j /\ p + j \in 1..Len(file.data)
    BY <1>1
  <2> QED
    BY <1>1, <2>2, <2>3
<1>6. Byte(i) = file.data[p] /\ file.data[p] \in Nat
  <2>1. 0 \in 0..3 /\ p + 0 = p /\ i + 0 = i /\ p + 0 <= Length
    BY <1>1, <1>2
  <2> QED
    BY <1>5, <2>1
<1>7. PulseBytes(i) \in {1, 4} /\ p + PulseBytes(i) \in 1..Len(file.data) + 1
         /\ f[p] = <<Pulse(i)>> \o f[p + PulseBytes(i)]
  <2>1. CASE Byte(i) # 0
    <3>1. PulseBytes(i) = 1 /\ Pulse(i) = Wave!Scaled(8 * file.data[p])
      BY <1>6, <2>1, SamePulse DEF PulseBytes, Short, Pulse
    <3>2. f[p] = <<Wave!Scaled(8 * file.data[p])>> \o f[p + 1]
      BY ONLY <1>3, <1>6, <2>1, Zenon DEF Wave!PulsesAt
    <3> QED
      BY <1>1, <1>2, <3>1, <3>2
  <2>2. CASE Byte(i) = 0 /\ file.version = 0
    <3>1. PulseBytes(i) = 1 /\ Pulse(i) = Wave!Scaled(8 * ByteRadix)
      BY <1>1, <2>2, SamePulse DEF PulseBytes, Short, Pulse
    <3>2. f[p] = <<Wave!Scaled(8 * ByteRadix)>> \o f[p + 1]
      BY ONLY <1>3, <1>6, <2>2, Zenon DEF Wave!PulsesAt
    <3> QED
      BY <1>1, <1>2, <3>1, <3>2
  <2>3. CASE Byte(i) = 0 /\ file.version # 0
    <3>1. ~(p + 3 > Len(file.data))
      <4> SUFFICES ASSUME p + 3 > Len(file.data) PROVE FALSE
        OBVIOUS
      <4>1. f[p] = <<Wave!Truncated>>
        BY ONLY <1>3, <1>6, <2>3, p + 3 > Len(file.data), Zenon DEF Wave!PulsesAt
      <4>2. Wave!Truncated \in Nat
        BY <4>1
      <4> QED
        BY <4>2 DEF Wave!Truncated
    <3>2. /\ Byte(i + 1) = file.data[p + 1] /\ file.data[p + 1] \in Nat
          /\ Byte(i + 2) = file.data[p + 2] /\ file.data[p + 2] \in Nat
          /\ Byte(i + 3) = file.data[p + 3] /\ file.data[p + 3] \in Nat
      BY <1>1, <1>2, <1>5, <3>1
    <3>3. PulseBytes(i) = 4 /\ Pulse(i) = LongPulse(Byte(i + 1), Byte(i + 2), Byte(i + 3))
      BY <2>3 DEF PulseBytes, Short, Pulse
    <3>4. PICK x : x = Wave!Scaled(file.data[p + 1]
                                     + ByteRadix * (file.data[p + 2] + ByteRadix * file.data[p + 3]))
      OBVIOUS
    <3>5. Pulse(i) = x
      BY ONLY <3>2, <3>3, <3>4, SamePulse, Zenon
    <3>6. f[p] = <<x>> \o f[p + 4]
      BY ONLY <1>3, <1>6, <2>3, <3>1, <3>4, Zenon DEF Wave!PulsesAt
    <3>7. p + 4 \in 1..Len(file.data) + 1
      BY <1>1, <1>2, <3>1
    <3> QED
      BY ONLY <3>3, <3>5, <3>6, <3>7
  <2> QED
    BY <2>1, <2>2, <2>3
<1>8. f[p + PulseBytes(i)] \in Seq(Lengths)
  BY <1>4, <1>7
<1>9. /\ Pulse(i) \in Nat /\ f[p + PulseBytes(i)] \in Seq(Nat)
      /\ Len(f[p]) = Len(f[p + PulseBytes(i)]) + 1
  BY <1>7, <1>8, Behead
<1> QED
  BY <1>1, <1>7, <1>9

\* Nothing is left at the end of an image.
LEMMA NothingLeft ==
    ASSUME NEW v, NEW d \in Seq(Nat) PROVE Wave!PulsesFrom(v, d)[Len(d) + 1] = <<>>
<1>1. Len(d) \in Nat /\ Len(d) + 1 \in 1..Len(d) + 1 /\ Len(d) + 1 > Len(d)
  OBVIOUS
<1>2. PICK f : f = Wave!PulsesFrom(v, d)
  OBVIOUS
<1>3. PulsesOf(v, d, f)
  BY <1>1, <1>2, PulsesFromIs
<1>4. f[Len(d) + 1] = Wave!PulsesAt(v, d, Len(d) + 1, f)
  BY <1>1, <1>3 DEF PulsesOf
<1>5. f[Len(d) + 1] = <<>>
  BY ONLY <1>1, <1>4, Zenon DEF Wave!PulsesAt
<1> QED
  BY ONLY <1>2, <1>5

\* The signal that the handler takes is the head of the half-waves left.
LEMMA TakesSignal ==
    ASSUME Inv, Sound, LoadSignal, PositionInv
    PROVE  /\ FirstPulse \in Nat /\ SecondPulse \in Nat
           /\ PositionInv'
           /\ Wave!Waves(file.version, Left)
                = <<Begun(FirstLevel, FirstPulse), Begun(SecondLevel, SecondPulse)>>
                    \o Wave!Waves(file.version, Left')
<1>1. PICK f : f = Wave!PulsesFrom(file.version, file.data)
  OBVIOUS
<1>2. /\ g_tap_file_pos < Length /\ g_tap_file_pos' = g_tap_file_pos + SignalBytes /\ file' = file
  BY DEF LoadSignal, deckVars
<1>3. Left = f[g_tap_file_pos + 1] /\ Left' = f[g_tap_file_pos' + 1] /\ Length' = Length
  BY <1>1, <1>2 DEF Left, Length
<1>4. /\ Length \in Nat /\ g_tap_file_pos \in Nat /\ f[g_tap_file_pos + 1] \in Seq(Nat)
      /\ file.data \in Seq(Nat) /\ Len(file.data) = Length
  BY <1>3, SizeAssumption DEF PositionInv, Inv, TypeOK, RingTypes, Length
<1>5. 0 \in 0..4 /\ g_tap_file_pos + 1 = g_tap_file_pos + 0 + 1 /\ g_tap_file_pos + 1 <= Length
  BY <1>2, <1>4
<1>6. 0 + 3 < MaxSignalBytes(file.version)
  BY DEF MaxSignalBytes
<1>7. PICK q \in 1..Length + 1, n \in {1, 4}, x \in Nat, t \in Seq(Nat) :
         /\ n = PulseBytes(0) /\ q = g_tap_file_pos + 1 + n
         /\ x = Pulse(0) /\ t = f[q]
         /\ f[g_tap_file_pos + 1] = <<x>> \o t
         /\ Len(f[g_tap_file_pos + 1]) = Len(t) + 1
  <2>1. PulseBytes(0) \in {1, 4}
    BY DEF PulseBytes
  <2>2. /\ g_tap_file_pos + 1 + PulseBytes(0) \in 1..Length + 1
        /\ Pulse(0) \in Nat /\ f[g_tap_file_pos + 1 + PulseBytes(0)] \in Seq(Nat)
        /\ f[g_tap_file_pos + 1] = <<Pulse(0)>> \o f[g_tap_file_pos + 1 + PulseBytes(0)]
        /\ Len(f[g_tap_file_pos + 1]) = Len(f[g_tap_file_pos + 1 + PulseBytes(0)]) + 1
    BY <1>1, <1>4, <1>5, <1>6, PulseOfTape
  <2> QED
    BY ONLY <2>1, <2>2, Zenon
<1>8. CASE file.version # 2
  <2>1. FirstPulse = x /\ SecondPulse = x /\ SignalBytes = n
    BY <1>7, <1>8 DEF FirstPulse, SecondPulse, SignalBytes
  <2>2. g_tap_file_pos' = g_tap_file_pos + n /\ g_tap_file_pos' + 1 = q
    BY <1>2, <1>4, <1>7, <2>1
  <2>3. Left' = t /\ g_tap_file_pos' \in 0..Length'
    BY <1>3, <1>4, <1>7, <2>2
  <2>4. Wave!Waves(file.version, <<x>> \o t)
          = <<Begun(FirstLevel, x), Begun(SecondLevel, x)>> \o Wave!Waves(file.version, t)
    BY <1>8, WavesOfPulse
  <2>5. PositionInv'
    BY <1>2, <1>8, <2>3 DEF PositionInv
  <2>6. FirstPulse \in Nat /\ SecondPulse \in Nat
    BY <2>1
  <2>7. Wave!Waves(file.version, Left)
           = <<Begun(FirstLevel, FirstPulse), Begun(SecondLevel, SecondPulse)>>
               \o Wave!Waves(file.version, Left')
    BY ONLY <1>3, <1>7, <2>1, <2>3, <2>4
  <2> QED
    BY <2>5, <2>6, <2>7
<1>9. CASE file.version = 2
  <2>1. (Len(t) + 1) % 2 = 0
    BY <1>3, <1>7, <1>9 DEF PositionInv
  <2>2. Len(t) # 0
    BY <2>1
  <2>3. q <= Length
    <3>1. f[Length + 1] = <<>>
      BY <1>1, <1>4, NothingLeft
    <3> QED
      BY <1>4, <1>7, <2>2, <3>1
  <2>4. n \in 0..4 /\ q = g_tap_file_pos + n + 1 /\ n + 3 < MaxSignalBytes(file.version)
    BY <1>4, <1>7, <1>9 DEF MaxSignalBytes
  <2>5. PICK r \in 1..Length + 1, m \in {1, 4}, y \in Nat, u \in Seq(Nat) :
           /\ m = PulseBytes(n) /\ r = q + m
           /\ y = Pulse(n) /\ u = f[r]
           /\ t = <<y>> \o u /\ Len(t) = Len(u) + 1
    <3>1. PulseBytes(n) \in {1, 4}
      BY DEF PulseBytes
    <3>2. f[q] \in Seq(Nat)
      BY <1>7
    <3>3. /\ q + PulseBytes(n) \in 1..Length + 1
          /\ Pulse(n) \in Nat /\ f[q + PulseBytes(n)] \in Seq(Nat)
          /\ f[q] = <<Pulse(n)>> \o f[q + PulseBytes(n)]
          /\ Len(f[q]) = Len(f[q + PulseBytes(n)]) + 1
      BY <1>1, <2>3, <2>4, <3>2, PulseOfTape
    <3> QED
      BY ONLY <1>7, <3>1, <3>3, Zenon
  <2>6. FirstPulse = 2 * x /\ SecondPulse = 2 * y /\ SignalBytes = n + m
    BY <1>7, <1>9, <2>5 DEF FirstPulse, SecondPulse, SignalBytes
  <2>7. g_tap_file_pos' = g_tap_file_pos + (n + m) /\ g_tap_file_pos' + 1 = r
    <3>1. q = g_tap_file_pos + 1 + n /\ r = q + m
      BY <1>7, <2>5
    <3>2. g_tap_file_pos' = g_tap_file_pos + (n + m)
      BY <1>2, <2>6
    <3> QED
      BY ONLY <1>4, <3>1, <3>2, n \in {1, 4}, m \in {1, 4}
  <2>8. Left' = u /\ g_tap_file_pos' \in 0..Length'
    <3>1. Left' = f[r]
      BY ONLY <1>3, <2>7
    <3>2. g_tap_file_pos' \in Nat
      BY ONLY <1>4, <2>7, n \in {1, 4}, m \in {1, 4}
    <3>3. g_tap_file_pos' \in 0..Length'
      BY ONLY <1>3, <1>4, <2>7, <3>2, r \in 1..Length + 1
    <3> QED
      BY ONLY <2>5, <3>1, <3>3
  <2>9. Len(u) % 2 = 0
    <3>1. Len(t) = Len(u) + 1 /\ Len(u) \in Nat
      BY <2>5
    <3>2. ASSUME NEW a \in Nat, (a + 1 + 1) % 2 = 0 PROVE a % 2 = 0
      BY <3>2
    <3> QED
      BY <2>1, <3>1, <3>2
  <2>10. Wave!Waves(2, <<x>> \o (<<y>> \o u))
           = <<Begun(FirstLevel, 2 * x), Begun(SecondLevel, 2 * y)>> \o Wave!Waves(2, u)
    BY WavesOfPair
  <2>11. PositionInv'
    BY <1>2, <2>8, <2>9 DEF PositionInv
  <2>12. FirstPulse \in Nat /\ SecondPulse \in Nat
    BY <2>6
  <2>13. Wave!Waves(file.version, Left)
            = <<Begun(FirstLevel, FirstPulse), Begun(SecondLevel, SecondPulse)>>
                \o Wave!Waves(file.version, Left')
    BY ONLY <1>3, <1>7, <1>9, <2>5, <2>6, <2>8, <2>10
  <2> QED
    BY <2>11, <2>12, <2>13
<1> QED
  BY <1>8, <1>9

----------------------------------------------------------------------------
(* The handler sends the signal it has taken.                              *)

\* A half-wave moves from what is being sent to what has been sent.
LEMMA MoveOne ==
    ASSUME NEW w \in Seq(HalfWave), NEW a \in HalfWave, NEW r \in Seq(HalfWave)
    PROVE  /\ Append(w, a) \in Seq(HalfWave)
           /\ Append(w, a) \o r = w \o (<<a>> \o r)
<1>1. PICK u \in Seq(HalfWave) : u = <<a>>
  <2>1. <<a>> \in Seq(HalfWave)
    OBVIOUS
  <2> QED
    BY ONLY <2>1, Zenon
<1>2. Append(w, a) \in Seq(HalfWave) /\ Append(w, a) = w \o u
  BY <1>1, AppendIsConcat, AppendProperties
<1>3. (w \o u) \o r = w \o (u \o r)
  BY ConcatAssociative
<1> QED
  BY ONLY <1>1, <1>2, <1>3

LEMMA MoveFirst ==
    ASSUME NEW w \in Seq(HalfWave), NEW a \in HalfWave, NEW b \in HalfWave, NEW r \in Seq(HalfWave)
    PROVE  Append(w, a) \o (<<b>> \o r) = w \o (<<a, b>> \o r)
<1>1. PICK t \in Seq(HalfWave) : t = <<b>> \o r
  BY Prepend
<1>2. PICK u \in Seq(HalfWave) : u = <<a>> \o t
  BY Prepend
<1>3. Follows(a, b, r, u)
  <2>1. Len(t) = Len(r) + 1 /\ t[1] = b /\ \A i \in 1..Len(r) : t[i + 1] = r[i]
    BY <1>1, Prepend
  <2>2. Len(u) = Len(t) + 1 /\ u[1] = a /\ \A i \in 1..Len(t) : u[i + 1] = t[i]
    BY <1>2, Prepend
  <2>3. u[2] = b
    <3>1. 1 \in 1..Len(t) /\ 1 + 1 = 2
      BY <2>1
    <3> QED
      BY <2>1, <2>2, <3>1
  <2>4. ASSUME NEW i \in 1..Len(r) PROVE u[i + 2] = r[i]
    <3>1. i + 1 \in 1..Len(t) /\ (i + 1) + 1 = i + 2
      BY <2>1
    <3> QED
      BY <2>1, <2>2, <3>1
  <2>5. Len(u) = Len(r) + 2
    <3>1. Len(r) \in Nat
      OBVIOUS
    <3> QED
      BY ONLY <2>1, <2>2, <3>1
  <2> QED
    BY ONLY <2>2, <2>3, <2>4, <2>5 DEF Follows
<1>4. u = <<a, b>> \o r
  BY <1>3, AfterPair
<1>5. Append(w, a) \o t = w \o (<<a>> \o t)
  BY MoveOne
<1> QED
  BY ONLY <1>1, <1>2, <1>4, <1>5

LEMMA EmitCases ==
    ASSUME NEW pulse, Emit(pulse)
    PROVE  /\ pulse > MaxOCR => wave' = wave /\ halfTicks' = halfTicks + MaxOCR
           /\ ~(pulse > MaxOCR) =>
                 wave' = Append(wave, Begun(level', halfTicks + pulse)) /\ halfTicks' = 0
  BY Zenon DEF Emit, Begun

LEMMA FirstHalfCases ==
    ASSUME NEW pulse \in Nat, NEW save \in Nat, FirstHalfOf(pulse, save)
    PROVE  /\ Emit(pulse)
           /\ pulse > MaxOCR => g_pulse_length' = pulse - MaxOCR /\ ~g_signal_2nd_half'
           /\ ~(pulse > MaxOCR) => g_pulse_length' = save /\ g_signal_2nd_half'
<1>1. MaxOCR \in Nat
  BY TimerAssumption
<1>2. pulse > MaxOCR <=> ~(pulse <= MaxOCR)
  BY <1>1
<1> QED
  BY ONLY <1>2, FirstHalfOf(pulse, save), Zenon DEF FirstHalfOf

LEMMA SecondHalfCases ==
    ASSUME SignalTypes, SecondHalf
    PROVE  /\ Emit(g_pulse_length) /\ level' = SecondLevel /\ g_signal_2nd_half
           /\ g_pulse_length > MaxOCR => g_pulse_length' = g_pulse_length - MaxOCR /\ g_signal_2nd_half'
           /\ ~(g_pulse_length > MaxOCR) => g_pulse_length' = 0 /\ ~g_signal_2nd_half'
<1>1. MaxOCR \in Nat /\ g_pulse_length \in Nat
  BY TimerAssumption DEF SignalTypes
<1>2. /\ Emit(g_pulse_length) /\ level' = SecondLevel /\ g_signal_2nd_half
      /\ g_pulse_length' = g_pulse_length - Piece(g_pulse_length)
      /\ g_signal_2nd_half' = (g_pulse_length > MaxOCR)
  BY DEF SecondHalf
<1>3. /\ g_pulse_length > MaxOCR => g_pulse_length - Piece(g_pulse_length) = g_pulse_length - MaxOCR
      /\ ~(g_pulse_length > MaxOCR) => g_pulse_length - Piece(g_pulse_length) = 0
  BY <1>1 DEF Piece, Least
<1> QED
  BY ONLY <1>2, <1>3, Zenon

LEMMA EmitTyped ==
    ASSUME wave \in Seq(HalfWave), halfTicks \in Nat, NEW pulse \in Nat, level' \in Levels,
           Emit(pulse)
    PROVE  wave' \in Seq(HalfWave)
<1>1. CASE pulse > MaxOCR
  BY <1>1, EmitCases
<1>2. CASE ~(pulse > MaxOCR)
  <2>1. wave' = Append(wave, Begun(level', halfTicks + pulse))
    BY <1>2, EmitCases
  <2>2. Begun(level', halfTicks + pulse) \in HalfWave
    BY DEF Begun, HalfWave
  <2> QED
    BY <2>1, <2>2
<1> QED
  BY <1>1, <1>2

\* A piece of a first half-wave.
LEMMA FirstSends ==
    ASSUME wave \in Seq(HalfWave), halfTicks \in Nat, NEW pulse \in Nat, NEW save \in Nat,
           NEW r \in Seq(HalfWave),
           FirstHalfOf(pulse, save), level' = FirstLevel, g_pulse_length_save' = save
    PROVE  /\ wave' \o (Pending' \o r)
                = wave \o (<<Begun(FirstLevel, halfTicks + pulse), Begun(SecondLevel, save)>> \o r)
           /\ HalfInv' /\ ~AtRest' /\ Pending' \in Seq(HalfWave)
<1>0. MaxOCR \in Nat
  BY TimerAssumption
<1>1. PICK a \in HalfWave, b \in HalfWave :
         a = Begun(FirstLevel, halfTicks + pulse) /\ b = Begun(SecondLevel, save)
  BY BegunTyped
<1>2. <<b>> \in Seq(HalfWave) /\ <<a, b>> \in Seq(HalfWave)
  OBVIOUS
<1>3. CASE pulse > MaxOCR
  <2>1. /\ wave' = wave /\ halfTicks' = halfTicks + MaxOCR /\ g_pulse_length' = pulse - MaxOCR
        /\ ~g_signal_2nd_half'
    BY ONLY <1>0, <1>3, FirstHalfCases, EmitCases, FirstHalfOf(pulse, save), pulse \in Nat,
            save \in Nat, Zenon
  <2>2. g_pulse_length' > 0 /\ halfTicks' + g_pulse_length' = halfTicks + pulse
    BY <1>0, <1>3, <2>1
  <2>3. Pending' = <<Begun(FirstLevel, halfTicks' + g_pulse_length'), Begun(SecondLevel, save)>>
    BY <2>1, <2>2, Zenon DEF Pending, FirstLevel, SecondLevel, IdleLevel, Begun
  <2>4. Pending' = <<a, b>>
    BY ONLY <1>1, <2>2, <2>3
  <2>5. HalfInv' /\ ~AtRest'
    BY <2>1, <2>2 DEF HalfInv, AtRest, FirstLevel
  <2> QED
    BY ONLY <1>1, <1>2, <2>1, <2>4, <2>5
<1>4. CASE ~(pulse > MaxOCR)
  <2>1. /\ wave' = Append(wave, Begun(level', halfTicks + pulse))
        /\ halfTicks' = 0 /\ g_pulse_length' = save /\ g_signal_2nd_half'
    BY ONLY <1>0, <1>4, FirstHalfCases, EmitCases, FirstHalfOf(pulse, save), pulse \in Nat,
            save \in Nat, Zenon
  <2>2. wave' = Append(wave, a)
    BY ONLY <1>1, <2>1, level' = FirstLevel
  <2>3. halfTicks' + g_pulse_length' = save
    BY <2>1
  <2>4. Pending' = <<Begun(SecondLevel, halfTicks' + g_pulse_length')>>
    BY <2>1, Zenon DEF Pending, SecondLevel, IdleLevel, Begun
  <2>5. Pending' = <<b>>
    BY ONLY <1>1, <2>3, <2>4
  <2>6. Append(wave, a) \o (<<b>> \o r) = wave \o (<<a, b>> \o r)
    BY MoveFirst
  <2>7. HalfInv' /\ ~AtRest'
    BY <2>1 DEF HalfInv, AtRest
  <2> QED
    BY ONLY <1>1, <1>2, <2>2, <2>5, <2>6, <2>7
<1> QED
  BY <1>3, <1>4

\* A piece of a second half-wave.
LEMMA SecondSends ==
    ASSUME wave \in Seq(HalfWave), SignalTypes, NEW r \in Seq(HalfWave), SecondHalf
    PROVE  /\ wave' \o (Pending' \o r) = wave \o (Pending \o r)
           /\ HalfInv' /\ Pending' \in Seq(HalfWave)
<1>0. /\ MaxOCR \in Nat /\ halfTicks \in Nat /\ g_pulse_length \in Nat
      /\ g_signal_2nd_half /\ level' = SecondLevel
  BY TimerAssumption DEF SignalTypes, SecondHalf
<1>1. PICK a \in HalfWave : a = Begun(SecondLevel, halfTicks + g_pulse_length)
  BY <1>0, BegunTyped
<1>2. Pending = <<a>> /\ <<a>> \in Seq(HalfWave) /\ <<>> \in Seq(HalfWave)
  BY <1>0, <1>1 DEF Pending
<1>3. CASE g_pulse_length > MaxOCR
  <2>1. /\ wave' = wave /\ halfTicks' = halfTicks + MaxOCR
        /\ g_pulse_length' = g_pulse_length - MaxOCR /\ g_signal_2nd_half'
    BY ONLY <1>0, <1>3, SecondHalfCases, EmitCases, SignalTypes, SecondHalf, Zenon
  <2>2. halfTicks' + g_pulse_length' = halfTicks + g_pulse_length
    BY <1>0, <2>1
  <2>3. Pending' = <<Begun(SecondLevel, halfTicks' + g_pulse_length')>>
    BY <2>1, Zenon DEF Pending, SecondLevel, IdleLevel, Begun
  <2>4. Pending' = <<a>>
    BY ONLY <1>1, <2>2, <2>3
  <2>5. HalfInv'
    BY <2>1 DEF HalfInv, AtRest
  <2> QED
    BY ONLY <1>2, <2>1, <2>4, <2>5
<1>4. CASE ~(g_pulse_length > MaxOCR)
  <2>1. /\ wave' = Append(wave, Begun(level', halfTicks + g_pulse_length))
        /\ halfTicks' = 0 /\ g_pulse_length' = 0 /\ ~g_signal_2nd_half'
    BY ONLY <1>0, <1>4, SecondHalfCases, EmitCases, SignalTypes, SecondHalf, Zenon
  <2>2. wave' = Append(wave, a)
    BY ONLY <1>0, <1>1, <2>1
  <2>3. Pending' = <<>>
    BY <2>1 DEF Pending
  <2>4. <<>> \o r = r
    OBVIOUS
  <2>5. Append(wave, a) \o r = wave \o (<<a>> \o r)
    BY MoveOne
  <2>6. HalfInv'
    BY <2>1 DEF HalfInv, AtRest
  <2> QED
    BY ONLY <1>2, <2>2, <2>3, <2>4, <2>5, <2>6
<1> QED
  BY <1>3, <1>4

----------------------------------------------------------------------------
(* The invariant is preserved. *)

LEMMA PrefixOf ==
    ASSUME NEW w \in Seq(HalfWave), NEW r \in Seq(HalfWave), NEW t, w \o r = t
    PROVE  IsPrefix(w, t)
<1>1. /\ t \in Seq(HalfWave) /\ Len(t) = Len(w) + Len(r)
      /\ \A i \in 1..Len(w) : t[i] = w[i]
  <2>1. PICK u \in Seq(HalfWave) : u = w \o r
    BY ConcatProperties, Zenon
  <2>2. Len(u) = Len(w) + Len(r) /\ \A i \in 1..Len(w) : u[i] = w[i]
    BY <2>1
  <2> QED
    BY ONLY <2>1, <2>2, w \o r = t
<1>2. Len(w) <= Len(t)
  BY <1>1
<1>3. SubSeq(w, 1, Len(w)) = SubSeq(t, 1, Len(w))
  BY <1>1
<1> QED
  BY <1>2, <1>3 DEF IsPrefix

LEMMA NoneIsPrefix == ASSUME NEW T, NEW t \in Seq(T) PROVE IsPrefix(<<>>, t)
  BY DEF IsPrefix

LEMMA LeftTyped ==
    ASSUME PositionInv
    PROVE  Wave!Waves(file.version, Left) \in Seq(HalfWave)
  BY WavesAre DEF PositionInv

\* Steps that neither send a half-wave nor move the tape.
LEMMA QuietStep ==
    ASSUME WaveInv, Sound' => Sound,
           UNCHANGED <<wave, halfTicks, g_pulse_length, g_signal_2nd_half, file, playing>>,
           timerOn' => timerOn /\ UNCHANGED <<level, g_pulse_length_save, g_tap_file_pos>>,
           Sound' /\ timerOn' => EndInv',
           ~playing => cause' = cause,
           pc' = "stop" => g_tap_file_complete' \/ cause' # ""
    PROVE  WaveInv'
<1>1. wave' \in Seq(HalfWave)
  BY DEF WaveInv
<1>2. Whole' = Whole
  BY DEF Whole
<1>3. SignalFaithful'
  BY <1>2 DEF WaveInv, SignalFaithful
<1>4. IdleInv'
  BY DEF WaveInv, IdleInv, AtRest
<1>5. ASSUME Sound', timerOn' PROVE TapeInv'
  <2>1. TapeInv
    BY <1>5 DEF WaveInv
  <2>2. UNCHANGED <<level, g_pulse_length_save, g_tap_file_pos>>
    BY <1>5
  <2>3. Left' = Left /\ Length' = Length
    BY <2>2 DEF Left, Length
  <2>4. Pending' = Pending
    BY <2>2 DEF Pending, SecondLevel, FirstLevel, IdleLevel
  <2>5. PositionInv'
    BY <2>1, <2>2, <2>3 DEF TapeInv, PositionInv
  <2>6. SplitInv'
    BY <1>2, <2>1, <2>3, <2>4 DEF TapeInv, SplitInv
  <2>7. HalfInv'
    BY <2>1, <2>2 DEF TapeInv, HalfInv, AtRest, FirstLevel
  <2> QED
    BY <1>5, <2>5, <2>6, <2>7 DEF TapeInv
<1> QED
  BY <1>1, <1>3, <1>4, <1>5 DEF WaveInv

\* A step that sends keeps the split between what is sent and what is left.
LEMMA SendingStep ==
    ASSUME Inv, WaveInv, SecondHalf \/ FirstHalf \/ LoadSignal
    PROVE  WaveInv'
<1>1. /\ wave \in Seq(HalfWave) /\ IdleInv /\ RingTypes /\ SignalTypes /\ ControlTypes /\ DeckInv
      /\ halfTicks \in Nat /\ g_pulse_length \in Nat /\ g_pulse_length_save \in Nat
  BY DEF Inv, TypeOK, WaveInv, SignalTypes
<1>2. /\ UNCHANGED <<pc, bufferVars, deckVars, userVars, g_tap_file_complete>>
      /\ Running
  BY DEF SecondHalf, FirstHalf, LoadSignal
<1>3. /\ timerOn /\ playing /\ file \in Files
      /\ Sound' = Sound /\ Whole' = Whole /\ Length' = Length /\ playing' = playing /\ cause' = cause
      /\ file' = file /\ pc' = pc /\ timerOn' = timerOn
  BY <1>1, <1>2 DEF Running, DeckInv, Sound, Refilling, Whole, Length, bufferVars, deckVars, userVars
<1>4. IdleInv'
  BY <1>1, <1>2, <1>3 DEF IdleInv
<1>5. wave' \in Seq(HalfWave)
  <2>1. CASE SecondHalf
    <3>1. Emit(g_pulse_length) /\ level' \in Levels
      BY <2>1, LevelNames DEF SecondHalf
    <3> QED
      BY <1>1, <3>1, EmitTyped
  <2>2. CASE FirstHalf
    <3>1. Emit(g_pulse_length) /\ level' \in Levels
      BY <1>1, <2>2 DEF FirstHalf, FirstHalfOf, ControlTypes
    <3> QED
      BY <1>1, <3>1, EmitTyped
  <2>3. CASE LoadSignal
    <3>1. Emit(FirstPulse) /\ level' \in Levels
      BY <2>3, LevelNames DEF LoadSignal, FirstHalfOf
    <3>2. FirstPulse \in Nat
      BY <1>1, <1>3, SignalFacts
    <3> QED
      BY <1>1, <3>1, <3>2, EmitTyped
  <2> QED
    BY <2>1, <2>2, <2>3
<1>6. ASSUME Sound PROVE TapeInv' /\ Pending' \in Seq(HalfWave)
  <2>1. PositionInv /\ SplitInv /\ HalfInv /\ EndInv
    BY <1>3, <1>6 DEF WaveInv, TapeInv
  <2>2. PICK r \in Seq(HalfWave) : r = Wave!Waves(file.version, Left)
    BY <2>1, LeftTyped
  <2>3. CASE SecondHalf
    <3>1. g_tap_file_pos' = g_tap_file_pos /\ Left' = Left
      BY <1>3, <2>3 DEF SecondHalf, tapeVars, Left
    <3>2. PositionInv'
      BY <1>3, <2>1, <3>1 DEF PositionInv
    <3>3. /\ wave' \o (Pending' \o r) = wave \o (Pending \o r)
          /\ HalfInv' /\ Pending' \in Seq(HalfWave)
      BY <1>1, <2>3, SecondSends
    <3>4. SplitInv'
      BY ONLY <1>3, <2>1, <2>2, <3>1, <3>3 DEF SplitInv
    <3>5. ~(g_tap_file_complete' /\ cause' = "")
      <4>1. ~AtRest
        BY <2>3 DEF AtRest, SecondHalf
      <4> QED
        BY ONLY <1>2, <1>3, <2>1, <4>1, Zenon DEF EndInv
    <3> QED
      BY <3>2, <3>3, <3>4, <3>5 DEF TapeInv, EndInv
  <2>4. CASE FirstHalf
    <3>0. /\ ~g_signal_2nd_half /\ g_pulse_length > 0
          /\ FirstHalfOf(g_pulse_length, g_pulse_length_save)
          /\ level' = level /\ g_pulse_length_save' = g_pulse_length_save
      BY <2>4 DEF FirstHalf
    <3>1. g_tap_file_pos' = g_tap_file_pos /\ Left' = Left
      BY <1>3, <2>4 DEF FirstHalf, tapeVars, Left
    <3>2. PositionInv'
      BY <1>3, <2>1, <3>1 DEF PositionInv
    <3>3. level' = FirstLevel
      BY <2>1, <3>0 DEF HalfInv
    <3>4. /\ wave' \o (Pending' \o r)
               = wave \o (<<Begun(FirstLevel, halfTicks + g_pulse_length),
                            Begun(SecondLevel, g_pulse_length_save)>> \o r)
          /\ HalfInv' /\ ~AtRest' /\ Pending' \in Seq(HalfWave)
      BY ONLY <1>1, <3>0, <3>3, r \in Seq(HalfWave), FirstSends
    <3>5. Pending = <<Begun(FirstLevel, halfTicks + g_pulse_length),
                      Begun(SecondLevel, g_pulse_length_save)>>
      BY ONLY <3>0, Zenon DEF Pending
    <3>6. SplitInv'
      BY ONLY <1>3, <2>1, <2>2, <3>1, <3>4, <3>5 DEF SplitInv
    <3>7. ~(g_tap_file_complete' /\ cause' = "")
      <4>1. ~AtRest
        BY <3>0 DEF AtRest
      <4> QED
        BY ONLY <1>2, <1>3, <2>1, <4>1, Zenon DEF EndInv
    <3> QED
      BY <3>2, <3>4, <3>6, <3>7 DEF TapeInv, EndInv
  <2>5. CASE LoadSignal
    <3>0. /\ AtRest /\ g_tap_file_pos < Length /\ level' = FirstLevel
          /\ FirstHalfOf(FirstPulse, SecondPulse) /\ g_pulse_length_save' = SecondPulse
      BY <2>5 DEF LoadSignal, AtRest
    <3>1. halfTicks = 0 /\ Pending = <<>>
      <4>1. halfTicks = 0
        BY <2>1, <3>0 DEF HalfInv
      <4>2. ~g_signal_2nd_half /\ ~(g_pulse_length > 0)
        BY <3>0 DEF AtRest
      <4> QED
        BY ONLY <4>1, <4>2, Zenon DEF Pending
    <3>2. /\ FirstPulse \in Nat /\ SecondPulse \in Nat
          /\ PositionInv'
          /\ Wave!Waves(file.version, Left)
               = <<Begun(FirstLevel, FirstPulse), Begun(SecondLevel, SecondPulse)>>
                   \o Wave!Waves(file.version, Left')
      BY <1>6, <2>1, <2>5, TakesSignal
    <3>3. PICK s \in Seq(HalfWave) : s = Wave!Waves(file.version, Left')
      <4>1. Left' \in Seq(Nat)
        BY <3>2 DEF PositionInv
      <4> QED
        BY <4>1, WavesAre
    <3>4. /\ wave' \o (Pending' \o s)
               = wave \o (<<Begun(FirstLevel, halfTicks + FirstPulse),
                            Begun(SecondLevel, SecondPulse)>> \o s)
          /\ HalfInv' /\ ~AtRest' /\ Pending' \in Seq(HalfWave)
      BY ONLY <1>1, <3>0, <3>2, s \in Seq(HalfWave), FirstSends
    <3>5. halfTicks + FirstPulse = FirstPulse /\ <<>> \o r = r
      BY <3>1, <3>2
    <3>6. SplitInv'
      BY ONLY <1>3, <2>1, <2>2, <3>1, <3>2, <3>3, <3>4, <3>5 DEF SplitInv
    <3>7. ~(g_tap_file_complete' /\ cause' = "")
      <4>1. g_tap_file_pos # Length
        BY <1>1, <3>0 DEF RingTypes, Length
      <4> QED
        BY ONLY <1>2, <1>3, <2>1, <4>1, Zenon DEF EndInv
    <3> QED
      BY <3>2, <3>4, <3>6, <3>7 DEF TapeInv, EndInv
  <2> QED
    BY <2>3, <2>4, <2>5
<1>7. SignalFaithful'
  <2> SUFFICES ASSUME Sound PROVE IsPrefix(wave', Whole')
    BY <1>3 DEF SignalFaithful
  <2>1. PositionInv' /\ SplitInv' /\ Pending' \in Seq(HalfWave)
    BY <1>6 DEF TapeInv
  <2>2. (Wave!Waves(file.version, Left))' \in Seq(HalfWave)
    <3>1. Left' \in Seq(Nat)
      BY <2>1 DEF PositionInv
    <3> QED
      BY <3>1, WavesAre
  <2>3. PICK s \in Seq(HalfWave) : s = Pending' \o (Wave!Waves(file.version, Left))'
    BY ONLY <2>1, <2>2, ConcatProperties, Zenon
  <2>4. wave' \o s = Whole'
    BY <2>1, <2>3 DEF SplitInv
  <2> QED
    BY <1>5, <2>4, PrefixOf
<1> QED
  BY <1>3, <1>4, <1>5, <1>6, <1>7 DEF WaveInv

\* The pulses of an image made of whole pulses.
LEMMA CompleteImage ==
    ASSUME NEW f \in Files, f.magic \in Magics
    PROVE  /\ Wave!PulsesFrom(f.version, f.data)[0 + 1] \in Seq(Nat)
           /\ f.version = 2 => Len(Wave!PulsesFrom(f.version, f.data)[0 + 1]) % 2 = 0
           /\ WaveOf[f] = Wave!Waves(f.version, Wave!PulsesFrom(f.version, f.data)[0 + 1])
           /\ Len(f.data) \in Nat
<1>1. f.data \in Seq(Nat) /\ Len(f.data) \in Nat /\ 1 \in 1..Len(f.data) + 1 /\ 0 + 1 = 1
  BY FileAssumption, SizeAssumption
<1>2. PICK s : s = Wave!PulsesFrom(f.version, f.data)[0 + 1]
  OBVIOUS
<1>3. s = Wave!Pulses(f.version, f.data)
  BY ONLY <1>1, <1>2, Zenon DEF Wave!Pulses
<1>4. s \in Seq(Lengths)
  BY <1>1, <1>2, PulsesTyped
<1>5. (\A k \in DOMAIN s : s[k] # Wave!Truncated) /\ (f.version = 2 => Len(s) % 2 = 0)
  BY ONLY <1>3, ImageAssumption, f \in Files, f.magic \in Magics, Zenon DEF Wave!Complete
<1>6. s \in Seq(Nat)
  <2>1. ASSUME NEW k \in 1..Len(s) PROVE s[k] \in Nat
    BY <1>4, <1>5 DEF Lengths
  <2> QED
    BY <1>4, <2>1
<1>7. WaveOf[f] = Wave!Waves(f.version, s)
  BY ONLY <1>3, f \in Files, f.magic \in Magics, Zenon DEF WaveOf, Wave!HalfWaves
<1> QED
  BY <1>1, <1>2, <1>5, <1>6, <1>7

\* The first signal of an image is still to be taken.
LEMMA StartStep == ASSUME Inv, WaveInv, PlayStart PROVE WaveInv'
<1>1. /\ ~playing /\ wave = <<>> /\ AtRest /\ halfTicks = 0 /\ cause = ""
  BY DEF PlayStart, WaveInv, IdleInv
<1>2. /\ playing' = TRUE /\ g_tap_file_pos' = 0 /\ g_tap_file_complete' = FALSE
      /\ g_signal_2nd_half' = FALSE /\ wave' = wave /\ halfTicks' = halfTicks /\ cause' = cause
      /\ g_pulse_length' = g_pulse_length
  BY DEF PlayStart
<1>3. pc' # "stop"
  BY DEF PlayStart
<1>4. PICK f \in Files : f.magic \in Magics /\ file' = f
  BY DEF PlayStart
<1>5. PICK s \in Seq(Nat) :
         /\ s = Wave!PulsesFrom(f.version, f.data)[0 + 1]
         /\ f.version = 2 => Len(s) % 2 = 0
         /\ WaveOf[f] = Wave!Waves(f.version, s)
  BY <1>4, CompleteImage, Zenon
<1>6. Len(f.data) \in Nat
  BY <1>4, CompleteImage
<1>7. Left' = s
  BY ONLY <1>2, <1>4, <1>5, Zenon DEF Left
<1>8. Whole' = Wave!Waves(f.version, s)
  BY ONLY <1>4, <1>5, Zenon DEF Whole
<1>9. PICK w \in Seq(HalfWave) : w = Wave!Waves(f.version, s)
  BY WavesAre
<1>10. g_pulse_length' = 0 /\ ~g_signal_2nd_half' /\ AtRest'
  BY <1>1, <1>2 DEF AtRest
<1>11. Pending' = <<>>
  BY <1>10 DEF Pending
<1>12. PositionInv'
  <2>1. g_tap_file_pos' \in 0..Length'
    BY ONLY <1>2, <1>4, <1>6 DEF Length
  <2>2. Left' \in Seq(Nat) /\ (file'.version = 2 => Len(Left') % 2 = 0)
    BY ONLY <1>4, <1>5, <1>7, s \in Seq(Nat), Zenon
  <2> QED
    BY ONLY <1>4, <2>1, <2>2, Zenon DEF PositionInv
<1>13. SplitInv'
  <2>1. <<>> \o (<<>> \o w) = w
    BY ConcatEmptySeq
  <2> QED
    BY ONLY <1>1, <1>2, <1>4, <1>7, <1>8, <1>9, <1>11, <2>1 DEF SplitInv
<1>14. HalfInv'
  <2>1. ~(0 > 0)
    OBVIOUS
  <2> QED
    BY ONLY <1>1, <1>2, <1>10, <2>1, Zenon DEF HalfInv
<1>15. EndInv'
  BY <1>2 DEF EndInv
<1>16. SignalFaithful'
  <2>1. IsPrefix(<<>>, w)
    BY NoneIsPrefix
  <2> QED
    BY ONLY <1>1, <1>2, <1>8, <1>9, <2>1 DEF SignalFaithful
<1>17. IdleInv'
  BY <1>2, <1>3 DEF IdleInv
<1>18. wave' \in Seq(HalfWave)
  BY <1>2 DEF WaveInv
<1> QED
  BY <1>12, <1>13, <1>14, <1>15, <1>16, <1>17, <1>18 DEF WaveInv, TapeInv

LEMMA RejectStep == ASSUME Inv, WaveInv, PlayRejected PROVE WaveInv'
<1>1. /\ ~playing /\ pc = "idle" /\ wave = <<>> /\ file.magic \notin Magics
  BY DEF PlayRejected, WaveInv, IdleInv
<1>2. /\ playing' = TRUE /\ wave' = wave /\ pc' = pc /\ timerOn' = timerOn
  BY DEF PlayRejected, signalVars
<1>3. file'.magic \notin Magics
  BY <1>1 DEF PlayRejected
<1>4. Whole' = <<>>
  BY <1>3 DEF Whole
<1>5. SignalFaithful'
  <2>1. <<>> \in Seq(HalfWave)
    OBVIOUS
  <2>2. IsPrefix(<<>>, <<>>)
    BY <2>1, NoneIsPrefix
  <2> QED
    BY ONLY <1>1, <1>2, <1>4, <2>2 DEF SignalFaithful
<1>6. ~timerOn'
  BY <1>1, <1>2 DEF Inv, DeckInv
<1>7. IdleInv'
  BY <1>1, <1>2 DEF IdleInv
<1>8. wave' \in Seq(HalfWave)
  BY <1>1, <1>2
<1> QED
  BY <1>5, <1>6, <1>7, <1>8 DEF WaveInv

\* The user interface gives the player one tape.
LEMMA SameTape ==
    ASSUME Next, playing PROVE file' = file /\ playing' = playing
<1>1. CASE PlayRejected \/ PlayStart
  BY <1>1 DEF PlayRejected, PlayStart
<1>2. CASE UNCHANGED deckVars
  BY <1>2 DEF deckVars
<1>3. CASE Stop
  BY <1>3 DEF Stop
<1> QED
  BY <1>1, <1>2, <1>3 DEF Next, play_file, TIMER1_COMPA, WaitTest, PollStop, PollSelect, PollAgain,
     Check, CopyByte, FillDone, Drain, Halted, SecondHalf, FirstHalf, EndOfTape, LoadSignal, Motor,
     KeyPress

\* An excuse, once given, remains.
LEMMA StaysExcused == ASSUME Next, cause # "" PROVE cause' # ""
<1>1. CASE PlayRejected
  BY <1>1 DEF PlayRejected, userVars
<1>2. CASE PollStop
  BY <1>2 DEF PollStop
<1>3. CASE Drain
  BY <1>3 DEF Drain
<1>4. CASE UNCHANGED cause
  BY <1>4
<1> QED
  BY <1>1, <1>2, <1>3, <1>4 DEF Next, play_file, TIMER1_COMPA, PlayStart, WaitTest, PollSelect,
     PollAgain, Check, CopyByte, FillDone, Stop, Halted, SecondHalf, FirstHalf, EndOfTape,
     LoadSignal, Motor, KeyPress, userVars

\* A player that is not sound stays so.
LEMMA SoundStep == ASSUME Next, playing, Sound' PROVE Sound
<1>1. file' = file /\ Length' = Length
  BY SameTape DEF Length
<1>2. CASE PlayRejected \/ PlayStart
  BY <1>2 DEF PlayRejected, PlayStart
<1>3. CASE WaitTest \/ PollStop \/ PollSelect \/ PollAgain \/ CopyByte
  <2>1. Refilling /\ cardFailed' = cardFailed
    BY <1>3 DEF WaitTest, PollStop, PollSelect, PollAgain, CopyByte, bufferVars, Refilling
  <2> QED
    BY <2>1 DEF Sound
<1>4. CASE Check \/ FillDone
  <2>1. Refilling /\ (cardFailed' = cardFailed \/ cardFailed' = TRUE)
    BY <1>4 DEF Check, FillDone, bufferVars, Refilling
  <2> QED
    BY <2>1 DEF Sound
<1>5. CASE UNCHANGED <<cardFailed, fptr>> /\ (Refilling' => Refilling)
  BY <1>1, <1>5 DEF Sound
<1>6. CASE Drain \/ Stop
  <2>1. UNCHANGED <<cardFailed, fptr>> /\ ~Refilling'
    BY <1>6 DEF Drain, Stop, bufferVars, Refilling
  <2> QED
    BY <1>5, <2>1
<1>7. CASE UNCHANGED <<bufferVars, pc>>
  <2>1. UNCHANGED <<cardFailed, fptr>> /\ (Refilling' => Refilling)
    BY <1>7 DEF bufferVars, Refilling
  <2> QED
    BY <1>5, <2>1
<1> QED
  BY <1>2, <1>3, <1>4, <1>6, <1>7 DEF Next, play_file, TIMER1_COMPA, Halted, SecondHalf, FirstHalf,
     EndOfTape, LoadSignal, Motor, KeyPress

----------------------------------------------------------------------------
(* The theorems. *)

LEMMA InitWave == Init => WaveInv
<1> SUFFICES ASSUME Init PROVE WaveInv
  OBVIOUS
<1>1. /\ wave = <<>> /\ halfTicks = 0 /\ cause = "" /\ pc = "idle" /\ timerOn = FALSE
      /\ g_pulse_length = 0 /\ g_signal_2nd_half = FALSE /\ playing = FALSE
  BY DEF Init
<1>2. file.magic \notin Magics
  BY DEF Init, Magics
<1>3. <<>> \in Seq(HalfWave)
  OBVIOUS
<1>4. IsPrefix(<<>>, <<>>)
  BY <1>3, NoneIsPrefix
<1>5. Whole = <<>>
  BY <1>2 DEF Whole
<1>6. SignalFaithful
  BY ONLY <1>1, <1>4, <1>5 DEF SignalFaithful
<1>7. AtRest
  BY <1>1 DEF AtRest
<1>8. IdleInv
  BY ONLY <1>1, <1>2, <1>7 DEF IdleInv
<1> QED
  BY ONLY <1>1, <1>3, <1>6, <1>8 DEF WaveInv

LEMMA WaveStep == Inv /\ WaveInv /\ [Next]_vars => WaveInv'
<1> SUFFICES ASSUME Inv, WaveInv, [Next]_vars PROVE WaveInv'
  OBVIOUS
<1>1. Sound /\ timerOn => EndInv
  BY DEF WaveInv, TapeInv
<1>2. pc = "stop" => g_tap_file_complete \/ cause # ""
  BY DEF WaveInv, IdleInv
<1>3. Next /\ playing => (Sound' => Sound) /\ file' = file /\ playing' = playing
  BY SoundStep, SameTape
<1>4. timerOn <=> pc # "idle"
  BY DEF Inv, DeckInv
<1>5. ~playing => pc = "idle"
  BY DEF Inv, DeckInv
<1>6. ASSUME Next, playing, UNCHANGED <<signalVars, tapeVars, timerOn>>,
             g_tap_file_complete' /\ cause' = "" => g_tap_file_complete /\ cause = "",
             pc' = "stop" => g_tap_file_complete' \/ cause' # ""
      PROVE  WaveInv'
  <2>1. /\ UNCHANGED <<wave, halfTicks, g_pulse_length, g_signal_2nd_half, level,
                       g_pulse_length_save, g_tap_file_pos, timerOn>>
    BY <1>6 DEF signalVars, tapeVars
  <2>2. (Sound' => Sound) /\ file' = file /\ playing' = playing
    BY <1>3, <1>6
  <2>3. Sound' /\ timerOn' => EndInv'
    <3> SUFFICES ASSUME Sound', timerOn', g_tap_file_complete', cause' = ""
                 PROVE  AtRest' /\ g_tap_file_pos' = Length'
      BY DEF EndInv
    <3>1. Sound /\ timerOn /\ g_tap_file_complete /\ cause = ""
      <4>1. timerOn' = timerOn
        BY <2>1
      <4>2. g_tap_file_complete /\ cause = ""
        BY ONLY <1>6, g_tap_file_complete', cause' = "", Zenon
      <4> QED
        BY <2>2, <4>1, <4>2
    <3>2. AtRest /\ g_tap_file_pos = Length
      BY ONLY <1>1, <3>1, Zenon DEF EndInv
    <3> QED
      BY <2>1, <2>2, <3>2 DEF AtRest, Length
  <2>4. (timerOn' => timerOn /\ UNCHANGED <<level, g_pulse_length_save, g_tap_file_pos>>)
    BY <2>1
  <2>5. (~playing => cause' = cause) /\ (pc' = "stop" => g_tap_file_complete' \/ cause' # "")
    BY <1>6
  <2>6. UNCHANGED <<wave, halfTicks, g_pulse_length, g_signal_2nd_half, file, playing>>
    BY <2>1, <2>2
  <2> QED
    BY <2>2, <2>3, <2>4, <2>5, <2>6, QuietStep
<1>7. CASE WaitTest \/ PollSelect \/ PollAgain \/ Check \/ CopyByte \/ FillDone \/ KeyPress \/ Halted
  <2>1. UNCHANGED <<signalVars, tapeVars, timerOn, g_tap_file_complete, cause>>
    BY <1>7 DEF WaitTest, PollSelect, PollAgain, Check, CopyByte, FillDone, KeyPress, Halted,
                deckVars, userVars
  <2>2. pc' = "stop" => pc = "stop"
    BY <1>7 DEF WaitTest, PollSelect, PollAgain, Check, CopyByte, FillDone, KeyPress, Halted
  <2>3. pc # "idle"
    BY <1>4, <1>7 DEF WaitTest, PollSelect, PollAgain, Check, CopyByte, FillDone, KeyPress, Halted
  <2>4. Next
    BY <1>7 DEF Next, play_file, TIMER1_COMPA
  <2> QED
    BY <1>2, <1>5, <1>6, <2>1, <2>2, <2>3, <2>4
<1>8. CASE PollStop
  <2>1. /\ UNCHANGED <<signalVars, tapeVars, timerOn>> /\ pc = "poll" /\ pc' = "check"
        /\ cause' = IF g_tap_file_complete THEN cause ELSE "abort"
    BY <1>8 DEF PollStop, deckVars
  <2>2. cause' = "" => g_tap_file_complete /\ cause = ""
    BY <2>1
  <2>3. Next
    BY <1>8 DEF Next, play_file
  <2> QED
    BY <1>5, <1>6, <2>1, <2>2, <2>3
<1>9. CASE Drain
  <2>1. /\ UNCHANGED <<signalVars, tapeVars, timerOn, g_tap_file_complete>> /\ pc = "drain"
        /\ cause' = IF g_tap_file_complete THEN cause
                    ELSE IF g_cur_command = "abort" THEN "abort" ELSE "delay"
    BY <1>9 DEF Drain, deckVars
  <2>2. cause' = "" => g_tap_file_complete /\ cause = ""
    BY <2>1
  <2>3. Next
    BY <1>9 DEF Next, play_file
  <2> QED
    BY <1>5, <1>6, <2>1, <2>2, <2>3
<1>10. CASE Stop
  <2>1. /\ UNCHANGED <<wave, halfTicks, g_pulse_length, g_signal_2nd_half, file, playing>>
        /\ timerOn' = FALSE /\ pc = "stop" /\ pc' = "idle"
    BY <1>10 DEF Stop
  <2>2. Next
    BY <1>10 DEF Next, play_file
  <2> QED
    BY <1>3, <1>5, <2>1, <2>2, QuietStep
<1>11. CASE EndOfTape
  <2>1. /\ UNCHANGED <<wave, halfTicks, g_pulse_length, g_signal_2nd_half, file, playing, level,
                       g_pulse_length_save, g_tap_file_pos, timerOn, pc, cause>>
        /\ timerOn /\ AtRest /\ g_tap_file_pos >= Length /\ g_tap_file_complete'
    BY <1>11 DEF EndOfTape, Running, AtRest, signalVars, tapeVars, deckVars, userVars
  <2>2. Next /\ playing
    BY <1>4, <1>5, <1>11, <2>1 DEF Next, TIMER1_COMPA
  <2>3. ASSUME Sound', timerOn' PROVE EndInv'
    <3>1. g_tap_file_pos \in 0..Length
      BY <1>3, <2>1, <2>2, <2>3 DEF WaveInv, TapeInv, PositionInv
    <3>2. Length \in Nat
      BY DEF Inv, TypeOK, RingTypes, Length
    <3>3. g_tap_file_pos' = Length' /\ AtRest'
      BY <2>1, <3>1, <3>2 DEF Length, AtRest
    <3> QED
      BY <3>3 DEF EndInv
  <2> QED
    BY <1>3, <2>1, <2>2, <2>3, QuietStep
<1>12. CASE Motor \/ UNCHANGED vars
  <2>1. /\ UNCHANGED <<wave, halfTicks, g_pulse_length, g_signal_2nd_half, file, playing, level,
                       g_pulse_length_save, g_tap_file_pos, timerOn, pc, cause,
                       g_tap_file_complete, cardFailed, fptr>>
    BY <1>12 DEF Motor, vars, bufferVars, signalVars, tapeVars, deckVars, userVars
  <2>2. Sound' = Sound
    BY <2>1 DEF Sound, Refilling, Length
  <2>3. EndInv' = EndInv
    BY <2>1 DEF EndInv, AtRest, Length
  <2> QED
    BY <1>1, <1>2, <2>1, <2>2, <2>3, QuietStep
<1> QED
  BY <1>7, <1>8, <1>9, <1>10, <1>11, <1>12, StartStep, RejectStep, SendingStep
     DEF Next, play_file, TIMER1_COMPA

\* The invariant of the signal holds in every behaviour.
THEOREM WaveHolds == Spec => [](Inv /\ WaveInv)
<1>1. Init => Inv /\ WaveInv
  BY InitInv, InitWave
<1>2. (Inv /\ WaveInv) /\ [Next]_vars => (Inv /\ WaveInv)'
  BY InvStep, WaveStep
<1> QED
  BY <1>1, <1>2, PTL DEF Spec

\* What the READ line has carried is a prefix of the waveform of the image, half
\* by half and tick by tick, as long as the player is sound (tapuino.cpp:181-277
\* against 417-453).
THEOREM SignalCorrect == Spec => []SignalFaithful
<1>1. Inv /\ WaveInv => SignalFaithful
  BY DEF WaveInv
<1> QED
  BY <1>1, WaveHolds, PTL

----------------------------------------------------------------------------
(* The player implements the tape deck.                                    *)

\* A step of a playing player that leaves the READ line alone: what can change
\* are the excuse and the fault, and they only come.
LEMMA DeckQuiet ==
    ASSUME playing, playing', pc # "idle", pc' # "idle", file' = file, wave' = wave,
           Sound' => Sound, cause # "" => cause' # ""
    PROVE  Deck!Next
<1>1. Whole' = Whole
  BY DEF Whole
<1>2. (cause' # "") \in {cause # "", TRUE} /\ (~Sound') \in {~Sound, TRUE}
  <2>1. (cause' # "") = TRUE \/ (cause' # "") = (cause # "")
    OBVIOUS
  <2>2. (~Sound') = TRUE \/ (~Sound') = (~Sound)
    OBVIOUS
  <2> QED
    BY ONLY <2>1, <2>2, Zenon
<1>3. Deck!Trouble
  BY ONLY <1>1, <1>2, playing, playing', pc # "idle", pc' # "idle", wave' = wave, Zenon
     DEF Deck!Trouble
<1> QED
  BY <1>3 DEF Deck!Next

LEMMA WholeTyped == ASSUME Inv, timerOn PROVE Whole \in Seq(HalfWave)
<1>1. file \in Files
  BY DEF Inv, DeckInv
<1>2. CASE file.magic \in Magics
  <2>1. PICK s \in Seq(Nat) : WaveOf[file] = Wave!Waves(file.version, s)
    BY <1>1, <1>2, CompleteImage
  <2>2. Wave!Waves(file.version, s) \in Seq(HalfWave)
    BY WavesAre
  <2> QED
    BY <1>2, <2>1, <2>2 DEF Whole
<1>3. CASE file.magic \notin Magics
  BY <1>3 DEF Whole
<1> QED
  BY <1>2, <1>3

\* A sequence that is one longer than another and starts with it.
LEMMA OneMore ==
    ASSUME NEW w \in Seq(HalfWave), NEW x \in HalfWave, NEW u, u = Append(w, x)
    PROVE  u \in Seq(HalfWave) /\ Len(u) = Len(w) + 1 /\ SubSeq(u, 1, Len(w)) = w
<1>1. u \in Seq(HalfWave) /\ Len(u) = Len(w) + 1 /\ \A i \in 1..Len(w) : u[i] = w[i]
  OBVIOUS
<1>2. PICK t \in Seq(HalfWave) : t = SubSeq(u, 1, Len(w)) /\ Len(t) = Len(w)
                                   /\ \A i \in 1..Len(w) : t[i] = u[i]
  BY <1>1
<1>3. t = w
  BY <1>1, <1>2, SeqEqual
<1> QED
  BY <1>1, <1>2, <1>3

\* A step that sends a half-wave sends the next one of the tape.
LEMMA DeckSend ==
    ASSUME Inv, WaveInv, WaveInv', timerOn, playing, playing', pc # "idle", pc' # "idle",
           file' = file, Sound' <=> Sound, cause' = cause,
           NEW x \in HalfWave, wave' = Append(wave, x)
    PROVE  Deck!Next
<1>1. Whole' = Whole /\ Whole \in Seq(HalfWave)
  BY WholeTyped DEF Whole
<1>2. /\ wave \in Seq(HalfWave) /\ wave' \in Seq(HalfWave)
      /\ Len(wave') = Len(wave) + 1 /\ SubSeq(wave', 1, Len(wave)) = wave
  <2>1. wave \in Seq(HalfWave)
    BY DEF WaveInv
  <2> QED
    BY <2>1, OneMore
<1>3. Sound => Len(wave) < Len(Whole) /\ wave'[Len(wave) + 1] = Whole[Len(wave) + 1]
  <2> SUFFICES ASSUME Sound
               PROVE  Len(wave) < Len(Whole) /\ wave'[Len(wave) + 1] = Whole[Len(wave) + 1]
    OBVIOUS
  <2>1. /\ Len(wave') <= Len(Whole)
        /\ SubSeq(wave', 1, Len(wave')) = SubSeq(Whole, 1, Len(wave'))
    BY <1>1 DEF WaveInv, SignalFaithful, IsPrefix
  <2>2. PICK n \in Nat : n = Len(wave) /\ Len(wave') = n + 1
    <3>1. Len(wave) \in Nat
      BY <1>2
    <3> QED
      BY ONLY <1>2, <3>1
  <2>3. n < Len(Whole)
    BY <1>1, <2>1, <2>2
  <2>4. ASSUME NEW s \in Seq(HalfWave), NEW t \in Seq(HalfWave), Len(s) = n + 1, n + 1 <= Len(t),
               SubSeq(s, 1, n + 1) = SubSeq(t, 1, n + 1)
        PROVE  s[n + 1] = t[n + 1]
    <3>1. SubSeq(s, 1, n + 1)[n + 1] = s[n + 1] /\ SubSeq(t, 1, n + 1)[n + 1] = t[n + 1]
      BY <2>4
    <3> QED
      BY ONLY <2>4, <3>1
  <2>5. wave'[n + 1] = Whole[n + 1]
    BY ONLY <1>1, <1>2, <2>1, <2>2, <2>4
  <2> QED
    BY ONLY <2>2, <2>3, <2>5
<1>4. (~Sound) = (~Sound') /\ (cause # "") = (cause' # "")
  OBVIOUS
<1>5. Deck!Send
  BY ONLY <1>1, <1>2, <1>3, <1>4, playing, playing', pc # "idle", pc' # "idle", Zenon
     DEF Deck!Send
<1> QED
  BY <1>5 DEF Deck!Next

LEMMA DeckSendingStep ==
    ASSUME Inv, WaveInv, WaveInv', SecondHalf \/ FirstHalf \/ LoadSignal
    PROVE  [Deck!Next]_(Deck!vars)
<1>1. /\ UNCHANGED <<pc, bufferVars, deckVars, userVars>> /\ timerOn
  BY DEF SecondHalf, FirstHalf, LoadSignal, Running
<1>2. /\ pc # "idle" /\ pc' # "idle" /\ file' = file /\ cause' = cause /\ playing
      /\ playing' = playing
  BY <1>1 DEF Inv, DeckInv, deckVars, userVars
<1>3. Sound' = Sound
  BY <1>1 DEF Sound, Refilling, Length, bufferVars, deckVars
<1>4. PICK p \in Nat : Emit(p) /\ level' \in Levels
  <2>1. CASE SecondHalf
    BY <2>1, LevelNames DEF SecondHalf, Inv, TypeOK, SignalTypes
  <2>2. CASE FirstHalf
    BY <2>2 DEF FirstHalf, FirstHalfOf, Inv, TypeOK, SignalTypes, ControlTypes
  <2>3. CASE LoadSignal
    <3>1. FirstPulse \in Nat
      BY <1>1, SignalFacts DEF Inv, TypeOK, DeckInv
    <3> QED
      BY <2>3, <3>1, LevelNames DEF LoadSignal, FirstHalfOf
  <2> QED
    BY <2>1, <2>2, <2>3
<1>5. CASE p > MaxOCR
  <2>1. wave' = wave
    BY <1>4, <1>5, EmitCases
  <2>2. Deck!Next
    BY <1>2, <1>3, <2>1, DeckQuiet
  <2> QED
    BY <2>2
<1>6. CASE ~(p > MaxOCR)
  <2>1. wave' = Append(wave, Begun(level', halfTicks + p))
    BY <1>4, <1>6, EmitCases
  <2>2. PICK x \in HalfWave : x = Begun(level', halfTicks + p)
    <3>1. halfTicks + p \in Nat
      BY <1>4 DEF Inv, TypeOK, SignalTypes
    <3> QED
      BY <1>4, <3>1 DEF Begun, HalfWave
  <2>3. wave' = Append(wave, x)
    BY ONLY <2>1, <2>2
  <2>4. Deck!Next
    BY <1>1, <1>2, <1>3, <2>3, DeckSend
  <2> QED
    BY <2>4
<1> QED
  BY <1>5, <1>6

\* Every step of the player is a step of the deck, or none.
LEMMA PlayerStep ==
    ASSUME Inv, WaveInv, WaveInv', [Next]_vars
    PROVE  [Deck!Next]_(Deck!vars)
<1>1. CASE PlayRejected
  <2>1. /\ ~playing /\ playing' = TRUE /\ pc = "idle" /\ pc' = "idle" /\ wave' = wave /\ cause' = cause
    BY <1>1 DEF PlayRejected, signalVars, userVars
  <2>2. file.magic \notin Magics /\ file'.magic \notin Magics
    BY <1>1, <2>1 DEF PlayRejected, WaveInv, IdleInv
  <2>3. Whole' = Whole
    BY <2>2 DEF Whole
  <2>4. (~Sound') \in BOOLEAN /\ (cause' # "") = (cause # "")
    BY <2>1
  <2>5. Deck!Reject
    BY ONLY <2>1, <2>3, <2>4, Zenon DEF Deck!Reject
  <2> QED
    BY <2>5 DEF Deck!Next
<1>2. CASE PlayStart
  <2>1. /\ ~playing /\ playing' = TRUE /\ wave' = wave /\ cause' = cause /\ pc' # "idle"
    BY <1>2 DEF PlayStart
  <2>2. PICK f \in Files : f.magic \in Magics /\ file' = f
    BY <1>2 DEF PlayStart
  <2>3. Whole' = WaveOf[f] /\ f \in DOMAIN WaveOf
    BY ONLY <2>2, f \in Files, Zenon DEF Whole, WaveOf
  <2>4. (~Sound') \in BOOLEAN /\ (cause' # "") = (cause # "")
    BY <2>1
  <2>5. Deck!Insert
    BY ONLY <2>1, <2>3, <2>4, Zenon DEF Deck!Insert
  <2> QED
    BY <2>5 DEF Deck!Next
<1>3. CASE Stop
  <2>1. /\ pc = "stop" /\ pc' = "idle" /\ playing' = playing /\ wave' = wave /\ file' = file
        /\ cause' = cause /\ UNCHANGED <<cardFailed, fptr>>
    BY <1>3 DEF Stop, bufferVars
  <2>2. playing /\ timerOn
    BY <2>1 DEF Inv, DeckInv
  <2>3. Whole' = Whole /\ (~Sound') = (~Sound) /\ (cause' # "") = (cause # "")
    BY <2>1 DEF Whole, Sound, Refilling, Length
  <2>4. ASSUME Sound, cause = "" PROVE wave = Whole
    <3>1. PositionInv /\ SplitInv /\ AtRest /\ g_tap_file_pos = Length
      BY <2>1, <2>2, <2>4 DEF WaveInv, TapeInv, IdleInv, EndInv
    <3>2. Left = <<>>
      <4>1. file.data \in Seq(Nat) /\ g_tap_file_pos = Len(file.data)
        BY <3>1, SizeAssumption DEF Inv, TypeOK, RingTypes, Length
      <4>2. Wave!PulsesFrom(file.version, file.data)[Len(file.data) + 1] = <<>>
        BY ONLY <4>1, NothingLeft
      <4> QED
        BY ONLY <4>1, <4>2 DEF Left
    <3>3. Pending = <<>> /\ Wave!Waves(file.version, Left) = <<>>
      BY <3>1, <3>2, WavesNone DEF Pending, AtRest
    <3>4. wave \o (<<>> \o <<>>) = wave
      BY ConcatEmptySeq DEF WaveInv
    <3> QED
      BY ONLY <3>1, <3>3, <3>4 DEF SplitInv
  <2>5. Deck!Finish
    BY ONLY <2>1, <2>2, <2>3, <2>4, Zenon DEF Deck!Finish
  <2> QED
    BY <2>5 DEF Deck!Next
<1>4. CASE SecondHalf \/ FirstHalf \/ LoadSignal
  BY <1>4, DeckSendingStep
<1>5. CASE \/ WaitTest \/ PollStop \/ PollSelect \/ PollAgain \/ Check \/ CopyByte \/ FillDone
           \/ Drain \/ KeyPress \/ Halted \/ EndOfTape
  <2>1. pc # "idle" /\ pc' # "idle" /\ wave' = wave
    <3>1. CASE Halted \/ EndOfTape
      BY <3>1 DEF Halted, EndOfTape, Running, signalVars, Inv, DeckInv
    <3>2. CASE WaitTest \/ PollStop \/ PollSelect \/ PollAgain \/ Check
      BY <3>2 DEF WaitTest, PollStop, PollSelect, PollAgain, Check, signalVars
    <3>3. CASE CopyByte \/ FillDone \/ Drain \/ KeyPress
      BY <3>3 DEF CopyByte, FillDone, Drain, KeyPress, signalVars
    <3> QED
      BY <1>5, <3>1, <3>2, <3>3
  <2>2. playing
    BY <2>1 DEF Inv, DeckInv
  <2>3. Next
    BY <1>5 DEF Next, play_file, TIMER1_COMPA
  <2>4. file' = file /\ playing' = playing /\ (Sound' => Sound) /\ (cause # "" => cause' # "")
    BY <2>2, <2>3, SameTape, SoundStep, StaysExcused
  <2>5. Deck!Next
    BY <2>1, <2>2, <2>4, DeckQuiet
  <2> QED
    BY <2>5
<1>6. CASE Motor \/ UNCHANGED vars
  <2>1. UNCHANGED <<playing, pc, file, wave, cause, cardFailed, fptr>>
    BY <1>6 DEF Motor, vars, bufferVars, signalVars, deckVars, userVars
  <2>2. Whole' = Whole /\ (~Sound') = (~Sound) /\ (cause' # "") = (cause # "")
    BY <2>1 DEF Whole, Sound, Refilling, Length
  <2> QED
    BY ONLY <2>1, <2>2 DEF Deck!vars
<1> QED
  BY <1>1, <1>2, <1>3, <1>4, <1>5, <1>6 DEF Next, play_file, TIMER1_COMPA

\* The player implements the tape deck: through every interleaving it sends the
\* half-waves of the image, each once and in order, and does not stop before the
\* last but on an abort or after its delay, unless the image could not be read
\* (tapuino.cpp:181-491).
THEOREM PlayerImplementsDeck == Spec => DeckSpec
<1>1. Init => Deck!Init
  <2> SUFFICES ASSUME Init PROVE Deck!Init
    OBVIOUS
  <2>1. ~playing /\ wave = <<>> /\ cause = "" /\ cardFailed = FALSE /\ fptr = 0
           /\ file = [magic |-> "", version |-> 0, data |-> <<>>]
    BY DEF Init
  <2>2. Whole = <<>>
    BY <2>1 DEF Whole, Magics
  <2>3. Sound
    BY <2>1 DEF Sound, Length
  <2>4. (cause # "") = FALSE /\ (~Sound) = FALSE
    BY <2>1, <2>3
  <2> QED
    BY ONLY <2>1, <2>2, <2>4, Zenon DEF Deck!Init
<1>2. Inv /\ WaveInv /\ (Inv /\ WaveInv)' /\ [Next]_vars => [Deck!Next]_(Deck!vars)
  BY PlayerStep
<1> QED
  BY <1>1, <1>2, WaveHolds, PTL DEF Spec, DeckSpec, Deck!Spec
============================================================================
